--------------------------- MODULE MCDebugServer ---------------------------
(***************************************************************************)
(* A program with a call that unwinds by hand, a device interrupt in the   *)
(* middle of it, a sleep only the keyboard ends, and a fault, under a      *)
(* debugger whose client goes forward and back.                            *)
(***************************************************************************)
EXTENDS DebugServer

Instr(op, to, line, head) == [op |-> op, to |-> to, line |-> line, head |-> head]

McListing ==
  <<Instr("call", 8, 1, TRUE), Instr("break", 0, 2, TRUE), Instr("plain", 0, 2, FALSE), Instr("halt", 0, 3, TRUE),
    Instr("read", 0, 4, TRUE), Instr("store", 0, 5, TRUE), Instr("fault", 0, 6, TRUE),
    Instr("plain", 0, 7, TRUE), Instr("call", 11, 8, TRUE), Instr("ret", 0, 8, FALSE),
    Instr("drop", 0, 9, TRUE), Instr("ret", 0, 9, FALSE),
    Instr("plain", 0, 10, TRUE), Instr("iret", 0, 10, FALSE),
    Instr("plain", 0, 11, TRUE), Instr("off", 0, 11, FALSE)>>

Breakpoints ==
  {[pc \in 1..16 |-> IF pc \in {8, 12} THEN PlainPoint ELSE NoBreakpoint],
   [pc \in 1..16 |-> CASE pc = 9 -> [PlainPoint EXCEPT !.condition = "false"] [] pc = 8 -> [PlainPoint EXCEPT !.log = TRUE]
                       [] pc = 12 -> [PlainPoint EXCEPT !.condition = "bad"] [] pc = 3 -> [PlainPoint EXCEPT !.from = 2]
                       [] OTHER -> NoBreakpoint]}

R(command, args) == {[command |-> command, arg |-> arg] : arg \in args}
Commands == {"configurationDone", "terminate", "restart", "continue", "next", "stepIn", "stepOut", "stepInstruction",
             "stepBack", "stepBackInstruction", "reverseContinue", "pause"}
McRequests ==
  {[command |-> c, arg |-> 0] : c \in Commands}
  \cup R("setBreakpoints", Breakpoints) \cup R("runTo", {5}) \cup R("runToTick", {6})
  \cup R("goto", {4}) \cup R("input", {"key"})
=============================================================================
