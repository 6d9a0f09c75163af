---------------------------- MODULE DebugServer ----------------------------
(***************************************************************************)
(* The debug server (debug_server.cpp): one thread reads requests from the *)
(* standard input, the main thread carries them out one at a time on the   *)
(* session.  A pause or an end is also told to the session by the reader,  *)
(* because the main thread may be in the middle of a run.                  *)
(*                                                                         *)
(* The client is an editor: it waits for an answer before it asks again,   *)
(* but for a pause, an end, and closing the pipe.                          *)
(***************************************************************************)
EXTENDS DebugSession

CONSTANTS
  Requests,     \* what the client may ask: [command, arg]
  StopOnEntry,  \* LaunchConfig::stopOnEntry
  MaxRequests   \* bounds what the client asks

ASSUME RequestsAssumption == \A r \in Requests : r.command = "runToTick" => r.arg \in Nat

VARIABLES
  pipe,         \* lines the client wrote and nobody read
  closed,       \* the client closed it
  sent,         \* how many it wrote
  answered,     \* how many answers it got
  reader,       \* the reading thread: [pc, line]
  main,         \* the main thread: [pc, request]
  queue,        \* _pending
  queueMutex,   \* _queueMutex: "reader", "main" or "free"
  control,      \* _readerControl: its mutex's owner, and its stopping
  inputClosed,  \* _inputClosed
  stopping,     \* _stopping
  configured    \* _configured

wires == <<pipe, closed, sent, answered>>
threads == <<reader, main, queue, queueMutex, control, inputClosed, stopping, configured>>
debugVars == <<sessionVars, wires, threads>>

NoRequest == [command |-> "nothing", arg |-> 0]

DebugInit ==
  /\ SessionInit
  /\ bps = [pc \in Pcs |-> NoBreakpoint]
  /\ pipe = <<>> /\ closed = FALSE /\ sent = 0 /\ answered = 0
  /\ reader = [pc |-> "read", line |-> NoRequest]
  /\ main = [pc |-> "look", request |-> NoRequest]
  /\ queue = <<>> /\ queueMutex = "free"
  /\ control = [owner |-> "free", stopping |-> FALSE]
  /\ inputClosed = FALSE /\ stopping = FALSE /\ configured = FALSE

-----------------------------------------------------------------------------
(* The client                                                               *)

Urgent == {"pause", "terminate"}

Ask(request) ==
  /\ ~closed /\ sent < MaxRequests
  /\ sent = answered \/ request.command \in Urgent
  /\ pipe' = Append(pipe, request) /\ sent' = sent + 1
  /\ UNCHANGED <<sessionVars, threads, closed, answered>>

ClosePipe ==
  /\ ~closed /\ closed' = TRUE
  /\ UNCHANGED <<sessionVars, threads, pipe, sent, answered>>

-----------------------------------------------------------------------------
(* The reader: from getline on it holds the control's mutex                 *)

ReaderIs(pc) == reader.pc = pc
ReaderAt(pc) == reader' = [reader EXCEPT !.pc = pc]

ReadLine ==
  /\ ReaderIs("read") /\ pipe # <<>>
  /\ reader' = [pc |-> "line", line |-> Head(pipe)]
  /\ pipe' = Tail(pipe)
  /\ UNCHANGED <<sessionVars, closed, sent, answered, main, queue, queueMutex, control, inputClosed,
                 stopping, configured>>

ReadEnd ==
  /\ ReaderIs("read") /\ pipe = <<>> /\ closed
  /\ ReaderAt("end")
  /\ UNCHANGED <<sessionVars, wires, main, queue, queueMutex, control, inputClosed, stopping, configured>>

TakeControl ==
  /\ reader.pc \in {"line", "end"} /\ control.owner = "free"
  /\ IF control.stopping THEN ReaderAt("done") /\ UNCHANGED control
     ELSE /\ ReaderAt(IF ReaderIs("line") THEN "tell" ELSE "close")
          /\ control' = [control EXCEPT !.owner = "reader"]
  /\ UNCHANGED <<sessionVars, wires, main, queue, queueMutex, inputClosed, stopping, configured>>

TellSession ==
  /\ ReaderIs("tell")
  /\ ReaderAt("push")
  /\ pauseRequested' = (pauseRequested \/ reader.line.command \in Urgent)
  /\ UNCHANGED <<mach, callStack, snaps, stacks, typed, bps, hits, touched, started, cmd, stop, past, faithful,
                 wires, main, queue, queueMutex, control, inputClosed, stopping, configured>>

(* Mutant: the queue is not locked.                                         *)
PushMutant ==
  /\ ReaderIs("push")
  /\ queue' = Append(queue, reader.line)
  /\ ReaderAt("notify")
  /\ UNCHANGED <<sessionVars, wires, main, queueMutex, control, inputClosed, stopping, configured>>

Push ==
  /\ ReaderIs("push") /\ queueMutex = "free"
  /\ queue' = Append(queue, reader.line)
  /\ ReaderAt("notify")
  /\ UNCHANGED <<sessionVars, wires, main, queueMutex, control, inputClosed, stopping, configured>>

CloseInput ==
  /\ ReaderIs("close")
  /\ inputClosed' = TRUE
  /\ ReaderAt("notify")
  /\ UNCHANGED <<sessionVars, wires, main, queue, queueMutex, control, stopping, configured>>

(* The last thing before the control is let go.                             *)
Notify ==
  /\ ReaderIs("notify")
  /\ main' = IF main.pc = "waiting" THEN [main EXCEPT !.pc = "look"] ELSE main
  /\ ReaderAt(IF inputClosed THEN "done" ELSE "read")
  /\ control' = [control EXCEPT !.owner = "free"]
  /\ UNCHANGED <<sessionVars, wires, queue, queueMutex, inputClosed, stopping, configured>>

-----------------------------------------------------------------------------
(* The main thread: wait for a request, carry it out, report where it       *)
(* stopped                                                                  *)

MainAt(pc) == main' = [main EXCEPT !.pc = pc]

(* The condition is asked with the mutex held, which the wait gives up.     *)
Look ==
  /\ main.pc = "look" /\ queueMutex = "free"
  /\ IF stopping THEN MainAt("leaving") /\ UNCHANGED <<queue, queueMutex>>
     ELSE IF queue # <<>>
     THEN main' = [pc |-> "dispatch", request |-> Head(queue)] /\ queue' = Tail(queue) /\ UNCHANGED queueMutex
     ELSE IF inputClosed THEN MainAt("leaving") /\ UNCHANGED <<queue, queueMutex>>
     ELSE MainAt("sleepy") /\ queueMutex' = "main" /\ UNCHANGED queue
  /\ UNCHANGED <<sessionVars, wires, reader, control, inputClosed, stopping, configured>>

Sleep ==
  /\ main.pc = "sleepy"
  /\ MainAt("waiting") /\ queueMutex' = "free"
  /\ UNCHANGED <<sessionVars, wires, reader, queue, control, inputClosed, stopping, configured>>

WakeForNothing ==
  /\ main.pc = "waiting" /\ MainAt("look")
  /\ UNCHANGED <<sessionVars, wires, reader, queue, queueMutex, control, inputClosed, stopping, configured>>

Asked(command) == main.pc = "dispatch" /\ main.request.command = command
Answered == answered' = answered + 1

(* A request that the session carries out and that is reported after it.    *)
Commanded == MainAt("busy") /\ UNCHANGED <<wires, reader, queue, queueMutex, control, inputClosed, stopping, configured>>

(* One that only gets an answer.                                            *)
Replied ==
  /\ MainAt("look") /\ Answered
  /\ UNCHANGED <<pipe, closed, sent, reader, queue, queueMutex, control, inputClosed, stopping>>

ConfigurationDone ==
  /\ Asked("configurationDone") /\ ~configured
  /\ Start(StopOnEntry)
  /\ configured' = TRUE
  /\ MainAt("busy")
  /\ UNCHANGED <<wires, reader, queue, queueMutex, control, inputClosed, stopping>>

Terminate ==
  /\ Asked("terminate")
  /\ MainAt("leaving") /\ Answered
  /\ UNCHANGED <<sessionVars, pipe, closed, sent, reader, queue, queueMutex, control, inputClosed, stopping, configured>>

RestartRequest == Asked("restart") /\ RestartSession(StopOnEntry) /\ Commanded

RunRequest ==
  /\ configured
  /\ \/ Asked("continue") /\ Resume
     \/ Asked("next") /\ StepOver
     \/ Asked("stepIn") /\ StepLine
     \/ Asked("stepOut") /\ StepOut
     \/ Asked("stepInstruction") /\ StepInstruction
     \/ Asked("runTo") /\ RunToAddress(main.request.arg)
  /\ Commanded

BackRequest ==
  /\ configured
  /\ \/ Asked("stepBack") /\ StepBackLine
     \/ Asked("stepBackInstruction") /\ StepBackInstruction
     \/ Asked("reverseContinue") /\ ReverseContinue
     \/ Asked("runToTick") /\ RunToTick(main.request.arg)
  /\ Commanded

EditRequest ==
  /\ \/ Asked("setBreakpoints") /\ SetBreakpoints(main.request.arg)
     \/ Asked("goto") /\ SetProgramCounter(main.request.arg)
     \/ Asked("input") /\ PushInput(main.request.arg)
  /\ Replied /\ UNCHANGED configured

(* A question, a pause that came too late, or a command refused.            *)
NeedsRunning == {"continue", "next", "stepIn", "stepOut", "stepInstruction", "runTo",
                 "stepBack", "stepBackInstruction", "reverseContinue", "runToTick"}
OnlyAnswer ==
  /\ main.pc = "dispatch"
  /\ \/ main.request.command \in {"pause", "history"}
     \/ main.request.command \in NeedsRunning /\ ~configured
     \/ main.request.command = "configurationDone" /\ configured
  /\ Replied /\ UNCHANGED <<sessionVars, configured>>

Busy == main.pc = "busy" /\ SessionTurn /\ UNCHANGED <<wires, threads>>

(* respond and reportStop: after an exit the server stops.                  *)
ReportStop ==
  /\ main.pc = "busy" /\ cmd.mode = "none"
  /\ stopping' = (stopping \/ stop = "exited")
  /\ MainAt("look") /\ Answered
  /\ UNCHANGED <<sessionVars, pipe, closed, sent, reader, queue, queueMutex, control, inputClosed, configured>>

(* ~DebugServer                                                             *)
Destroy ==
  /\ main.pc = "leaving" /\ control.owner = "free"
  /\ control' = [control EXCEPT !.stopping = TRUE]
  /\ stopping' = TRUE
  /\ MainAt("gone")
  /\ UNCHANGED <<sessionVars, wires, reader, queue, queueMutex, inputClosed, configured>>

-----------------------------------------------------------------------------
Client == ClosePipe \/ \E request \in Requests : Ask(request)
Reader == ReadLine \/ ReadEnd \/ TakeControl \/ TellSession \/ Push \/ CloseInput \/ Notify
Main ==
  \/ Look \/ Sleep \/ ConfigurationDone \/ Terminate \/ RestartRequest \/ RunRequest \/ BackRequest
  \/ EditRequest \/ OnlyAnswer \/ Busy \/ ReportStop \/ Destroy
DebugNext == Client \/ Reader \/ Main \/ WakeForNothing

DebugSpec == DebugInit /\ [][DebugNext]_debugVars
-----------------------------------------------------------------------------
(* Properties                                                               *)

(* A breakpoint that asks nothing.                                          *)
PlainPoint == [condition |-> "true", from |-> 1, log |-> FALSE]

(* Once under way a run is never about to execute an instruction that holds *)
(* a plain breakpoint: only the instruction it set out from may.            *)
NoBreakpointRunOver ==
  cmd.mode = "run" /\ ~cmd.first /\ Set(mach.pc) => bps[mach.pc] # PlainPoint

(* The reader, which the end of the server leaves behind, touches nothing   *)
(* of a server that is gone.                                                *)
ServerOutlivesReader ==
  main.pc = "gone" => reader.pc \in {"read", "line", "end", "done"}

(* The server does not sleep over a request it was sent: when it waits with *)
(* one in the queue, the reader is about to wake it.                        *)
NoSleepOverARequest ==
  main.pc = "waiting" /\ queue # <<>> => reader.pc = "notify"

(* Neither of the two threads loses the other: no request waits for a       *)
(* server that sleeps, and no reader outlives the queue it fills.           *)
ServerListens == NoSleepOverARequest /\ ServerOutlivesReader

Returns(m) == m.under \o m.stack

(* The shadow call stack says what is on the machine's own stacks: the      *)
(* return address of every call and interrupt still open and nothing else,  *)
(* while it runs forward, after it went back, and over code that unwinds by *)
(* hand.                                                                    *)
CallStackFollows ==
  started /\ faithful => [i \in 1..Len(callStack) - 1 |-> callStack[i + 1].ret] = Returns(mach)

(* Going back puts the machine and the call stack where they were when that *)
(* instruction was about to run the first time.                             *)
RewindIsExact ==
  [][ReplayEnds /\ cmd.next = "stop" /\ faithful /\ typed = <<>> /\ mach.on
       => mach.tick = cmd.tick /\ [m |-> mach, frames |-> callStack] = past[cmd.tick + 1]]_debugVars

(* Continuing backwards stops at the last breakpoint before the moment it   *)
(* was asked at, of those the history still reaches, and stays at that      *)
(* moment when there is none.  The oldest moment counts only when the       *)
(* machine slept through it: the search looks after each step.              *)
Holds(t) == LET pc == past[t + 1].m.pc IN Set(pc) /\ bps[pc].condition = "true"
ReverseFindsTheLast ==
  [][ScanEnds /\ cmd.next = "breakpoint" /\ faithful /\ typed = <<>> /\ mach.on =>
       LET before == {t \in OldestTick..cmd.back - 1 : Holds(t) /\ (t = OldestTick => Waits(past[t + 1].m))}
       IN  cmd'.tick = IF before = {} THEN cmd.back ELSE CHOOSE t \in before : \A u \in before : u <= t]_debugVars

(* What the user is shown is what the machine did: the call stack, and a    *)
(* stop at every plain breakpoint it came to.                               *)
SessionIsTrue == CallStackFollows /\ NoBreakpointRunOver

=============================================================================
