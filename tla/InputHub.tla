------------------------------ MODULE InputHub ------------------------------
(***************************************************************************)
(* How the host's input reaches a running machine, and what a recording of *)
(* it is good for (libs/driver, InputHub and the loop of runMachine; the   *)
(* input side of libs/devices, TerminalDevice and its LineDiscipline).     *)
(*                                                                         *)
(* A run is recorded and then replayed.  While it is recorded the host     *)
(* posts whenever it likes, also between any two looks of the machine's    *)
(* thread at the queue; the text it types is cut where the terminal has no *)
(* room.  While it is replayed only the recording speaks.                  *)
(*                                                                         *)
(* A keystroke is a character or an Enter, one byte each, and its id says  *)
(* when the host posted it.  The program is a list of operations of one    *)
(* cycle; "restart" puts what follows it in the place of the program, as a *)
(* load does.                                                              *)
(***************************************************************************)
EXTENDS Integers, Sequences, SequencesExt

CONSTANTS
  Setups,       \* the runs to look at: a program, what --keys holds, and how
                \* often a device raises a request (0: nothing is scheduled)
  Capacity,     \* InputBufferCapacity
  MaxLine,      \* LineDiscipline::MaxLine
  SliceCycles,  \* the cycles of one slice
  MaxPosts      \* bound: keystrokes posted by the host

Operation == {"work", "read", "halt", "cooked", "raw", "restart"}

ASSUME SizeAssumption ==
  /\ Capacity \in Nat /\ MaxLine \in Nat \ {0} /\ MaxLine < Capacity
  /\ SliceCycles \in Nat \ {0} /\ MaxPosts \in Nat
Keystroke == [id : Nat, enter : BOOLEAN]
Typed(ks) == [kind |-> "typed", data |-> ks, at |-> 0]
Key(k) == [kind |-> "key", data |-> <<k>>, at |-> 0]
Plain(kind, cycle) == [kind |-> kind, data |-> << >>, at |-> cycle]

(* A script presses keys, and where there is no window it may end with the  *)
(* end of the input.                                                        *)
OfHost == 1 .. MaxPosts
Scripted ==
  {e \in [kind : {"key", "close"}, data : Seq([id : Nat \ OfHost, enter : BOOLEAN]), at : Nat] :
     Len(e.data) = IF e.kind = "key" THEN 1 ELSE 0}
ASSUME SetupAssumption ==
  \A s \in Setups : s.program \in Seq(Operation) /\ s.period \in Nat /\ s.keys \in Seq(Scripted)

VARIABLES
  box,        \* the machine, its program and its terminal
  queue,      \* _queue
  inhand,     \* the event inject() holds while the mutex is free
  scripted,   \* _script from _nextScript on
  log,        \* the recording: what record() was given to write
  next,       \* _nextReplay
  replaying,  \* _replaying
  pc,         \* where the runner's loop is
  end,        \* the cycle this slice ends at
  posted,     \* history: keystrokes posted by the host
  hostClosed, \* history: it has closed the input
  original    \* history: the machine the recorded run ended with

vars == <<box, queue, inhand, scripted, log, next, replaying, pc, end, posted, hostClosed, original>>

Shorter(a, b) == IF a < b THEN a ELSE b
Take(s, n) == SubSeq(s, 1, Shorter(n, Len(s)))
Rest(s, n) == SubSeq(s, n + 1, Len(s))

-----------------------------------------------------------------------------
(* The terminal's input.                                                   *)

(* deliver(): what the ring has no room for is dropped.                    *)
Deliver(b, ks) ==
  LET room == Capacity - Len(b.ring)
  IN  [b EXCEPT !.ring = @ \o Take(ks, room),
                !.dropped = @ \cup ToSet(Rest(ks, room)),
                !.raised = @ \/ (b.notify /\ ks # << >> /\ room > 0)]

(* A line takes no more than MaxLine.                                      *)
Insert(b, ks) ==
  LET room == MaxLine - Len(b.line)
  IN  [b EXCEPT !.line = @ \o Take(ks, room), !.cut = @ \cup ToSet(Rest(ks, room))]

Submit(b, k) == Deliver([b EXCEPT !.line = << >>], Append(b.line, k))

(* processKeystroke() *)
Process(b, k) ==
  CASE b.raw             -> Deliver(b, <<k>>)
    [] ~b.raw /\ k.enter -> Submit(b, k)
    [] OTHER             -> Insert(b, <<k>>)

(* A key of the keyboard, which raises its own interrupt, reaches the      *)
(* terminal behind the text typed before it.                               *)
TypeKeystroke(b, k) ==
  [(IF b.ahead # << >> THEN [b EXCEPT !.ahead = Append(@, k)] ELSE Process(b, k))
     EXCEPT !.raised = TRUE]

Type(b, ks) ==
  [b EXCEPT !.ahead = @ \o ks, !.raised = @ \/ (b.notify /\ b.ahead \o ks # << >>)]

FinishClose(b) ==
  LET flushed == IF b.line = << >> THEN b ELSE Deliver([b EXCEPT !.line = << >>], b.line)
  IN  [flushed EXCEPT !.closed = TRUE, !.closing = FALSE, !.raised = TRUE]

CloseInput(b) == IF b.ahead # << >> THEN [b EXCEPT !.closing = TRUE] ELSE FinishClose(b)

(* Keystrokes typed ahead are processed until the ring holds something.    *)
Enters(ks) == {i \in 1 .. Len(ks) : ks[i].enter}
FirstEnter(ks) == CHOOSE i \in Enters(ks) : \A j \in Enters(ks) : i <= j

Consumed(b) ==
  LET a == b.ahead
  IN  CASE b.raw -> Deliver([b EXCEPT !.ahead = Tail(a)], <<Head(a)>>)
        [] ~b.raw /\ Enters(a) = {} -> Insert([b EXCEPT !.ahead = << >>], a)
        [] OTHER -> LET n == FirstEnter(a)
                    IN  Submit(Insert([b EXCEPT !.ahead = Rest(a, n)], SubSeq(a, 1, n - 1)), a[n])

Refill(b) ==
  LET c == IF b.ahead = << >> \/ b.ring # << >> THEN b ELSE Consumed(b)
  IN  IF c.ahead = << >> /\ c.closing THEN FinishClose(c) ELSE c

InputRoom(b) ==
  LET used == Len(b.ring) + Len(b.line) + Len(b.ahead)
  IN  IF used < Capacity THEN Capacity - used ELSE 0

(* TerminalDevice::reset(), with the line it throws away.                  *)
ResetTerminal(b) ==
  [b EXCEPT !.raw = FALSE, !.notify = FALSE, !.line = << >>, !.cut = @ \cup ToSet(b.line)]

-----------------------------------------------------------------------------
(* The machine: one operation a cycle, a device on a timer, and HALT.      *)

NewBox(p, t) ==
  [program |-> p, period |-> t, op |-> 1, on |-> TRUE, again |-> FALSE, cycle |-> 0, due |-> t,
   halted |-> FALSE, raised |-> FALSE, saw |-> << >>,
   ring |-> << >>, line |-> << >>, ahead |-> << >>, closing |-> FALSE, closed |-> FALSE,
   raw |-> FALSE, notify |-> FALSE, dropped |-> {}, cut |-> {}, left |-> {}]

(* What a read gave and when: a keystroke, nothing, or the end of input.   *)
Saw(b, id) == Append(b.saw, [cycle |-> b.cycle, id |-> id])
Nothing == 0
EndOfInput == -1

ReadInput(b) ==
  LET c == Refill(b)
  IN  IF c.ring # << >> THEN [c EXCEPT !.ring = Tail(@), !.saw = Saw(c, Head(c.ring).id)]
      ELSE [c EXCEPT !.saw = Saw(c, IF c.closed THEN EndOfInput ELSE Nothing)]

Operate(b, op) ==
  CASE op = "work" -> b
    [] op = "read" -> ReadInput(b)
    [] op = "halt" -> IF b.raised THEN [b EXCEPT !.raised = FALSE] ELSE [b EXCEPT !.halted = TRUE]
    [] op = "raw" -> [b EXCEPT !.raw = TRUE, !.notify = TRUE, !.left = @ \cup ToSet(b.line)]
    [] op = "cooked" -> [b EXCEPT !.raw = FALSE, !.notify = TRUE]
    [] op = "restart" -> [b EXCEPT !.on = FALSE, !.again = TRUE]

Execute(b) ==
  IF b.op > Len(b.program) THEN [b EXCEPT !.on = FALSE]
  ELSE [Operate(b, b.program[b.op]) EXCEPT !.op = b.op + 1, !.cycle = b.cycle + 1]

(* The timer's event runs and raises its request.                          *)
Service(b) == [b EXCEPT !.raised = TRUE, !.due = @ + b.period]

(* step(): a halted machine goes to its next event, or waits for the host. *)
Step(b) ==
  LET c == IF b.period > 0 /\ b.cycle >= b.due THEN Service(b) ELSE b
  IN  CASE ~c.halted -> Execute(c)
        [] c.halted /\ c.raised -> Execute([c EXCEPT !.halted = FALSE, !.raised = FALSE])
        [] OTHER -> IF c.period = 0 THEN c ELSE Service([c EXCEPT !.cycle = c.due])

Restart(b) ==
  [ResetTerminal(b) EXCEPT !.on = TRUE, !.again = FALSE, !.cycle = 0, !.due = b.period,
                           !.halted = FALSE, !.raised = FALSE]

-----------------------------------------------------------------------------
Nobody == Plain("none", 0)

Init ==
  /\ \E s \in Setups : box = NewBox(s.program, s.period) /\ scripted = s.keys
  /\ original = box
  /\ queue = << >> /\ inhand = Nobody /\ log = << >> /\ next = 1
  /\ replaying = FALSE /\ pc = "top" /\ end = 0 /\ posted = 0
  /\ hostClosed = FALSE

Fresh == {[id |-> posted + 1, enter |-> e] : e \in BOOLEAN}

(* Mutant: text joins what waits at the front.                             *)
JoinedMutant(e) ==
  IF e.kind = "typed" /\ queue # << >>
  THEN [queue EXCEPT ![1].data = @ \o e.data]
  ELSE Append(queue, e)

(* Text joins the text that waits at the back.                             *)
Joined(e) ==
  IF e.kind = "typed" /\ queue # << >> /\ queue[Len(queue)].kind = "typed"
  THEN [queue EXCEPT ![Len(queue)].data = @ \o e.data]
  ELSE Append(queue, e)

(* The host may post until it closes the input; a replay ignores it.       *)
Post(e) ==
  /\ ~replaying /\ ~hostClosed /\ pc # "ended"
  /\ queue' = Joined(e)
  /\ UNCHANGED <<box, inhand, scripted, log, next, replaying, pc, end, original>>

HostTypes ==
  /\ posted < MaxPosts /\ posted' = posted + 1
  /\ \E k \in Fresh : Post(Typed(<<k>>))
  /\ UNCHANGED hostClosed

HostPresses ==
  /\ posted < MaxPosts /\ posted' = posted + 1
  /\ \E k \in Fresh : Post(Key(k))
  /\ UNCHANGED hostClosed

HostCloses ==
  /\ hostClosed' = TRUE
  /\ Post(Plain("close", 0))
  /\ UNCHANGED posted

(* The head of the loop: a machine that powered off starts again, or the   *)
(* run is over.                                                            *)
RunEnds ==
  /\ pc = "top" /\ ~box.on /\ ~box.again
  /\ pc' = "ended"
  /\ UNCHANGED <<box, queue, inhand, scripted, log, next, replaying, end, posted, hostClosed, original>>

Restarted ==
  IF replaying
  THEN /\ next' = IF next <= Len(log) /\ log[next].kind = "reset" THEN next + 1 ELSE next
       /\ UNCHANGED log
  ELSE log' = Append(log, Plain("reset", 0)) /\ UNCHANGED next

MachineRestarts ==
  /\ pc = "top" /\ ~box.on /\ box.again
  /\ box' = Restart(box)
  /\ Restarted
  /\ UNCHANGED <<pc, queue, inhand, scripted, replaying, end, posted, hostClosed, original>>

(* The window was closed: quit() and the loop is left.                     *)
HostQuits ==
  /\ pc = "top" /\ box.on /\ ~replaying
  /\ log' = Append(log, Plain("quit", box.cycle))
  /\ pc' = "ended"
  /\ UNCHANGED <<box, queue, inhand, scripted, next, replaying, end, posted, hostClosed, original>>

HostStays ==
  /\ pc = "top" /\ box.on
  /\ pc' = IF replaying THEN "replay" ELSE "script"
  /\ UNCHANGED <<box, queue, inhand, scripted, log, next, replaying, end, posted, hostClosed, original>>

-----------------------------------------------------------------------------
(* inject().                                                               *)

Apply(b, e) ==
  CASE e.kind = "typed" -> Type(b, e.data)
    [] e.kind = "key"   -> TypeKeystroke(b, e.data[1])
    [] e.kind = "close" -> CloseInput(b)
    [] OTHER            -> b

Stamped(e) == [e EXCEPT !.at = box.cycle]

ScriptDue ==
  /\ pc = "script" /\ scripted # << >> /\ Head(scripted).at <= box.cycle
  /\ box' = Apply(box, Head(scripted))
  /\ log' = Append(log, Stamped(Head(scripted)))
  /\ scripted' = Tail(scripted)
  /\ UNCHANGED <<queue, inhand, next, replaying, pc, end, posted, hostClosed, original>>

ScriptDone ==
  /\ pc = "script" /\ (scripted # << >> => Head(scripted).at > box.cycle)
  /\ pc' = "queue"
  /\ UNCHANGED <<box, queue, inhand, scripted, log, next, replaying, end, posted, hostClosed, original>>

(* Mutant: text that does not fit whole waits.                             *)
FittingMutant(e) == IF Len(e.data) <= InputRoom(box) THEN Len(e.data) ELSE 0

Fitting(e) == Shorter(InputRoom(box), Len(e.data))

(* The lock is held: the event at the front, or as much of its text as     *)
(* fits, is taken, and the rest put back at the front.                     *)
TakeFront ==
  /\ pc = "queue" /\ queue # << >>
  /\ LET e == Head(queue)
     IN  IF e.kind # "typed" THEN inhand' = e /\ queue' = Tail(queue)
         ELSE /\ Fitting(e) > 0
              /\ inhand' = Typed(Take(e.data, Fitting(e)))
              /\ queue' = IF Len(e.data) > Fitting(e)
                          THEN <<Typed(Rest(e.data, Fitting(e)))>> \o Tail(queue)
                          ELSE Tail(queue)
  /\ pc' = "apply"
  /\ UNCHANGED <<box, scripted, log, next, replaying, end, posted, hostClosed, original>>

InjectEnds ==
  /\ pc = "queue"
  /\ queue # << >> => Head(queue).kind = "typed" /\ Fitting(Head(queue)) = 0
  /\ pc' = "pace"
  /\ UNCHANGED <<box, queue, inhand, scripted, log, next, replaying, end, posted, hostClosed, original>>

(* The lock is free: the event goes in and is recorded; then, with the     *)
(* lock back, text at the front that finds no room waits.                  *)
(* Mutant: it is recorded without its cycle.                               *)
ApplyInHandMutant ==
  /\ pc = "apply"
  /\ box' = Apply(box, inhand)
  /\ log' = Append(log, inhand)
  /\ inhand' = Nobody
  /\ pc' = IF inhand.kind = "typed" /\ queue # << >> /\ Head(queue).kind = "typed" /\ InputRoom(box') = 0
           THEN "pace" ELSE "queue"
  /\ UNCHANGED <<queue, scripted, next, replaying, end, posted, hostClosed, original>>

ApplyInHand ==
  /\ pc = "apply"
  /\ box' = Apply(box, inhand)
  /\ log' = Append(log, Stamped(inhand))
  /\ inhand' = Nobody
  /\ pc' = IF inhand.kind = "typed" /\ queue # << >> /\ Head(queue).kind = "typed" /\ InputRoom(box') = 0
           THEN "pace" ELSE "queue"
  /\ UNCHANGED <<queue, scripted, next, replaying, end, posted, hostClosed, original>>

(* The same of a replay: everything up to this cycle, and not past a       *)
(* restart the machine has not made.                                       *)
ReplayDue == next <= Len(log) /\ log[next].kind # "reset" /\ log[next].at <= box.cycle

ReplayOne ==
  /\ pc = "replay" /\ ReplayDue
  /\ IF log[next].kind = "quit" THEN pc' = "ended" /\ UNCHANGED <<box, next>>
     ELSE /\ box' = Apply(box, log[next])
          /\ next' = next + 1
          /\ UNCHANGED pc
  /\ UNCHANGED <<queue, inhand, scripted, log, replaying, end, posted, hostClosed, original>>

ReplayDone ==
  /\ pc = "replay" /\ ~ReplayDue
  /\ pc' = "pace"
  /\ UNCHANGED <<box, queue, inhand, scripted, log, next, replaying, end, posted, hostClosed, original>>

-----------------------------------------------------------------------------
(* Ahead of the host: look again without a slice.                          *)
PaceWaits ==
  /\ pc = "pace"
  /\ pc' = "top"
  /\ UNCHANGED <<box, queue, inhand, scripted, log, next, replaying, end, posted, hostClosed, original>>

SliceStarts ==
  /\ pc = "pace"
  /\ end' = box.cycle + SliceCycles
  /\ pc' = "slice"
  /\ UNCHANGED <<box, queue, inhand, scripted, log, next, replaying, posted, hostClosed, original>>

SliceOver(b) == ~b.on \/ b.cycle >= end \/ b.halted

MachineSteps ==
  /\ pc = "slice"
  /\ box' = Step(box)
  /\ IF SliceOver(box') THEN pc' = "top" /\ end' = 0 ELSE UNCHANGED <<pc, end>>
  /\ UNCHANGED <<queue, inhand, scripted, log, next, replaying, posted, hostClosed, original>>

(* The recorded run is over; the same program is run on its recording.     *)
StartReplay ==
  /\ pc = "ended" /\ ~replaying
  /\ replaying' = TRUE
  /\ original' = box
  /\ box' = NewBox(box.program, box.period)
  /\ next' = 1 /\ pc' = "top" /\ end' = 0
  /\ queue' = << >> /\ scripted' = << >>
  /\ posted' = 0 /\ hostClosed' = FALSE
  /\ UNCHANGED <<inhand, log>>

Inject ==
  ScriptDue \/ ScriptDone \/ TakeFront \/ InjectEnds \/ ApplyInHand \/ ReplayOne \/ ReplayDone

Runner ==
  \/ RunEnds \/ MachineRestarts \/ HostStays
  \/ Inject
  \/ PaceWaits \/ SliceStarts \/ MachineSteps

Host == HostTypes \/ HostPresses \/ HostCloses \/ HostQuits

Next == Runner \/ Host \/ StartReplay

Spec == Init /\ [][Next]_vars

(* The runner's thread goes on; nothing is asked of the host.              *)
FairSpec == Spec /\ WF_vars(Runner)

-----------------------------------------------------------------------------
Event ==
  [kind : {"typed", "key", "close", "reset", "quit", "none"}, data : Seq(Keystroke), at : Nat]

InputTypeOK ==
  /\ queue \in Seq(Event) /\ inhand \in Event /\ log \in Seq(Event)
  /\ scripted \in Seq(Event)
  /\ box.ring \in Seq(Keystroke) /\ box.line \in Seq(Keystroke) /\ box.ahead \in Seq(Keystroke)
  /\ Len(box.ring) <= Capacity /\ Len(box.line) <= MaxLine
  /\ next \in 1 .. Len(log) + 1
  /\ posted \in 0 .. MaxPosts
  /\ pc \in {"top", "script", "queue", "apply", "replay", "pace", "slice", "ended"}

(* The keystrokes of the host, from those the program has read to those    *)
(* that still wait.  Those of a script have ids above MaxPosts.            *)
Way == <<box.saw, box.ring, box.line, box.ahead, inhand.data>> \o [j \in 1 .. Len(queue) |-> queue[j].data]
HostIds(ks) == {ks[i].id : i \in DOMAIN ks} \cap OfHost

IdsOf(ks) == {k.id : k \in ks}
Lost == IdsOf(box.dropped \cup box.cut)
LeftBehind == IdsOf(box.left)
InOrder(x, y) == {x, y} \subseteq OfHost => x < y \/ (x # y /\ {x, y} \cap LeftBehind # {})

(* What the host types and presses reaches the program in the order it was *)
(* posted, however the text was cut and whatever was posted meanwhile, and *)
(* each keystroke once, or not at all only because the ring or the line    *)
(* was full or a restart threw its line away.  A line left unfinished when *)
(* the program turns to raw keys has lost its place among them.            *)
TypedInOrder ==
  ~replaying =>
    /\ \A s, t \in DOMAIN Way : \A i \in DOMAIN Way[s], j \in DOMAIN Way[t] :
         s < t \/ (s = t /\ i < j) => InOrder(Way[s][i].id, Way[t][j].id)
    /\ UNION {HostIds(Way[s]) : s \in DOMAIN Way} = 1 .. posted \ Lost

(* The program is told that the input ended only once it has everything    *)
(* that was posted before the end; a script's own end does not wait for    *)
(* what the host posted.                                                   *)
ScriptKeepsOpen == \A s \in Setups : \A i \in DOMAIN s.keys : s.keys[i].kind = "key"
EndIsTold == \E i \in DOMAIN box.saw : box.saw[i].id = EndOfInput
EndComesLast ==
  ScriptKeepsOpen /\ ~replaying /\ EndIsTold => \A s \in DOMAIN Way \ {1} : HostIds(Way[s]) = {}

(* Nothing of the host's input is lost, reordered or doubled on its way     *)
(* through the queue, the ring and the line, and its end comes last.        *)
InputIsKept == InputTypeOK /\ TypedInOrder /\ EndComesLast

(* A replay gives the program what the recorded run gave it, at the same   *)
(* cycles, and ends with the same machine and the same terminal.           *)
ReplayIsTheRun ==
  replaying =>
    /\ IsPrefix(box.saw, original.saw)
    /\ pc = "ended" => box = original

(* What the host posts goes in sooner or later, unless the program leaves  *)
(* the terminal no room for it.                                            *)
InputGoesIn == queue # << >> ~> (queue = << >> \/ InputRoom(box) = 0 \/ pc = "ended")

=============================================================================
