------------------------------- MODULE WakeUp -------------------------------
(***************************************************************************)
(* What InterruptController promises a halted machine, without saying how: *)
(* an event count.  The machine looks at how many requests have been       *)
(* raised and may then wait.  A wait ends because something was raised     *)
(* since that look, because it was poked, or because its deadline passed,  *)
(* and a wait that was raised or poked ends whether or not the deadline    *)
(* ever comes.                                                             *)
(***************************************************************************)
EXTENDS Naturals

VARIABLES
  raises,   \* requests raised so far
  pokes,    \* pokes so far
  seen,     \* raises, as the machine last looked
  waiting,  \* the machine is in waitForRaise
  base,     \* pokes when the wait began
  expired   \* the deadline of this wait has passed

wakeVars == <<raises, pokes, seen, waiting, base, expired>>

Init ==
  /\ raises = 0 /\ pokes = 0 /\ seen = 0 /\ base = 0
  /\ waiting = FALSE /\ expired = FALSE

Raise ==
  /\ raises' = raises + 1
  /\ UNCHANGED <<pokes, seen, waiting, base, expired>>

Poke ==
  /\ pokes' = pokes + 1
  /\ UNCHANGED <<raises, seen, waiting, base, expired>>

Look ==
  /\ ~waiting
  /\ seen' = raises
  /\ UNCHANGED <<raises, pokes, waiting, base, expired>>

BeginWait ==
  /\ ~waiting
  /\ waiting' = TRUE /\ base' = pokes /\ expired' \in BOOLEAN
  /\ UNCHANGED <<raises, pokes, seen>>

Expire ==
  /\ waiting
  /\ expired' = TRUE
  /\ UNCHANGED <<raises, pokes, seen, waiting, base>>

Called == raises # seen \/ pokes # base

EndWait ==
  /\ waiting
  /\ Called \/ expired
  /\ waiting' = FALSE /\ expired' = FALSE
  /\ UNCHANGED <<raises, pokes, seen, base>>

Next == Raise \/ Poke \/ Look \/ BeginWait \/ Expire \/ EndWait

Safety == Init /\ [][Next]_wakeVars

Spec ==
  /\ Safety
  /\ WF_wakeVars(EndWait /\ Called)
=============================================================================
