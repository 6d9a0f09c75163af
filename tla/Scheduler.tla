------------------------------ MODULE Scheduler ------------------------------
(***************************************************************************)
(* The machine's event scheduler (libs/vm, Scheduler): a small table of    *)
(* events, one per device and tag, and beside it the earliest cycle in it, *)
(* the one number the CPU loop looks at.  A removed event's place is taken *)
(* by the last, so the order of the table is part of its state: it breaks  *)
(* ties.                                                                   *)
(***************************************************************************)
EXTENDS Naturals, Sequences

CONSTANTS
  Devices,    \* what may schedule
  Tags,       \* the events a device has
  MaxEvents,  \* MaxEvents: the places in the table
  Never       \* NoScheduledEvent: later than every cycle

ASSUME TableAssumption == MaxEvents \in Nat \ {0} /\ Never \in Nat \ {0}

Event == [device : Devices, tag : Tags, cycle : 0 .. Never - 1]
Table == [events : Seq(Event), next : 0 .. Never]

EmptyTable == [events |-> <<>>, next |-> Never]

(* The earliest cycle of the events, as recomputeNext() finds it.          *)
RecomputeNext(es) ==
  LET cycles == {es[i].cycle : i \in DOMAIN es} \cup {Never}
  IN  CHOOSE c \in cycles : \A d \in cycles : c <= d

Recomputed(es) == [events |-> es, next |-> RecomputeNext(es)]

Places(t, d, g) == {i \in DOMAIN t.events : t.events[i].device = d /\ t.events[i].tag = g}

CycleOf(t, d, g) ==
  IF Places(t, d, g) = {} THEN Never ELSE t.events[CHOOSE i \in Places(t, d, g) : TRUE].cycle

(* schedule(): the device's event with that tag is moved if it has one.  A *)
(* full table drops a new event.                                           *)
Schedule(t, d, c, g) ==
  IF Places(t, d, g) # {}
  THEN Recomputed([i \in DOMAIN t.events |->
         IF i \in Places(t, d, g) THEN [t.events[i] EXCEPT !.cycle = c] ELSE t.events[i]])
  ELSE IF Len(t.events) = MaxEvents THEN t
  ELSE [events |-> Append(t.events, [device |-> d, tag |-> g, cycle |-> c]),
        next |-> IF c < t.next THEN c ELSE t.next]

(* The last event takes the place of the one removed.                      *)
SwapRemove(es, i) ==
  [j \in 1 .. Len(es) - 1 |-> IF j = i THEN es[Len(es)] ELSE es[j]]

Cancel(t, d, g) ==
  IF Places(t, d, g) = {} THEN t
  ELSE Recomputed(SwapRemove(t.events, CHOOSE i \in Places(t, d, g) : TRUE))

(* A round of cancelAll()'s loop: the place it has just filled is looked   *)
(* at again, so that each round is over with one event.                    *)
SweepRound(s, d) ==
  IF s.events[s.place].device = d
  THEN [events |-> SwapRemove(s.events, s.place), place |-> s.place]
  ELSE [events |-> s.events, place |-> s.place + 1]

Sweep(es, d) ==
  LET after[n \in 0 .. Len(es)] ==
        IF n = 0 THEN [events |-> es, place |-> 1] ELSE SweepRound(after[n - 1], d)
  IN  after

CancelAll(t, d) == Recomputed(Sweep(t.events, d)[Len(t.events)].events)

(* The event service() calls next: the earliest, and of two on the same    *)
(* cycle the one the table holds first.                                    *)
Earliest(t) ==
  CHOOSE i \in DOMAIN t.events : \A j \in DOMAIN t.events :
    \/ t.events[i].cycle < t.events[j].cycle
    \/ t.events[i].cycle = t.events[j].cycle /\ i <= j

WithoutEarliest(t) == Recomputed(SwapRemove(t.events, Earliest(t)))

(* The number the CPU loop looks at is the earliest cycle in the table,    *)
(* and a device has at most one event per tag (schedule(), cancel()).      *)
Consistent(t) ==
  /\ t.next = RecomputeNext(t.events)
  /\ \A i, j \in DOMAIN t.events :
       (t.events[i].device = t.events[j].device /\ t.events[i].tag = t.events[j].tag) => i = j
=============================================================================
