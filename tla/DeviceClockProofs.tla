-------------------------- MODULE DeviceClockProofs --------------------------
(***************************************************************************)
(* The scheduler's table and the devices that keep time tell the same      *)
(* story, and countdowns and alarms go off exactly when they are due: for  *)
(* any clocks, widths, costs and lengths of transfers.                     *)
(***************************************************************************)
EXTENDS DeviceClock, FiniteSetTheorems, WellFoundedInduction, TLAPS

-----------------------------------------------------------------------------
(* The table.                                                              *)

(* A set of numbers that is not empty has a least one.                     *)
LEMMA Least ==
    ASSUME NEW S \in SUBSET Nat, S # {}
    PROVE  \E n \in S : \A m \in S : n <= m
<1> DEFINE R == StrictSubsetOrdering(Nat)
           F == FiniteSubsetsOf(Nat)
           I == {1 .. n : n \in S}
<1>1. IsWellFoundedOn(R, F)
    BY FS_StrictSubsetOrderingWellFounded
<1>2. I \subseteq F /\ I # {}
    <2>1. \A n \in Nat : 1 .. n \in FiniteSubsetsOf(Nat)
        BY FS_Interval DEF FiniteSubsetsOf
    <2> QED
        BY <2>1
<1>3. \E x \in I : \A y \in I : <<y, x>> \notin R
    <2> HIDE DEF R, F, I
    <2> QED
        BY <1>1, <1>2, WFMin
<1>4. PICK n \in S : \A m \in S : <<1 .. m, 1 .. n>> \notin R
    BY <1>3
<1>5. ASSUME NEW m \in S, m < n PROVE FALSE
    <2>1. n \in 1 .. n /\ n \notin 1 .. m
        BY <1>5
    <2>2. 1 .. m \subseteq 1 .. n /\ 1 .. m # 1 .. n /\ 1 .. m \subseteq Nat /\ 1 .. n \subseteq Nat
        BY <1>5, <2>1
    <2>3. <<1 .. m, 1 .. n>> \in R
        BY <2>2, Zenon DEF StrictSubsetOrdering
    <2> QED
        BY <1>4, <2>3
<1> QED
    BY <1>4, <1>5

(* The events of a table, their order apart.                               *)
EventsIn(es) == {es[i] : i \in DOMAIN es}
SameKey(a, b) == a.device = b.device /\ a.tag = b.tag
OneEach(es) == \A i, j \in DOMAIN es : SameKey(es[i], es[j]) => i = j
Good(t) == t \in Table /\ Consistent(t)

(* The cached cycle is the least, or none.                                 *)
LEMMA NextIsLeast ==
    ASSUME NEW es \in Seq(Event)
    PROVE  /\ RecomputeNext(es) \in 0 .. Never
           /\ \A e \in EventsIn(es) : RecomputeNext(es) <= e.cycle
           /\ RecomputeNext(es) = Never \/ \E e \in EventsIn(es) : RecomputeNext(es) = e.cycle
<1> DEFINE cycles == {es[i].cycle : i \in DOMAIN es} \cup {Never}
<1>1. cycles \in SUBSET (0 .. Never) /\ Never \in cycles
    <2>1. \A i \in DOMAIN es : es[i].cycle \in 0 .. Never - 1
        <3>1. \A i \in DOMAIN es : es[i] \in Event
            OBVIOUS
        <3> QED
            BY <3>1 DEF Event
    <2> QED
        BY <2>1, TableAssumption
<1>2. \E c \in cycles : \A d \in cycles : c <= d
    <2> HIDE DEF cycles
    <2> QED
        BY <1>1, Least, TableAssumption
<1>3. RecomputeNext(es) \in cycles /\ \A d \in cycles : RecomputeNext(es) <= d
    BY <1>2 DEF RecomputeNext
<1> QED
    BY <1>1, <1>3 DEF EventsIn

(* What Recomputed() makes of events one of each is a good table.          *)
LEMMA RecomputedIsGood ==
    ASSUME NEW es \in Seq(Event), OneEach(es)
    PROVE  Good(Recomputed(es)) /\ Recomputed(es).events = es
BY NextIsLeast DEF Good, Table, Consistent, Recomputed, OneEach, SameKey

(* A good table, one of each key, with the least cycle beside it.          *)
LEMMA GoodTable ==
    ASSUME NEW t, Good(t)
    PROVE  /\ t \in Table /\ t.events \in Seq(Event) /\ OneEach(t.events)
           /\ EventsIn(t.events) \subseteq Event
           /\ \A e \in EventsIn(t.events) : t.next <= e.cycle
           /\ t.next \in 0 .. Never
           /\ t.next < Never => \E e \in EventsIn(t.events) : t.next = e.cycle
<1>1. t \in Table /\ t.events \in Seq(Event) /\ t.next = RecomputeNext(t.events) /\ OneEach(t.events)
    BY DEF Good, Table, Consistent, OneEach, SameKey
<1> QED
    BY <1>1, NextIsLeast, TableAssumption DEF EventsIn

(* Two events of a good table with one key are one.                        *)
LEMMA OneOfAKey ==
    ASSUME NEW es \in Seq(Event), OneEach(es), NEW a \in EventsIn(es), NEW b \in EventsIn(es), SameKey(a, b)
    PROVE  a = b
BY DEF EventsIn, OneEach

(* Removing an event leaves the others.                                    *)
LEMMA SwapRemoveFacts ==
    ASSUME NEW es \in Seq(Event), OneEach(es), NEW i \in DOMAIN es
    PROVE  /\ SwapRemove(es, i) \in Seq(Event) /\ OneEach(SwapRemove(es, i))
           /\ Len(SwapRemove(es, i)) = Len(es) - 1
           /\ EventsIn(SwapRemove(es, i)) = EventsIn(es) \ {es[i]}
<1> DEFINE new == SwapRemove(es, i)
           n == Len(es)
<1>1. n \in Nat \ {0} /\ i \in 1 .. n /\ DOMAIN es = 1 .. n /\ n \in DOMAIN es
    OBVIOUS
<1>2. /\ new = [j \in 1 .. n - 1 |-> IF j = i THEN es[n] ELSE es[j]]
      /\ \A j \in 1 .. n : es[j] \in Event
    BY DEF SwapRemove
<1>3. new \in Seq(Event) /\ Len(new) = n - 1 /\ DOMAIN new = 1 .. n - 1
    BY <1>1, <1>2
<1>4. \A j \in 1 .. n - 1 : new[j] = IF j = i THEN es[n] ELSE es[j]
    BY <1>2
<1>5. OneEach(new)
    BY <1>1, <1>3, <1>4 DEF OneEach
<1>6. EventsIn(new) \subseteq EventsIn(es) \ {es[i]}
    <2>1. ASSUME NEW j \in 1 .. n - 1 PROVE \E k \in 1 .. n : k # i /\ new[j] = es[k]
        BY <1>1, <1>4
    <2>2. \A k \in 1 .. n : k # i => es[k] # es[i]
        BY <1>1 DEF OneEach, SameKey
    <2> QED
        BY <1>1, <1>3, <2>1, <2>2 DEF EventsIn
<1>7. EventsIn(es) \ {es[i]} \subseteq EventsIn(new)
    <2>1. ASSUME NEW k \in 1 .. n, k # i PROVE \E j \in 1 .. n - 1 : new[j] = es[k]
        <3>1. CASE k = n
            BY <1>1, <1>4, <2>1, <3>1
        <3>2. CASE k # n
            <4>1. k \in 1 .. n - 1
                <5> HIDE DEF n, new
                <5> QED
                    BY <1>1, <3>2
            <4>2. new[k] = es[k]
                BY <1>4, <2>1, <4>1
            <4> QED
                BY <4>1, <4>2
        <3> QED
            BY <3>1, <3>2
    <2> QED
        BY <1>1, <1>3, <2>1 DEF EventsIn
<1> QED
    BY <1>3, <1>5, <1>6, <1>7

(* The place an event has in a good table.                                 *)
LEMMA PlacesFacts ==
    ASSUME NEW t, Good(t), NEW d \in Devices, NEW g \in Tags
    PROVE  /\ Places(t, d, g) \subseteq DOMAIN t.events
           /\ \A i \in DOMAIN t.events :
                i \in Places(t, d, g) <=> t.events[i].device = d /\ t.events[i].tag = g
           /\ \A i, j \in Places(t, d, g) : i = j
           /\ Places(t, d, g) = {} <=> ~\E e \in EventsIn(t.events) : e.device = d /\ e.tag = g
BY GoodTable DEF Places, OneEach, SameKey, EventsIn

(* schedule() moves the device's event, or adds one, if there is room.     *)
LEMMA ScheduleFacts ==
    ASSUME NEW t, Good(t), NEW d \in Devices, NEW g \in Tags, NEW c \in 0 .. Never - 1,
           Len(t.events) < MaxEvents \/ Places(t, d, g) # {}
    PROVE  /\ Good(Schedule(t, d, c, g))
           /\ EventsIn(Schedule(t, d, c, g).events) =
                {e \in EventsIn(t.events) : e.device # d \/ e.tag # g}
                  \cup {[device |-> d, tag |-> g, cycle |-> c]}
<1> DEFINE es == t.events
           new == [device |-> d, tag |-> g, cycle |-> c]
<1>1. es \in Seq(Event) /\ OneEach(es) /\ new \in Event
    BY GoodTable DEF Event
<1>2. CASE Places(t, d, g) # {}
    <2> DEFINE moved == [i \in DOMAIN es |-> IF i \in Places(t, d, g) THEN [es[i] EXCEPT !.cycle = c] ELSE es[i]]
    <2>1. PICK p \in DOMAIN es : /\ es[p].device = d /\ es[p].tag = g
                                 /\ \A i \in DOMAIN es : i \in Places(t, d, g) <=> i = p
        BY <1>2, PlacesFacts
    <2>2. [es[p] EXCEPT !.cycle = c] = new
        <3>1. es[p] \in Event
            BY <1>1, <2>1
        <3> QED
            BY <2>1, <3>1 DEF Event
    <2>3. /\ DOMAIN moved = DOMAIN es
          /\ \A i \in DOMAIN es : moved[i] = IF i = p THEN new ELSE es[i]
        BY <2>1, <2>2
    <2>4. moved \in Seq(Event)
        <3>1. DOMAIN es = 1 .. Len(es) /\ Len(es) \in Nat /\ \A i \in 1 .. Len(es) : es[i] \in Event
            BY <1>1
        <3>2. \A i \in 1 .. Len(es) : moved[i] \in Event
            BY <1>1, <2>3, <3>1
        <3>3. moved \in [1 .. Len(es) -> Event]
            BY <3>1, <3>2
        <3> QED
            BY <3>1, <3>3
    <2> HIDE DEF moved
    <2>5. OneEach(moved)
        BY <1>1, <2>1, <2>3 DEF OneEach, SameKey
    <2>6. EventsIn(moved) = {e \in EventsIn(es) : e.device # d \/ e.tag # g} \cup {new}
        <3>1. \A i \in DOMAIN es : i # p => es[i].device # d \/ es[i].tag # g
            BY <1>1, <2>1 DEF OneEach, SameKey
        <3> QED
            BY <2>1, <2>3, <3>1 DEF EventsIn
    <2>7. Schedule(t, d, c, g) = Recomputed(moved)
        BY <1>2 DEF Schedule, moved
    <2> QED
        BY <2>4, <2>5, <2>6, <2>7, RecomputedIsGood
<1>3. CASE Places(t, d, g) = {}
    <2> DEFINE more == Append(es, new)
    <2>1. Schedule(t, d, c, g) = [events |-> more, next |-> IF c < t.next THEN c ELSE t.next]
        <3>1. Len(es) < MaxEvents
            BY <1>3
        <3>2. Len(es) # MaxEvents
            BY <3>1, <1>1, TableAssumption
        <3> QED
            BY <1>3, <3>2 DEF Schedule
    <2>2. /\ more \in Seq(Event) /\ DOMAIN more = 1 .. Len(es) + 1
          /\ \A i \in 1 .. Len(es) : more[i] = es[i]
          /\ more[Len(es) + 1] = new
        BY <1>1
    <2>3. \A i \in 1 .. Len(es) : ~SameKey(es[i], new)
        BY <1>1, <1>3, PlacesFacts DEF SameKey
    <2> HIDE DEF more
    <2>4. OneEach(more)
        <3> HIDE DEF new, es
        <3>1. \A i \in 1 .. Len(es) : ~SameKey(more[i], new) /\ ~SameKey(new, more[i])
            BY <2>2, <2>3 DEF SameKey
        <3>2. SUFFICES ASSUME NEW i \in 1 .. Len(es) + 1, NEW j \in 1 .. Len(es) + 1, SameKey(more[i], more[j])
                       PROVE  i = j
            BY <2>2 DEF OneEach
        <3>3. Len(es) \in Nat /\ DOMAIN es = 1 .. Len(es)
            BY <1>1
        <3>4. CASE i = Len(es) + 1 \/ j = Len(es) + 1
            BY <2>2, <3>1, <3>2, <3>3, <3>4
        <3>5. CASE i \in 1 .. Len(es) /\ j \in 1 .. Len(es)
            BY <1>1, <2>2, <3>2, <3>3, <3>5 DEF OneEach
        <3> QED
            BY <3>3, <3>4, <3>5
    <2>5. EventsIn(more) = EventsIn(es) \cup {new}
        <3>1. DOMAIN es = 1 .. Len(es) /\ Len(es) \in Nat
            BY <1>1
        <3> HIDE DEF new, es
        <3> QED
            BY <2>2, <3>1 DEF EventsIn
    <2>6. EventsIn(es) = {e \in EventsIn(es) : e.device # d \/ e.tag # g}
        BY <1>3, PlacesFacts
    <2>7. (IF c < t.next THEN c ELSE t.next) = RecomputeNext(more)
        <3> DEFINE least == IF c < t.next THEN c ELSE t.next
        <3>1. /\ t.next \in 0 .. Never /\ \A e \in EventsIn(es) : t.next <= e.cycle
              /\ t.next < Never => \E e \in EventsIn(es) : t.next = e.cycle
              /\ EventsIn(es) \subseteq Event
            BY GoodTable
        <3>2. /\ RecomputeNext(more) \in 0 .. Never
              /\ \A e \in EventsIn(es) \cup {new} : RecomputeNext(more) <= e.cycle
              /\ RecomputeNext(more) = Never \/ \E e \in EventsIn(es) \cup {new} : RecomputeNext(more) = e.cycle
            BY <2>2, <2>5, NextIsLeast
        <3>3. least \in 0 .. Never - 1 /\ \A e \in EventsIn(es) \cup {new} : least <= e.cycle
            BY <1>1, <3>1, TableAssumption DEF Event
        <3>4. \E e \in EventsIn(es) \cup {new} : least = e.cycle
            <4>1. CASE c < t.next
                <5>1. new.cycle = c /\ least = c
                    BY <4>1
                <5> HIDE DEF new, least
                <5> QED
                    BY <5>1
            <4>2. CASE ~(c < t.next)
                BY <3>1, <4>2, TableAssumption
            <4> QED
                BY <4>1, <4>2
        <3>5. RecomputeNext(more) <= least
            BY <3>2, <3>4
        <3>6. least <= RecomputeNext(more)
            BY <3>2, <3>3, TableAssumption
        <3> QED
            BY <3>2, <3>3, <3>5, <3>6
    <2>8. Good(Schedule(t, d, c, g))
        <3>1. RecomputeNext(more) \in 0 .. Never
            BY <2>2, NextIsLeast
        <3> QED
            BY <2>1, <2>2, <2>4, <2>7, <3>1 DEF Good, Table, Consistent, OneEach, SameKey
    <2> QED
        BY <2>1, <2>5, <2>6, <2>8
<1> QED
    BY <1>2, <1>3

(* cancel() removes the event with its key, if there is one.               *)
LEMMA CancelFacts ==
    ASSUME NEW t, Good(t), NEW d \in Devices, NEW g \in Tags
    PROVE  /\ Good(Cancel(t, d, g))
           /\ EventsIn(Cancel(t, d, g).events) = {e \in EventsIn(t.events) : e.device # d \/ e.tag # g}
<1>1. CASE Places(t, d, g) = {}
    BY <1>1, PlacesFacts DEF Cancel
<1>2. CASE Places(t, d, g) # {}
    <2> DEFINE p == CHOOSE i \in Places(t, d, g) : TRUE
    <2>1. p \in Places(t, d, g) /\ Cancel(t, d, g) = Recomputed(SwapRemove(t.events, p))
        BY <1>2 DEF Cancel
    <2> HIDE DEF p
    <2>2. p \in DOMAIN t.events /\ t.events[p].device = d /\ t.events[p].tag = g
        BY <2>1, PlacesFacts
    <2>3. t.events \in Seq(Event) /\ OneEach(t.events)
        BY GoodTable
    <2>4. /\ SwapRemove(t.events, p) \in Seq(Event) /\ OneEach(SwapRemove(t.events, p))
          /\ EventsIn(SwapRemove(t.events, p)) = EventsIn(t.events) \ {t.events[p]}
        BY <2>2, <2>3, SwapRemoveFacts
    <2>5. EventsIn(t.events) \ {t.events[p]} = {e \in EventsIn(t.events) : e.device # d \/ e.tag # g}
        BY <2>2, <2>3, OneOfAKey DEF SameKey, EventsIn
    <2> QED
        BY <2>1, <2>4, <2>5, RecomputedIsGood
<1> QED
    BY <1>1, <1>2

(* service() takes an event that no other precedes.                        *)
LEMMA EarliestFacts ==
    ASSUME NEW t, Good(t), t.next < Never
    PROVE  /\ Earliest(t) \in DOMAIN t.events
           /\ t.events[Earliest(t)] \in EventsIn(t.events)
           /\ t.events[Earliest(t)].cycle = t.next
<1> DEFINE es == t.events
           due == {i \in DOMAIN es : es[i].cycle = t.next}
           First(i) == \A j \in DOMAIN es : \/ es[i].cycle < es[j].cycle
                                            \/ es[i].cycle = es[j].cycle /\ i <= j
<1>1. /\ es \in Seq(Event) /\ \A i \in DOMAIN es : t.next <= es[i].cycle /\ es[i].cycle \in Nat
      /\ \E i \in DOMAIN es : es[i].cycle = t.next
      /\ t.next \in Nat
    <2>1. \A e \in EventsIn(es) : t.next <= e.cycle /\ e.cycle \in Nat
        BY GoodTable, TableAssumption DEF Event
    <2>2. \E e \in EventsIn(es) : t.next = e.cycle
        BY GoodTable
    <2> QED
        BY <2>1, <2>2, GoodTable, TableAssumption DEF EventsIn
<1>2. due \in SUBSET Nat /\ due # {}
    BY <1>1
<1>3. PICK i \in due : \A j \in due : i <= j
    <2> HIDE DEF due
    <2> QED
        BY <1>2, Least
<1>4. First(i) /\ i \in DOMAIN es
    BY <1>1, <1>3
<1>5. Earliest(t) = CHOOSE k \in DOMAIN es : First(k)
    BY DEF Earliest
<1>6. Earliest(t) \in DOMAIN es /\ First(Earliest(t))
    <2> HIDE DEF First, es
    <2> QED
        BY <1>4, <1>5
<1>7. es[Earliest(t)].cycle = t.next
    <2>1. es[Earliest(t)].cycle <= es[i].cycle
        BY <1>1, <1>4, <1>6
    <2> QED
        BY <1>1, <1>3, <1>6, <2>1
<1> QED
    BY <1>6, <1>7 DEF EventsIn

(* The event service() calls is the one that leaves the table.              *)
LEMMA WithoutEarliestFacts ==
    ASSUME NEW t, Good(t), t.next < Never
    PROVE  /\ Good(WithoutEarliest(t))
           /\ EventsIn(WithoutEarliest(t).events) = EventsIn(t.events) \ {t.events[Earliest(t)]}
<1>1. Earliest(t) \in DOMAIN t.events
    BY EarliestFacts
<1>2. t.events \in Seq(Event) /\ OneEach(t.events)
    BY GoodTable
<1> QED
    BY <1>1, <1>2, SwapRemoveFacts, RecomputedIsGood DEF WithoutEarliest

(* The rounds of cancelAll() are one after another: the function that       *)
(* describes them is there, and does what its definition says.             *)
LEMMA SweepUnfolds ==
    ASSUME NEW es \in Seq(Event), NEW d
    PROVE  /\ Sweep(es, d)[0] = [events |-> es, place |-> 1]
           /\ \A n \in 1 .. Len(es) : Sweep(es, d)[n] = SweepRound(Sweep(es, d)[n - 1], d)
<1> DEFINE start == [events |-> es, place |-> 1]
           Rounds(f, m) == f = [n \in 0 .. m |-> IF n = 0 THEN start ELSE SweepRound(f[n - 1], d)]
           missing == {m \in 0 .. Len(es) : ~\E f : Rounds(f, m)}
<1>0. Len(es) \in Nat
    OBVIOUS
<1> HIDE DEF start
<1>1. ASSUME missing # {} PROVE FALSE
    <2>1. PICK m \in missing : \A k \in missing : m <= k
        <3>1. missing \in SUBSET Nat
            BY <1>0
        <3> HIDE DEF missing
        <3> QED
            BY <1>1, <3>1, Least
    <2>2. m \in 0 .. Len(es) /\ ~\E f : Rounds(f, m)
        BY <2>1
    <2>3. CASE m = 0
        <3>1. Rounds([n \in 0 .. 0 |-> start], 0)
            OBVIOUS
        <3> QED
            BY <2>2, <2>3, <3>1
    <2>4. CASE m # 0
        <3>1. m - 1 \in 0 .. Len(es) /\ m - 1 \notin missing /\ m \in Nat \ {0}
            <4>1. m - 1 \in 0 .. Len(es) /\ m \in Nat \ {0}
                BY <1>0, <2>2, <2>4
            <4> HIDE DEF missing
            <4> QED
                BY <2>1, <4>1
        <3>2. PICK f : Rounds(f, m - 1)
            BY <3>1
        <3> DEFINE h == [n \in 0 .. m |-> IF n = m THEN SweepRound(f[m - 1], d) ELSE f[n]]
        <3>3. \A n \in 0 .. m - 1 : f[n] = IF n = 0 THEN start ELSE SweepRound(f[n - 1], d)
            BY <3>2
        <3>4. \A n \in 0 .. m : h[n] = IF n = 0 THEN start ELSE SweepRound(h[n - 1], d)
            <4>1. SUFFICES ASSUME NEW n \in 0 .. m
                           PROVE  h[n] = IF n = 0 THEN start ELSE SweepRound(h[n - 1], d)
                OBVIOUS
            <4>2. CASE n = 0
                BY <3>1, <3>3, <4>2
            <4>3. CASE n = m
                <5>1. m - 1 \in 0 .. m /\ m - 1 # m /\ m # 0 /\ m \in 0 .. m
                    BY <3>1
                <5>2. h[m - 1] = f[m - 1] /\ h[m] = SweepRound(f[m - 1], d)
                    BY <5>1
                <5> HIDE DEF h
                <5> QED
                    BY <4>3, <5>1, <5>2
            <4>4. CASE n # 0 /\ n # m
                <5>1. n \in 1 .. m - 1 /\ n - 1 \in 0 .. m - 1 /\ n - 1 \in 0 .. m /\ n - 1 # m
                    BY <3>1, <4>1, <4>4
                <5>2. h[n] = f[n] /\ h[n - 1] = f[n - 1]
                    BY <4>1, <4>4, <5>1
                <5> HIDE DEF h
                <5> QED
                    BY <3>3, <4>4, <5>1, <5>2
            <4> QED
                BY <4>2, <4>3, <4>4
        <3>5. Rounds(h, m)
            <4>1. h = [n \in 0 .. m |-> h[n]]
                OBVIOUS
            <4> HIDE DEF h
            <4> QED
                BY <3>4, <4>1
        <3> QED
            BY <2>2, <3>5
    <2> QED
        BY <2>3, <2>4
<1>2. \E f : Rounds(f, Len(es))
    BY <1>0, <1>1
<1>3. Sweep(es, d) = CHOOSE f : Rounds(f, Len(es))
    BY DEF Sweep, start
<1>4. Rounds(Sweep(es, d), Len(es))
    <2> HIDE DEF Rounds
    <2> QED
        BY <1>2, <1>3
<1> HIDE DEF missing
<1> QED
    <2> DEFINE f == Sweep(es, d)
    <2>1. \A n \in 0 .. Len(es) : f[n] = IF n = 0 THEN start ELSE SweepRound(f[n - 1], d)
        <3> HIDE DEF f
        <3>1. Rounds(f, Len(es))
            BY <1>4 DEF f
        <3> QED
            BY <3>1
    <2> HIDE DEF f
    <2>2. f[0] = start /\ \A n \in 1 .. Len(es) : f[n] = SweepRound(f[n - 1], d)
        BY <1>0, <2>1
    <2> QED
        BY <2>2 DEF f, start

(* cancelAll() removes the device's events and no other: after every round  *)
(* the events before the place are not the device's, those that are not the *)
(* device's are all there, and there are as many left to look at as rounds. *)
Swept(s, es, d, n) ==
    /\ s.events \in Seq(Event) /\ OneEach(s.events)
    /\ s.place \in Nat \ {0} /\ Len(s.events) - s.place + 1 = Len(es) - n
    /\ \A i \in DOMAIN s.events : i < s.place => s.events[i].device # d
    /\ EventsIn(s.events) \subseteq EventsIn(es)
    /\ \A e \in EventsIn(es) : e.device # d => e \in EventsIn(s.events)

(* Each round of the sweep keeps that so.                                  *)
LEMMA RoundSweeps ==
    ASSUME NEW es \in Seq(Event), NEW d, NEW n \in 0 .. Len(es) - 1, NEW s, Swept(s, es, d, n)
    PROVE  Swept(SweepRound(s, d), es, d, n + 1)
<1>1. /\ s.events \in Seq(Event) /\ OneEach(s.events) /\ s.place \in Nat \ {0}
      /\ Len(s.events) - s.place + 1 = Len(es) - n
      /\ \A i \in DOMAIN s.events : i < s.place => s.events[i].device # d
      /\ EventsIn(s.events) \subseteq EventsIn(es)
      /\ \A e \in EventsIn(es) : e.device # d => e \in EventsIn(s.events)
    BY DEF Swept
<1>2. s.place \in DOMAIN s.events
    BY <1>1
<1>3. CASE s.events[s.place].device = d
    <2> DEFINE new == SwapRemove(s.events, s.place)
    <2>1. SweepRound(s, d).events = new /\ SweepRound(s, d).place = s.place
        BY <1>3 DEF SweepRound
    <2>2. /\ new \in Seq(Event) /\ OneEach(new) /\ Len(new) = Len(s.events) - 1
          /\ EventsIn(new) = EventsIn(s.events) \ {s.events[s.place]}
        BY <1>1, <1>2, SwapRemoveFacts
    <2>3. \A i \in DOMAIN new : i < s.place => new[i] = s.events[i] /\ i \in DOMAIN s.events
        BY <1>1, <2>2 DEF SwapRemove
    <2> HIDE DEF new
    <2>4. \A i \in DOMAIN new : i < s.place => new[i].device # d
        BY <1>1, <2>3
    <2>5. Len(new) - s.place + 1 = Len(es) - (n + 1)
        BY <1>1, <2>2
    <2>6. \A e \in EventsIn(es) : e.device # d => e \in EventsIn(new)
        BY <1>1, <1>3, <2>2
    <2> QED
        BY <1>1, <2>1, <2>2, <2>4, <2>5, <2>6 DEF Swept
<1>4. CASE s.events[s.place].device # d
    <2>1. SweepRound(s, d).events = s.events /\ SweepRound(s, d).place = s.place + 1
        BY <1>4 DEF SweepRound
    <2>2. \A i \in DOMAIN s.events : i < s.place + 1 => s.events[i].device # d
        BY <1>1, <1>4
    <2>3. s.place + 1 \in Nat \ {0} /\ Len(s.events) - (s.place + 1) + 1 = Len(es) - (n + 1)
        <3>1. Len(s.events) \in Nat /\ Len(es) \in Nat /\ n \in Nat /\ s.place \in Nat
            BY <1>1
        <3>2. Len(s.events) - s.place + 1 = Len(es) - n
            BY <1>1
        <3> DEFINE a == Len(s.events)
                   b == Len(es)
        <3>3. a \in Nat /\ b \in Nat /\ n \in Nat /\ s.place \in Nat /\ a - s.place + 1 = b - n
            BY <3>1, <3>2
        <3> HIDE DEF a, b
        <3>4. s.place + 1 \in Nat \ {0} /\ a - (s.place + 1) + 1 = b - (n + 1)
            BY <3>3
        <3> QED
            BY <3>4 DEF a, b
    <2> QED
        BY <1>1, <2>1, <2>2, <2>3 DEF Swept
<1> QED
    BY <1>3, <1>4

(* cancelAll() leaves the events of the other devices.                     *)
LEMMA CancelAllFacts ==
    ASSUME NEW t, Good(t), NEW d
    PROVE  /\ Good(CancelAll(t, d))
           /\ EventsIn(CancelAll(t, d).events) = {e \in EventsIn(t.events) : e.device # d}
<1> DEFINE es == t.events
           after == Sweep(es, d)
           wrong == {n \in 0 .. Len(es) : ~Swept(after[n], es, d, n)}
<1>1. es \in Seq(Event) /\ OneEach(es) /\ Len(es) \in Nat
    BY GoodTable
<1>2. /\ after[0] = [events |-> es, place |-> 1]
      /\ \A n \in 1 .. Len(es) : after[n] = SweepRound(after[n - 1], d)
    BY <1>1, SweepUnfolds
<1> HIDE DEF es, after
<1>3. Swept(after[0], es, d, 0)
    BY <1>1, <1>2 DEF Swept
<1>4. ASSUME wrong # {} PROVE FALSE
    <2>1. PICK n \in wrong : \A k \in wrong : n <= k
        <3>1. wrong \in SUBSET Nat
            BY <1>1
        <3> HIDE DEF wrong
        <3> QED
            BY <1>4, <3>1, Least
    <2>2. n \in 1 .. Len(es) /\ n - 1 \in 0 .. Len(es) - 1 /\ n - 1 \in 0 .. Len(es)
        BY <1>1, <1>3, <2>1
    <2>3. n - 1 \notin wrong
        <3> HIDE DEF wrong
        <3> QED
            BY <2>1, <2>2
    <2>4. Swept(after[n - 1], es, d, n - 1)
        BY <2>2, <2>3
    <2>5. Swept(SweepRound(after[n - 1], d), es, d, n - 1 + 1)
        BY <1>1, <2>2, <2>4, RoundSweeps
    <2>6. after[n] = SweepRound(after[n - 1], d) /\ n - 1 + 1 = n
        BY <1>2, <2>2
    <2> QED
        BY <2>1, <2>5, <2>6
<1> DEFINE done == after[Len(es)]
<1>5. Swept(done, es, d, Len(es))
    BY <1>1, <1>4
<1>6. /\ done.events \in Seq(Event) /\ OneEach(done.events)
      /\ \A i \in DOMAIN done.events : done.events[i].device # d
      /\ EventsIn(done.events) \subseteq EventsIn(es)
      /\ \A e \in EventsIn(es) : e.device # d => e \in EventsIn(done.events)
    <2> HIDE DEF done
    <2>1. /\ done.events \in Seq(Event) /\ done.place \in Nat \ {0}
          /\ Len(done.events) - done.place + 1 = 0
          /\ \A i \in DOMAIN done.events : i < done.place => done.events[i].device # d
        BY <1>1, <1>5 DEF Swept
    <2>2. \A i \in DOMAIN done.events : i < done.place
        BY <2>1
    <2> QED
        BY <1>5, <2>1, <2>2 DEF Swept
<1>7. EventsIn(done.events) = {e \in EventsIn(es) : e.device # d}
    <2> HIDE DEF done
    <2>1. \A e \in EventsIn(done.events) : e.device # d
        BY <1>6 DEF EventsIn
    <2> QED
        BY <1>6, <2>1
<1>8. CancelAll(t, d) = Recomputed(done.events)
    BY DEF CancelAll, after, es
<1> QED
    BY <1>6, <1>7, <1>8, RecomputedIsGood DEF es

-----------------------------------------------------------------------------
(* The timer's arithmetic.                                                 *)

(* Division of natural numbers.                                            *)
LEMMA Division ==
    ASSUME NEW a \in Nat, NEW b \in Nat \ {0}
    PROVE  a \div b \in Nat /\ a % b \in 0 .. b - 1 /\ a = b * (a \div b) + (a % b)
<1>1. a % b \in 0 .. b - 1
    BY SMT
<1>2. a = b * (a \div b) + (a % b)
    BY SMT
<1>3. a \div b \in Nat
    BY SMT
<1> QED
    BY <1>1, <1>2, <1>3

(* Products keep the order of what is multiplied.                          *)
LEMMA Products ==
    ASSUME NEW a \in Int, NEW b \in Int, NEW c \in Nat
    PROVE  /\ a * c \in Int
           /\ a <= b => a * c <= b * c
           /\ (a < b /\ c > 0) => a * c < b * c
           /\ (a * c < b * c) => a < b
BY SMT

(* How many whole periods there are in a time between two of their ends.   *)
LEMMA WholePeriods ==
    ASSUME NEW a \in Nat, NEW p \in Nat \ {0}, NEW q \in Nat, q * p <= a, a < (q + 1) * p
    PROVE  a \div p = q
<1> DEFINE k == a \div p
           r == a % p
<1>1. k \in Nat /\ r \in 0 .. p - 1 /\ a = p * k + r
    BY Division
<1> HIDE DEF k, r
<1>2. k * p < (q + 1) * p /\ q * p < (k + 1) * p
    BY <1>1
<1>3. k < q + 1 /\ q < k + 1
    BY <1>1, <1>2, Products
<1>4. k = q
    BY <1>1, <1>3
<1> QED
    BY <1>4 DEF k

ClockRate == [hz : Nat \ {0}, nanos : Nat \ {0}]

(* The cycle of an instant is one of the counter's.                        *)
LEMMA InstantsHaveCycles ==
    ASSUME rate \in ClockRate, NEW instant \in Nat
    PROVE  /\ CycleAtNanos(instant) \in 0 .. Never - 1
           /\ CycleAtNanos(instant) <= AlarmSeconds(instant) * rate.hz + Part(instant)
           /\ AlarmSeconds(instant) * rate.hz + Part(instant) \in Int
<1> DEFINE hz == rate.hz
           nanos == rate.nanos
           s == AlarmSeconds(instant)
           part == Part(instant)
           room == Never - 1 - part
<1>1. hz \in Nat \ {0} /\ nanos \in Nat \ {0} /\ Never \in Nat \ {0}
    BY TableAssumption DEF ClockRate
<1>2. s \in Nat
    BY <1>1, Division DEF AlarmSeconds
<1>3. part \in Nat
    <2> DEFINE over == (instant % nanos) * hz + nanos - 1
    <2>1. over \in Nat
        <3>1. instant % nanos \in Nat
            BY <1>1, Division
        <3>2. (instant % nanos) * hz \in Nat
            BY <1>1, <3>1
        <3> QED
            BY <1>1, <3>2
    <2>2. part = over \div nanos
        BY DEF Part
    <2> HIDE DEF over, part, nanos
    <2> QED
        BY <1>1, <2>1, <2>2, Division
<1>4. CycleAtNanos(instant) = IF s > room \div hz THEN Never - 1 ELSE s * hz + part
    BY DEF CycleAtNanos
<1> HIDE DEF s, part, hz, nanos
<1>5. room \in Int /\ hz * (room \div hz) <= room /\ room \div hz \in Int /\ room < hz * (room \div hz) + hz
    BY <1>1, <1>3
<1>6. CASE s > room \div hz
    <2>1. s * hz >= (room \div hz + 1) * hz
        BY <1>1, <1>2, <1>5, <1>6, Products
    <2>2. s * hz > room
        <3> DEFINE k == room \div hz
        <3>1. k \in Int /\ room \in Int /\ room < hz * k + hz /\ s * hz >= (k + 1) * hz /\ s * hz \in Int
            BY <1>1, <1>2, <1>5, <2>1
        <3> HIDE DEF k, room
        <3>2. (k + 1) * hz = hz * k + hz
            BY <1>1, <3>1
        <3> QED
            BY <1>1, <3>1, <3>2
    <2>3. s * hz + part > Never - 1
        BY <1>1, <1>2, <1>3, <2>2
    <2> QED
        <3>1. /\ CycleAtNanos(instant) \in 0 .. Never - 1 /\ CycleAtNanos(instant) <= s * hz + part
              /\ s * hz + part \in Int
            BY <1>1, <1>2, <1>3, <1>4, <1>6, <2>3
        <3> QED
            BY <3>1 DEF s, hz, part
<1>7. CASE ~(s > room \div hz)
    <2>1. s * hz <= (room \div hz) * hz
        BY <1>1, <1>2, <1>5, <1>7, Products
    <2>2. s * hz <= room /\ s * hz \in Nat
        BY <1>1, <1>2, <1>5, <2>1
    <2> QED
        BY <1>1, <1>3, <1>4, <1>7, <2>2 DEF s, hz, part
<1> QED
    BY <1>6, <1>7

(* Before the cycle of an instant, the instant has not come.               *)
LEMMA NotYet ==
    ASSUME rate \in ClockRate, NEW instant \in Nat, NEW c \in Nat,
           c < AlarmSeconds(instant) * rate.hz + Part(instant)
    PROVE  NanosAt(c) < instant
<1> DEFINE hz == rate.hz
           nanos == rate.nanos
           s == instant \div nanos
           r == instant % nanos
           over == r * hz + nanos - 1
           part == over \div nanos
           q == c \div hz
           m == c % hz
           w == (m * nanos) \div hz
<1>1. hz \in Nat \ {0} /\ nanos \in Nat \ {0}
    BY DEF ClockRate
<1>2. c < s * hz + part
    BY DEF AlarmSeconds, Part
<1>3. NanosAt(c) = q * nanos + w
    BY DEF NanosAt
<1> HIDE DEF hz, nanos
<1>4. s \in Nat /\ r \in 0 .. nanos - 1 /\ instant = nanos * s + r
    BY <1>1, Division
<1>5. q \in Nat /\ m \in 0 .. hz - 1 /\ c = hz * q + m
    BY <1>1, Division
<1> HIDE DEF s, r, q, m
<1>6. over \in Nat
    BY <1>1, <1>4
<1> HIDE DEF over
<1>7. part \in Nat /\ nanos * part <= over
    <2>1. part \in Nat /\ (over % nanos) \in 0 .. nanos - 1 /\ over = nanos * part + (over % nanos)
        BY <1>1, <1>6, Division
    <2> HIDE DEF part
    <2>2. nanos * part \in Nat
        BY <1>1, <2>1
    <2> QED
        BY <1>1, <1>6, <2>1, <2>2
<1> HIDE DEF part
<1>8. w \in Nat /\ hz * w <= m * nanos
    <2>1. m * nanos \in Nat
        BY <1>1, <1>5
    <2>2. w \in Nat /\ ((m * nanos) % hz) \in 0 .. hz - 1 /\ m * nanos = hz * w + ((m * nanos) % hz)
        BY <1>1, <2>1, Division
    <2> HIDE DEF w
    <2>3. hz * w \in Nat
        BY <1>1, <2>2
    <2> QED
        BY <1>1, <2>1, <2>2, <2>3
<1> HIDE DEF w
<1>9. c * nanos < instant * hz
    <2>1. c <= s * hz + part - 1 /\ s * hz \in Nat
        BY <1>1, <1>2, <1>4, <1>5, <1>7
    <2>2. c * nanos <= (s * hz + part - 1) * nanos
        <3>1. s * hz + part - 1 \in Int
            BY <1>7, <2>1
        <3> QED
            BY <1>1, <2>1, <3>1, Products
    <2>3. (s * hz + part - 1) * nanos = s * hz * nanos + nanos * part - nanos
        BY <1>1, <1>4, <1>7
    <2>4. nanos * part <= r * hz + nanos - 1
        BY <1>7 DEF over
    <2>5. instant * hz = s * hz * nanos + r * hz
        BY <1>1, <1>4
    <2>6. s * hz * nanos \in Nat /\ r * hz \in Nat /\ nanos * part \in Nat /\ c * nanos \in Nat /\ instant * hz \in Nat
        BY <1>1, <1>4, <1>7, <2>1
    <2> QED
        BY <1>1, <2>2, <2>3, <2>4, <2>5, <2>6
<1>10. NanosAt(c) * hz <= c * nanos /\ NanosAt(c) \in Nat
    <2>1. (q * nanos + w) * hz = q * nanos * hz + hz * w
        BY <1>1, <1>5, <1>8
    <2>2. c * nanos = q * nanos * hz + m * nanos
        BY <1>1, <1>5
    <2>3. q * nanos * hz \in Nat /\ hz * w \in Nat /\ m * nanos \in Nat /\ q * nanos + w \in Nat
        BY <1>1, <1>5, <1>8
    <2> QED
        BY <1>3, <1>8, <2>1, <2>2, <2>3
<1>11. NanosAt(c) * hz < instant * hz
    BY <1>1, <1>9, <1>10
<1> QED
    BY <1>1, <1>10, <1>11, Products

-----------------------------------------------------------------------------
(* The strengthening.  The table holds the events the devices wait for and *)
(* no other, each on the cycle its device expects.                         *)
CountdownCycle == IF timer.deadline = 0 THEN Never ELSE timer.deadline
AlarmCycle == IF timer.alarm = 0 THEN Never ELSE CycleAtNanos(timer.alarm)
Keys == {<<Timer, Countdown>>, <<Timer, Alarm>>, <<Dma, 0>>, <<Gpu, 0>>}
Holds(events, d, g) == \E e \in events : e.device = d /\ e.tag = g
OnCycle(events, d, g, c) ==
    /\ Holds(events, d, g) <=> c # Never
    /\ \A e \in events : e.device = d /\ e.tag = g => e.cycle = c
Told(events, countdown, alarm, transfer, copying) ==
    /\ \A e \in events : e \in Event /\ <<e.device, e.tag>> \in Keys
    /\ OnCycle(events, Timer, Countdown, countdown)
    /\ OnCycle(events, Timer, Alarm, alarm)
    /\ Holds(events, Dma, 0) <=> transfer = TRUE
    /\ Holds(events, Gpu, 0) <=> copying = TRUE
Events == EventsIn(table.events)
TableTold == Good(table) /\ Told(Events, CountdownCycle, AlarmCycle, dma, copy.busy)

(* A countdown is on the end of its next period, and the last one is over. *)
Armed ==
    timer.deadline # 0 =>
        /\ timer.period > 0
        /\ timer.deadline = armed.at + (armed.ticks + 1) * timer.period
        /\ armed.at + armed.ticks * timer.period <= clock

CInv == ClockTypeOK /\ TableTold /\ NothingOverdue /\ Armed

Dropped(events, d, g) == {e \in events : e.device # d \/ e.tag # g}
Moved(events, d, g, c) == Dropped(events, d, g) \cup {[device |-> d, tag |-> g, cycle |-> c]}

(* The devices and the tags are different ones.                            *)
LEMMA DeviceNames ==
    /\ Timer \in Devices /\ Dma \in Devices /\ Gpu \in Devices /\ Countdown \in Tags /\ Alarm \in Tags /\ 0 \in Tags
    /\ Timer # Dma /\ Timer # Gpu /\ Dma # Gpu /\ Countdown # Alarm
    /\ MaxEvents >= 4 /\ MaxEvents \in Nat /\ Never \in Nat \ {0}
BY DeviceAssumption, TableAssumption DEF Timer, Dma, Gpu, Countdown, Alarm

(* There is always room for an event a device may have.                    *)
LEMMA Room ==
    ASSUME NEW t, Good(t), \A e \in EventsIn(t.events) : <<e.device, e.tag>> \in Keys,
           NEW d, NEW g, <<d, g>> \in Keys
    PROVE  Len(t.events) < MaxEvents \/ Places(t, d, g) # {}
<1> DEFINE es == t.events
           Key(i) == <<es[i].device, es[i].tag>>
<1>1. SUFFICES ASSUME Places(t, d, g) = {}, ~(Len(es) < MaxEvents) PROVE FALSE
    OBVIOUS
<1>2. es \in Seq(Event) /\ OneEach(es) /\ Len(es) \in Nat
    BY GoodTable
<1>3. /\ 1 \in DOMAIN es /\ 2 \in DOMAIN es /\ 3 \in DOMAIN es /\ 4 \in DOMAIN es
    BY <1>1, <1>2, DeviceNames
<1>4. \A i \in DOMAIN es : Key(i) \in Keys /\ Key(i) # <<d, g>>
    BY <1>1 DEF EventsIn, Places
<1>5. \A i, j \in DOMAIN es : Key(i) = Key(j) => i = j
    BY <1>2 DEF OneEach, SameKey
<1> HIDE DEF es, Key
<1>6. /\ Key(1) # Key(2) /\ Key(1) # Key(3) /\ Key(1) # Key(4)
      /\ Key(2) # Key(3) /\ Key(2) # Key(4) /\ Key(3) # Key(4)
    BY <1>3, <1>5
<1>7. /\ Key(1) \in Keys \ {<<d, g>>} /\ Key(2) \in Keys \ {<<d, g>>}
      /\ Key(3) \in Keys \ {<<d, g>>} /\ Key(4) \in Keys \ {<<d, g>>}
    BY <1>3, <1>4
<1> DEFINE k1 == <<Timer, Countdown>>
           k2 == <<Timer, Alarm>>
           k3 == <<Dma, 0>>
           k4 == <<Gpu, 0>>
           key == <<d, g>>
<1>8. Keys = {k1, k2, k3, k4} /\ key \in Keys
    BY DEF Keys
<1> HIDE DEF k1, k2, k3, k4, key, Keys
<1> QED
    BY <1>6, <1>7, <1>8 DEF key

(* A device's event is removed.                                            *)
LEMMA CancelTold ==
    ASSUME NEW t, Good(t), NEW d \in Devices, NEW g \in Tags
    PROVE  Good(Cancel(t, d, g)) /\ EventsIn(Cancel(t, d, g).events) = Dropped(EventsIn(t.events), d, g)
BY CancelFacts DEF Dropped

(* A device's event is there, on its new cycle.                            *)
LEMMA ScheduleTold ==
    ASSUME NEW t, Good(t), \A e \in EventsIn(t.events) : <<e.device, e.tag>> \in Keys,
           NEW d \in Devices, NEW g \in Tags, <<d, g>> \in Keys, NEW c \in 0 .. Never - 1
    PROVE  /\ Good(Schedule(t, d, c, g))
           /\ EventsIn(Schedule(t, d, c, g).events) = Moved(EventsIn(t.events), d, g, c)
BY ScheduleFacts, Room DEF Moved, Dropped

(* What is due next has a key, and service() removes it.                   *)
LEMMA ServiceTold ==
    ASSUME NEW t, Good(t), t.next < Never, \A e \in EventsIn(t.events) : <<e.device, e.tag>> \in Keys
    PROVE  LET e == t.events[Earliest(t)]
           IN  /\ e \in EventsIn(t.events) /\ e.cycle = t.next
               /\ Good(WithoutEarliest(t))
               /\ EventsIn(WithoutEarliest(t).events) = Dropped(EventsIn(t.events), e.device, e.tag)
<1> DEFINE e == t.events[Earliest(t)]
<1>1. e \in EventsIn(t.events) /\ e.cycle = t.next
    BY EarliestFacts
<1>2. Good(WithoutEarliest(t)) /\ EventsIn(WithoutEarliest(t).events) = EventsIn(t.events) \ {e}
    BY WithoutEarliestFacts
<1>3. \A x \in EventsIn(t.events) : (x.device = e.device /\ x.tag = e.tag) => x = e
    BY <1>1, GoodTable, OneOfAKey DEF SameKey
<1> HIDE DEF e
<1>4. EventsIn(t.events) \ {e} = Dropped(EventsIn(t.events), e.device, e.tag)
    BY <1>3 DEF Dropped
<1> QED
    BY <1>1, <1>2, <1>4 DEF e

(* The countdown's event follows its deadline.                             *)
LEMMA SyncCountdownTold ==
    ASSUME NEW t, Good(t), \A e \in EventsIn(t.events) : <<e.device, e.tag>> \in Keys,
           NEW deadline \in 0 .. Never - 1
    PROVE  /\ Good(SyncCountdown(t, deadline))
           /\ EventsIn(SyncCountdown(t, deadline).events) =
                IF deadline # 0 THEN Moved(EventsIn(t.events), Timer, Countdown, deadline)
                ELSE Dropped(EventsIn(t.events), Timer, Countdown)
<1>1. <<Timer, Countdown>> \in Keys
    BY DEF Keys
<1> QED
    BY <1>1, CancelTold, ScheduleTold, DeviceNames DEF SyncCountdown

(* The alarm's event follows its instant, until that is past.              *)
LEMMA SyncAlarmTold ==
    ASSUME NEW t, Good(t), \A e \in EventsIn(t.events) : <<e.device, e.tag>> \in Keys,
           rate \in ClockRate, NEW instant \in Nat, NEW now
    PROVE  /\ Good(SyncAlarm(t, instant, now))
           /\ EventsIn(SyncAlarm(t, instant, now).events) =
                IF instant = 0 \/ AlarmDue(instant, now) THEN Dropped(EventsIn(t.events), Timer, Alarm)
                ELSE Moved(EventsIn(t.events), Timer, Alarm, CycleAtNanos(instant))
<1>1. <<Timer, Alarm>> \in Keys /\ CycleAtNanos(instant) \in 0 .. Never - 1
    BY InstantsHaveCycles DEF Keys
<1> QED
    BY <1>1, CancelTold, ScheduleTold, DeviceNames DEF SyncAlarm

(* The story told of a table whose event was removed or moved.             *)
LEMMA ToldAgain ==
    ASSUME NEW E, NEW cd, NEW al, NEW tr, NEW cp, Told(E, cd, al, tr, cp), NEW c \in 0 .. Never - 1
    PROVE  /\ Told(Dropped(E, Timer, Countdown), Never, al, tr, cp)
           /\ Told(Dropped(E, Timer, Alarm), cd, Never, tr, cp)
           /\ Told(Dropped(E, Dma, 0), cd, al, FALSE, cp)
           /\ Told(Dropped(E, Gpu, 0), cd, al, tr, FALSE)
           /\ Told(Moved(E, Timer, Countdown, c), c, al, tr, cp)
           /\ Told(Moved(E, Timer, Alarm, c), cd, c, tr, cp)
           /\ Told(Moved(E, Dma, 0, c), cd, al, TRUE, cp)
           /\ Told(Moved(E, Gpu, 0, c), cd, al, tr, TRUE)
<1>0. c # Never
    BY DeviceNames
<1> USE DeviceNames DEF Told, OnCycle, Holds
<1>1. Told(Dropped(E, Timer, Countdown), Never, al, tr, cp)
    BY DEF Dropped
<1>2. Told(Dropped(E, Timer, Alarm), cd, Never, tr, cp)
    BY DEF Dropped
<1>3. Told(Dropped(E, Dma, 0), cd, al, FALSE, cp)
    BY DEF Dropped
<1>4. Told(Dropped(E, Gpu, 0), cd, al, tr, FALSE)
    BY DEF Dropped
<1>5. Told(Moved(E, Timer, Countdown, c), c, al, tr, cp)
    <2> DEFINE e == [device |-> Timer, tag |-> Countdown, cycle |-> c]
    <2>1. e \in Event /\ e.device = Timer /\ e.tag = Countdown /\ e.cycle = c /\ <<Timer, Countdown>> \in Keys
        BY DEF Event, Keys
    <2>2. Moved(E, Timer, Countdown, c) = Dropped(E, Timer, Countdown) \cup {e}
        BY DEF Moved
    <2> HIDE DEF e
    <2> QED
        BY <1>0, <2>1, <2>2 DEF Dropped
<1>6. Told(Moved(E, Timer, Alarm, c), cd, c, tr, cp)
    <2> DEFINE e == [device |-> Timer, tag |-> Alarm, cycle |-> c]
    <2>1. e \in Event /\ e.device = Timer /\ e.tag = Alarm /\ e.cycle = c /\ <<Timer, Alarm>> \in Keys
        BY DEF Event, Keys
    <2>2. Moved(E, Timer, Alarm, c) = Dropped(E, Timer, Alarm) \cup {e}
        BY DEF Moved
    <2> HIDE DEF e
    <2> QED
        BY <1>0, <2>1, <2>2 DEF Dropped
<1>7. Told(Moved(E, Dma, 0, c), cd, al, TRUE, cp)
    <2> DEFINE e == [device |-> Dma, tag |-> 0, cycle |-> c]
    <2>1. e \in Event /\ e.device = Dma /\ e.tag = 0 /\ <<Dma, 0>> \in Keys
        BY DEF Event, Keys
    <2>2. Moved(E, Dma, 0, c) = Dropped(E, Dma, 0) \cup {e}
        BY DEF Moved
    <2> HIDE DEF e
    <2> QED
        BY <2>1, <2>2 DEF Dropped
<1>8. Told(Moved(E, Gpu, 0, c), cd, al, tr, TRUE)
    <2> DEFINE e == [device |-> Gpu, tag |-> 0, cycle |-> c]
    <2>1. e \in Event /\ e.device = Gpu /\ e.tag = 0 /\ <<Gpu, 0>> \in Keys
        BY DEF Event, Keys
    <2>2. Moved(E, Gpu, 0, c) = Dropped(E, Gpu, 0) \cup {e}
        BY DEF Moved
    <2> HIDE DEF e
    <2> QED
        BY <2>1, <2>2 DEF Dropped
<1> QED
    BY <1>1, <1>2, <1>3, <1>4, <1>5, <1>6, <1>7, <1>8

-----------------------------------------------------------------------------
(* The steps.                                                              *)

(* What the types say of the numbers the devices keep.                     *)
LEMMA Ranges ==
    ASSUME ClockTypeOK
    PROVE  /\ rate \in ClockRate /\ clock \in 0 .. MaxClock /\ MaxClock \in Nat
           /\ Word \in Nat \ {0} /\ MaxClock + Word + 1 < Never /\ Never \in Nat
           /\ timer.deadline \in 0 .. Never - 1 /\ timer.period \in 0 .. Word - 1
           /\ timer.alarm \in 0 .. Word * Word - 1 /\ timer.alarm \in Nat /\ timer.low \in 0 .. Word - 1
           /\ armed.at \in 0 .. MaxClock /\ armed.ticks \in Nat
           /\ dma \in BOOLEAN /\ copy.busy \in BOOLEAN
<1>1. /\ MaxClock \in Nat /\ Word \in Nat \ {0} /\ MaxClock + Word + 1 < Never /\ Never \in Nat
      /\ rate \in ClockRate /\ clock \in 0 .. MaxClock
    BY ClockAssumption, TableAssumption DEF ClockTypeOK, ClockRate
<1>2. /\ timer.deadline \in 0 .. Never - 1 /\ timer.period \in 0 .. Word - 1
      /\ timer.alarm \in 0 .. Word * Word - 1 /\ timer.low \in 0 .. Word - 1
    BY DEF ClockTypeOK
<1>3. armed.at \in 0 .. MaxClock /\ armed.ticks \in Nat /\ dma \in BOOLEAN /\ copy.busy \in BOOLEAN
    BY DEF ClockTypeOK
<1>4. timer.alarm \in Nat
    BY <1>2
<1> QED
    BY <1>1, <1>2, <1>3, <1>4

(* The cycles the devices expect, after a step that leaves the rate alone. *)
LEMMA ExpectedNext ==
    ASSUME rate' = rate
    PROVE  /\ CountdownCycle' = IF timer'.deadline = 0 THEN Never ELSE timer'.deadline
           /\ AlarmCycle' = IF timer'.alarm = 0 THEN Never ELSE CycleAtNanos(timer'.alarm)
BY DEF CountdownCycle, AlarmCycle, CycleAtNanos, AlarmSeconds, Part

(* A step that touches neither the table nor what its devices expect.      *)
LEMMA Quiet ==
    ASSUME TableTold, rate' = rate, table' = table, timer'.deadline = timer.deadline,
           timer'.alarm = timer.alarm, dma' = dma, copy'.busy = copy.busy
    PROVE  TableTold'
<1>1. CountdownCycle' = CountdownCycle /\ AlarmCycle' = AlarmCycle
    BY ExpectedNext DEF CountdownCycle, AlarmCycle
<1>2. Good(table') /\ Told(EventsIn(table'.events), CountdownCycle', AlarmCycle', dma', copy'.busy)
    BY <1>1 DEF TableTold, Events
<1> QED
    BY <1>2 DEF TableTold, Events

(* The event that is due: one of those the devices wait for.               *)
LEMMA DueNow ==
    ASSUME CInv, Due
    PROVE  /\ Next1 \in Events /\ Next1.cycle \in 0 .. clock /\ <<Next1.device, Next1.tag>> \in Keys
           /\ Good(WithoutEarliest(table))
           /\ EventsIn(WithoutEarliest(table).events) = Dropped(Events, Next1.device, Next1.tag)
<1>1. /\ Good(table) /\ \A e \in EventsIn(table.events) : <<e.device, e.tag>> \in Keys
    BY DEF CInv, TableTold, Told, Events
<1>2. table.next \in 0 .. clock /\ table.next < Never
    BY <1>1, GoodTable, Ranges DEF CInv, Due
<1> QED
    BY <1>1, <1>2, ServiceTold DEF Next1, Events

(* A countdown went off: it is over, or set on the end of the next period. *)
LEMMA CountdownKept ==
    ASSUME CInv, CountdownEvent, rate' = rate
    PROVE  CInv'
<1> DEFINE t0 == WithoutEarliest(table)
           now == Next1.cycle
           later == Rearm(now)
<1>1. /\ Next1 \in Events /\ now \in 0 .. clock /\ Good(t0)
      /\ EventsIn(t0.events) = Dropped(Events, Timer, Countdown)
      /\ phase' = "service" /\ clock' = clock /\ sleeping' = sleeping /\ dma' = dma /\ copy' = copy
    BY DueNow DEF CountdownEvent, Due
<1>2. Told(Events, CountdownCycle, AlarmCycle, dma, copy.busy)
    BY DEF CInv, TableTold
<1>3. timer.deadline # 0 /\ now = timer.deadline
    <2>1. Holds(Events, Timer, Countdown)
        BY <1>1 DEF Holds, CountdownEvent
    <2>2. CountdownCycle # Never /\ now = CountdownCycle
        BY <1>1, <1>2, <2>1 DEF Told, OnCycle, CountdownEvent
    <2> QED
        BY <2>2 DEF CountdownCycle
<1> HIDE DEF now, t0
<1>4. later \in 0 .. Never - 1
    BY <1>1, Ranges DEF CInv, Rearm
<1>5. /\ timer' = [timer EXCEPT !.deadline = later] /\ raised' = TRUE
      /\ table' = SyncCountdown(t0, timer'.deadline) /\ armed' = [armed EXCEPT !.ticks = @ + 1]
    BY <1>3 DEF CountdownEvent, now, t0
<1> HIDE DEF later
<1>6. /\ timer'.deadline = later /\ timer'.alarm = timer.alarm /\ timer'.period = timer.period
      /\ armed'.at = armed.at /\ armed'.ticks = armed.ticks + 1
    BY <1>5 DEF CInv, ClockTypeOK
<1>7. TableTold'
    <2>1. \A e \in EventsIn(t0.events) : <<e.device, e.tag>> \in Keys
        BY <1>1, <1>2 DEF Told, Dropped
    <2>2. /\ Good(table')
          /\ EventsIn(table'.events) = IF later # 0 THEN Moved(EventsIn(t0.events), Timer, Countdown, later)
                                       ELSE Dropped(EventsIn(t0.events), Timer, Countdown)
        BY <1>1, <1>4, <1>5, <1>6, <2>1, SyncCountdownTold
    <2>3. Told(EventsIn(t0.events), Never, AlarmCycle, dma, copy.busy)
        BY <1>1, <1>2, <1>4, ToldAgain
    <2>4. Told(EventsIn(table'.events), IF later = 0 THEN Never ELSE later, AlarmCycle, dma, copy.busy)
        BY <1>4, <2>2, <2>3, ToldAgain
    <2>5. CountdownCycle' = (IF later = 0 THEN Never ELSE later) /\ AlarmCycle' = AlarmCycle
        BY <1>6, ExpectedNext DEF AlarmCycle
    <2> QED
        BY <1>1, <2>2, <2>4, <2>5 DEF TableTold, Events
<1>8. ClockTypeOK'
    <2>1. table' \in Table
        BY <1>7 DEF TableTold, Good
    <2>2. /\ timer' \in [deadline : 0 .. Never - 1, periodic : BOOLEAN, period : 0 .. Word - 1,
                         alarm : 0 .. Word * Word - 1, low : 0 .. Word - 1]
          /\ armed' \in [at : 0 .. MaxClock, ticks : Nat]
        BY <1>4, <1>5 DEF CInv, ClockTypeOK
    <2> QED
        BY <1>1, <1>5, <2>1, <2>2 DEF CInv, ClockTypeOK
<1>9. Armed'
    <2> DEFINE p == timer.period
               q == armed.ticks
               a == armed.at
    <2>1. p \in Nat /\ q \in Nat /\ a \in Nat /\ now \in Nat /\ clock \in Nat
        BY <1>1, Ranges DEF CInv
    <2>2. now = a + (q + 1) * p /\ now <= clock
        BY <1>1, <1>3, Ranges DEF CInv, Armed
    <2>3. later # 0 => p > 0 /\ later = now + p
        BY <2>1 DEF later, Rearm, now
    <2>4. (q + 1 + 1) * p = (q + 1) * p + p /\ (q + 1) * p \in Nat
        BY <2>1
    <2>5. later # 0 => p > 0 /\ later = a + (q + 1 + 1) * p /\ a + (q + 1) * p <= clock
        <3> HIDE DEF p, q, a
        <3> QED
            BY <2>1, <2>2, <2>3, <2>4
    <2> QED
        BY <1>1, <1>6, <2>5 DEF Armed
<1> QED
    BY <1>1, <1>7, <1>8, <1>9 DEF CInv, NothingOverdue

(* The alarm's cycle came: it fires, or waits for the rest of its instant. *)
LEMMA AlarmKept ==
    ASSUME CInv, AlarmEvent, rate' = rate
    PROVE  CInv'
<1> DEFINE t0 == WithoutEarliest(table)
           due == AlarmDue(timer.alarm, clock)
<1>1. /\ Next1 \in Events /\ Good(t0)
      /\ EventsIn(t0.events) = Dropped(Events, Timer, Alarm)
      /\ phase' = "service" /\ clock' = clock /\ sleeping' = sleeping /\ dma' = dma /\ copy' = copy
      /\ armed' = armed
    BY DueNow DEF AlarmEvent, Due
<1>2. Told(Events, CountdownCycle, AlarmCycle, dma, copy.busy)
    BY DEF CInv, TableTold
<1>3. timer.alarm # 0 /\ timer.alarm \in Nat
    <2>1. Holds(Events, Timer, Alarm)
        BY <1>1 DEF Holds, AlarmEvent
    <2>2. AlarmCycle # Never
        BY <1>2, <2>1 DEF Told, OnCycle
    <2> QED
        BY <2>2, Ranges DEF AlarmCycle, CInv
<1>4. /\ table' = SyncAlarm(t0, timer.alarm, clock)
      /\ due => raised' = TRUE /\ timer' = [timer EXCEPT !.alarm = 0]
      /\ ~due => raised' = raised /\ timer' = timer
    BY DEF AlarmEvent
<1> HIDE DEF t0, due
<1>5. /\ timer'.deadline = timer.deadline /\ timer'.period = timer.period
      /\ timer'.alarm = IF due THEN 0 ELSE timer.alarm
    BY <1>4 DEF CInv, ClockTypeOK
<1>6. TableTold'
    <2> DEFINE c == CycleAtNanos(timer.alarm)
    <2>0. c \in 0 .. Never - 1 /\ 0 \in 0 .. Never - 1
        BY <1>3, InstantsHaveCycles, Ranges DEF CInv
    <2>1. \A e \in EventsIn(t0.events) : <<e.device, e.tag>> \in Keys
        BY <1>1, <1>2 DEF Told, Dropped
    <2>2. /\ Good(table')
          /\ EventsIn(table'.events) = IF due THEN Dropped(EventsIn(t0.events), Timer, Alarm)
                                       ELSE Moved(EventsIn(t0.events), Timer, Alarm, c)
        BY <1>1, <1>3, <1>4, <2>1, SyncAlarmTold, Ranges DEF CInv, due
    <2>3. Told(EventsIn(t0.events), CountdownCycle, Never, dma, copy.busy)
        BY <1>1, <1>2, <2>0, ToldAgain
    <2>4. Told(EventsIn(table'.events), CountdownCycle, IF due THEN Never ELSE c, dma, copy.busy)
        <3> HIDE DEF c
        <3> QED
            BY <2>0, <2>2, <2>3, ToldAgain
    <2>5. CountdownCycle' = CountdownCycle /\ AlarmCycle' = IF due THEN Never ELSE c
        BY <1>3, <1>5, ExpectedNext DEF CountdownCycle
    <2> QED
        BY <1>1, <2>2, <2>4, <2>5 DEF TableTold, Events
<1>7. ClockTypeOK'
    <2>1. table' \in Table
        BY <1>6 DEF TableTold, Good
    <2>2. timer' \in [deadline : 0 .. Never - 1, periodic : BOOLEAN, period : 0 .. Word - 1,
                      alarm : 0 .. Word * Word - 1, low : 0 .. Word - 1]
        <3>1. 0 \in 0 .. Word * Word - 1
            BY Ranges DEF CInv
        <3> QED
            BY <1>4, <3>1 DEF CInv, ClockTypeOK
    <2>3. raised' \in BOOLEAN
        BY <1>4 DEF CInv, ClockTypeOK
    <2> QED
        BY <1>1, <2>1, <2>2, <2>3 DEF CInv, ClockTypeOK
<1>8. Armed'
    BY <1>1, <1>5 DEF Armed, CInv
<1> QED
    BY <1>1, <1>6, <1>7, <1>8 DEF CInv, NothingOverdue

(* A transfer or a copy is over.                                           *)
LEMMA TransferKept ==
    ASSUME CInv, DmaEvent \/ CopyEvent, rate' = rate
    PROVE  CInv'
<1>1. /\ Due /\ table' = WithoutEarliest(table) /\ timer' = timer /\ armed' = armed
      /\ phase' = phase /\ clock' = clock /\ sleeping' = sleeping
    BY DEF DmaEvent, CopyEvent
<1>2. /\ Good(table') /\ EventsIn(table'.events) = Dropped(Events, Next1.device, Next1.tag)
      /\ <<Next1.device, Next1.tag>> \in Keys
    BY <1>1, DueNow
<1>3. Told(Events, CountdownCycle, AlarmCycle, dma, copy.busy) /\ ClockTypeOK
    BY DEF CInv, TableTold
<1>4. CountdownCycle' = CountdownCycle /\ AlarmCycle' = AlarmCycle
    BY <1>1, ExpectedNext DEF CountdownCycle, AlarmCycle
<1>5. Told(EventsIn(table'.events), CountdownCycle, AlarmCycle, dma', copy'.busy)
    <2>0. 0 \in 0 .. Never - 1
        BY DeviceNames
    <2>1. CASE DmaEvent
        <3>1. Next1.device = Dma /\ Next1.tag = 0
            BY <1>2, <2>1, DeviceNames DEF Keys, DmaEvent
        <3>2. dma' = FALSE /\ copy' = copy
            BY <2>1 DEF DmaEvent
        <3> QED
            BY <1>2, <1>3, <2>0, <3>1, <3>2, ToldAgain
    <2>2. CASE CopyEvent
        <3>1. Next1.device = Gpu /\ Next1.tag = 0
            BY <1>2, <2>2, DeviceNames DEF Keys, CopyEvent
        <3>2. dma' = dma /\ copy'.busy = FALSE
            BY <1>3, <2>2 DEF CopyEvent, ClockTypeOK
        <3> QED
            BY <1>2, <1>3, <2>0, <3>1, <3>2, ToldAgain
    <2> QED
        BY <2>1, <2>2
<1>6. TableTold'
    BY <1>2, <1>4, <1>5 DEF TableTold, Events
<1>7. ClockTypeOK'
    <2>1. table' \in Table
        BY <1>2 DEF Good
    <2>2. dma' \in BOOLEAN /\ copy' \in [request : Requests, busy : BOOLEAN] /\ raised' \in BOOLEAN
        <3>1. CASE DmaEvent
            <4>1. (raised \/ dma) \in BOOLEAN
                OBVIOUS
            <4> QED
                BY <1>3, <3>1, <4>1 DEF DmaEvent, ClockTypeOK
        <3>2. CASE CopyEvent
            BY <1>3, <3>2 DEF CopyEvent, ClockTypeOK
        <3> QED
            BY <3>1, <3>2
    <2> QED
        BY <1>1, <1>3, <2>1, <2>2 DEF ClockTypeOK
<1>8. Armed'
    BY <1>1 DEF Armed, CInv
<1>9. NothingOverdue'
    BY <1>1 DEF Due, NothingOverdue
<1> QED
    BY <1>6, <1>7, <1>8, <1>9 DEF CInv

(* A countdown left alone keeps its end while the clock goes on.           *)
LEMMA ArmedStays ==
    ASSUME CInv, clock' \in 0 .. MaxClock, clock' >= clock,
           timer'.deadline = timer.deadline, timer'.period = timer.period, armed' = armed
    PROVE  Armed'
<1> DEFINE x == armed.ticks * timer.period
           y == (armed.ticks + 1) * timer.period
<1>1. /\ timer.period \in Nat /\ armed.ticks \in Nat /\ armed.at \in Nat
      /\ clock \in Nat /\ clock' \in Nat
    BY Ranges DEF CInv
<1>2. x \in Nat
    BY <1>1
<1>3. timer.deadline # 0 => timer.period > 0 /\ timer.deadline = armed.at + y /\ armed.at + x <= clock
    BY DEF CInv, Armed
<1> HIDE DEF x, y
<1>4. timer.deadline # 0 => timer.period > 0 /\ timer.deadline = armed.at + y /\ armed.at + x <= clock'
    BY <1>1, <1>2, <1>3
<1> QED
    BY <1>4 DEF Armed, x, y

(* The service is over, or the machine sleeps: the clock may go on to the  *)
(* next event, and nothing else happens.                                   *)
LEMMA WaitKept ==
    ASSUME CInv, Serviced \/ WakeUpCpu \/ Jump \/ HostRaises, rate' = rate
    PROVE  CInv'
<1>1. table' = table /\ timer' = timer /\ dma' = dma /\ copy' = copy /\ armed' = armed
    BY DEF Serviced, WakeUpCpu, Jump, HostRaises
<1>2. TableTold'
    BY <1>1, Quiet DEF CInv
<1>3. Good(table) /\ table.next \in 0 .. Never
    BY GoodTable DEF CInv, TableTold
<1>4. clock' \in 0 .. MaxClock /\ clock' >= clock
    BY <1>3, Ranges DEF CInv, Serviced, WakeUpCpu, Jump, HostRaises
<1>5. ClockTypeOK'
    BY <1>1, <1>4 DEF CInv, ClockTypeOK, Serviced, WakeUpCpu, Jump, HostRaises
<1>6. NothingOverdue'
    <2>1. CASE Serviced
        <3>1. table.next > clock /\ clock' = clock
            BY <2>1 DEF Serviced
        <3>2. \A e \in EventsIn(table.events) : table.next <= e.cycle /\ e.cycle \in Nat
            BY <1>3, GoodTable, TableAssumption DEF Event
        <3>3. \A e \in EventsIn(table.events) : e.cycle > clock
            BY <1>3, <3>1, <3>2, Ranges DEF CInv
        <3> QED
            BY <1>1, <3>1, <3>3 DEF NothingOverdue, EventsIn
    <2>2. CASE WakeUpCpu \/ HostRaises
        BY <1>1, <2>2 DEF CInv, NothingOverdue, WakeUpCpu, HostRaises
    <2>3. CASE Jump
        BY <2>3 DEF NothingOverdue, Jump
    <2> QED
        BY <2>1, <2>2, <2>3
<1>7. Armed'
    BY <1>1, <1>4, ArmedStays
<1> QED
    BY <1>2, <1>5, <1>6, <1>7 DEF CInv

(* What an instruction does before it writes a register.                   *)
LEMMA Executes ==
    ASSUME CInv, NEW cost \in Costs, ExecuteFor(cost)
    PROVE  clock' \in 0 .. MaxClock /\ clock' >= clock /\ phase' = "service" /\ NothingOverdue'
<1>1. clock' \in 0 .. MaxClock /\ clock' >= clock /\ phase' = "service"
    BY Ranges, ClockAssumption DEF CInv, ExecuteFor
<1> QED
    BY <1>1 DEF NothingOverdue

(* An instruction that is nothing to the table.                            *)
LEMMA OtherKept ==
    ASSUME CInv, NEW cost \in Costs, rate' = rate,
           \/ Other(cost) \/ HaltFor(cost) \/ WriteCopyRegisters(cost)
           \/ \E p \in BOOLEAN : WriteCountdownControl(cost, p)
           \/ \E v \in 0 .. Word - 1 : WriteAlarmLow(cost, v)
    PROVE  CInv'
<1>1. ExecuteFor(cost) /\ table' = table /\ dma' = dma /\ armed' = armed
    BY DEF Other, HaltFor, WriteCopyRegisters, WriteCountdownControl, WriteAlarmLow
<1>2. clock' \in 0 .. MaxClock /\ clock' >= clock /\ phase' = "service" /\ NothingOverdue'
    BY <1>1, Executes
<1>3. ClockTypeOK
    BY DEF CInv
<1>4. /\ timer' \in [deadline : 0 .. Never - 1, periodic : BOOLEAN, period : 0 .. Word - 1,
                     alarm : 0 .. Word * Word - 1, low : 0 .. Word - 1]
      /\ timer'.deadline = timer.deadline /\ timer'.period = timer.period /\ timer'.alarm = timer.alarm
    BY <1>3 DEF Other, HaltFor, WriteCopyRegisters, WriteCountdownControl, WriteAlarmLow, ClockTypeOK
<1>5. copy' \in [request : Requests, busy : BOOLEAN] /\ copy'.busy = copy.busy
    BY <1>3 DEF Other, HaltFor, WriteCopyRegisters, WriteCountdownControl, WriteAlarmLow, ClockTypeOK
<1>6. sleeping' \in BOOLEAN /\ raised' \in BOOLEAN
    BY <1>3 DEF Other, HaltFor, WriteCopyRegisters, WriteCountdownControl, WriteAlarmLow, ClockTypeOK
<1>7. TableTold'
    BY <1>1, <1>4, <1>5, Quiet DEF CInv
<1>8. ClockTypeOK'
    BY <1>1, <1>2, <1>3, <1>4, <1>5, <1>6 DEF ClockTypeOK
<1>9. Armed'
    BY <1>1, <1>2, <1>4, ArmedStays
<1> QED
    BY <1>2, <1>7, <1>8, <1>9 DEF CInv

(* The countdown's register is written.                                    *)
LEMMA WriteCountdownKept ==
    ASSUME CInv, NEW cost \in Costs, NEW value \in 0 .. Word - 1, WriteCountdown(cost, value), rate' = rate
    PROVE  CInv'
<1> DEFINE until == IF value # 0 THEN clock' + value ELSE 0
<1>1. /\ clock' \in 0 .. MaxClock /\ clock' >= clock /\ phase' = "service" /\ NothingOverdue'
      /\ sleeping' = sleeping /\ raised' = raised /\ dma' = dma /\ copy' = copy
      /\ armed' = [at |-> clock', ticks |-> 0]
    BY Executes DEF WriteCountdown
<1>2. until \in 0 .. Never - 1
    <2>1. clock' \in Nat /\ value \in Nat /\ clock' <= MaxClock /\ value <= Word - 1
        BY <1>1, Ranges DEF CInv
    <2>2. /\ MaxClock \in Nat /\ Word \in Nat /\ Never \in Nat /\ MaxClock + Word + 1 < Never
        BY Ranges DEF CInv
    <2>3. CASE value = 0
        BY <2>2, <2>3
    <2>4. CASE value # 0
        <3> DEFINE c == clock'
        <3>1. c \in Nat /\ c <= MaxClock
            BY <2>1
        <3> HIDE DEF c
        <3>2. c + value \in 0 .. Never - 1
            BY <2>1, <2>2, <3>1
        <3> QED
            BY <2>4, <3>2 DEF c
    <2> QED
        BY <2>3, <2>4
<1>3. /\ timer' = [timer EXCEPT !.period = value, !.deadline = until]
      /\ table' = SyncCountdown(table, timer'.deadline)
    BY DEF WriteCountdown
<1> HIDE DEF until
<1>4. timer'.deadline = until /\ timer'.alarm = timer.alarm /\ timer'.period = value
    BY <1>3 DEF CInv, ClockTypeOK
<1>5. TableTold'
    <2>1. /\ Good(table) /\ Told(Events, CountdownCycle, AlarmCycle, dma, copy.busy)
          /\ \A e \in EventsIn(table.events) : <<e.device, e.tag>> \in Keys
        BY DEF CInv, TableTold, Told, Events
    <2>2. /\ Good(table')
          /\ EventsIn(table'.events) = IF until # 0 THEN Moved(Events, Timer, Countdown, until)
                                       ELSE Dropped(Events, Timer, Countdown)
        BY <1>2, <1>3, <1>4, <2>1, SyncCountdownTold DEF Events
    <2>3. Told(EventsIn(table'.events), IF until = 0 THEN Never ELSE until, AlarmCycle, dma, copy.busy)
        BY <1>2, <2>1, <2>2, ToldAgain
    <2>4. CountdownCycle' = (IF until = 0 THEN Never ELSE until) /\ AlarmCycle' = AlarmCycle
        BY <1>4, ExpectedNext DEF AlarmCycle
    <2> QED
        BY <1>1, <2>2, <2>3, <2>4 DEF TableTold, Events
<1>6. ClockTypeOK'
    <2>1. table' \in Table
        BY <1>5 DEF TableTold, Good
    <2>2. timer' \in [deadline : 0 .. Never - 1, periodic : BOOLEAN, period : 0 .. Word - 1,
                      alarm : 0 .. Word * Word - 1, low : 0 .. Word - 1]
        BY <1>2, <1>3 DEF CInv, ClockTypeOK
    <2>3. armed' \in [at : 0 .. MaxClock, ticks : Nat]
        BY <1>1
    <2> QED
        BY <1>1, <2>1, <2>2, <2>3 DEF CInv, ClockTypeOK
<1>7. Armed'
    <2>1. armed'.at = clock' /\ armed'.ticks = 0
        BY <1>1
    <2>2. value \in Nat /\ clock' \in Nat
        BY <1>1, Ranges DEF CInv
    <2>3. CASE until = 0
        BY <1>4, <2>3 DEF Armed
    <2>4. CASE until # 0
        <3>1. value # 0 /\ until = clock' + value
            BY <2>4 DEF until
        <3>2. (0 + 1) * value = value /\ 0 * value = 0 /\ value > 0
            BY <2>2, <3>1
        <3>3. clock' + 0 * value <= clock' /\ clock' + value = clock' + (0 + 1) * value
            <4> DEFINE c == clock'
            <4>1. c \in Nat
                BY <2>2
            <4> HIDE DEF c
            <4>2. c + 0 * value <= c /\ c + value = c + (0 + 1) * value
                BY <3>2, <4>1
            <4> QED
                BY <4>2 DEF c
        <3>4. armed'.at + (armed'.ticks + 1) * timer'.period = clock' + (0 + 1) * value
            BY <1>4, <2>1
        <3>5. armed'.at + armed'.ticks * timer'.period = clock' + 0 * value
            BY <1>4, <2>1
        <3> QED
            BY <1>4, <3>1, <3>2, <3>3, <3>4, <3>5 DEF Armed
    <2> QED
        BY <2>3, <2>4
<1> QED
    BY <1>1, <1>5, <1>6, <1>7 DEF CInv

(* An instant of two words.                                                *)
LEMMA TwoWords ==
    ASSUME NEW high \in 0 .. Word - 1, NEW low \in 0 .. Word - 1, Word \in Nat \ {0}
    PROVE  high * Word + low \in 0 .. Word * Word - 1
<1>1. high \in Nat /\ low \in Nat /\ Word \in Nat /\ high + 1 <= Word /\ low <= Word - 1
    OBVIOUS
<1>2. (high + 1) * Word <= Word * Word /\ high * Word \in Nat /\ Word * Word \in Nat
    BY <1>1, Products
<1>3. (high + 1) * Word = high * Word + Word
    BY <1>1
<1> QED
    BY <1>1, <1>2, <1>3

(* The alarm's high word is written.                                       *)
LEMMA WriteAlarmKept ==
    ASSUME CInv, NEW cost \in Costs, NEW value \in 0 .. Word - 1, WriteAlarmHigh(cost, value), rate' = rate
    PROVE  CInv'
<1> DEFINE instant == value * Word + timer.low
           due == AlarmDue(instant, clock')
           c == CycleAtNanos(instant)
<1>1. /\ clock' \in 0 .. MaxClock /\ clock' >= clock /\ phase' = "service" /\ NothingOverdue'
      /\ sleeping' = sleeping /\ dma' = dma /\ copy' = copy /\ armed' = armed
    BY Executes DEF WriteAlarmHigh
<1>2. instant \in 0 .. Word * Word - 1 /\ instant \in Nat
    <2>1. instant \in 0 .. Word * Word - 1
        BY Ranges, TwoWords DEF CInv
    <2> HIDE DEF instant
    <2> QED
        BY <2>1
<1>3. c \in 0 .. Never - 1
    BY <1>2, InstantsHaveCycles, Ranges DEF CInv
<1>4. /\ timer' = [timer EXCEPT !.low = 0, !.alarm = IF due THEN 0 ELSE instant]
      /\ table' = SyncAlarm(table, instant, clock') /\ raised' = (raised \/ due)
    BY DEF WriteAlarmHigh
<1>5. (due => instant # 0) /\ SyncAlarm(table, instant, clock') =
        IF instant = 0 \/ due THEN Cancel(table, Timer, Alarm) ELSE Schedule(table, Timer, c, Alarm)
    BY DEF SyncAlarm, AlarmDue
<1> HIDE DEF instant, due, c
<1>6. /\ timer'.deadline = timer.deadline /\ timer'.period = timer.period
      /\ timer'.alarm = IF due THEN 0 ELSE instant
    BY <1>4 DEF CInv, ClockTypeOK
<1>7. TableTold'
    <2>1. /\ Good(table) /\ Told(Events, CountdownCycle, AlarmCycle, dma, copy.busy)
          /\ \A e \in EventsIn(table.events) : <<e.device, e.tag>> \in Keys
        BY DEF CInv, TableTold, Told, Events
    <2>2. /\ Good(table')
          /\ EventsIn(table'.events) = IF instant = 0 \/ due THEN Dropped(Events, Timer, Alarm)
                                       ELSE Moved(Events, Timer, Alarm, c)
        <3>1. <<Timer, Alarm>> \in Keys
            BY DEF Keys
        <3>2. CASE instant = 0 \/ due
            BY <1>4, <1>5, <2>1, <3>2, CancelTold, DeviceNames DEF Events
        <3>3. CASE ~(instant = 0 \/ due)
            BY <1>3, <1>4, <1>5, <2>1, <3>1, <3>3, ScheduleTold, DeviceNames DEF Events
        <3> QED
            BY <3>2, <3>3
    <2>3. Told(EventsIn(table'.events), CountdownCycle, IF instant = 0 \/ due THEN Never ELSE c, dma, copy.busy)
        BY <1>3, <2>1, <2>2, ToldAgain
    <2>4. CountdownCycle' = CountdownCycle /\ AlarmCycle' = IF instant = 0 \/ due THEN Never ELSE c
        BY <1>5, <1>6, ExpectedNext DEF CountdownCycle, c
    <2> QED
        BY <1>1, <2>2, <2>3, <2>4 DEF TableTold, Events
<1>8. ClockTypeOK'
    <2>1. table' \in Table
        BY <1>7 DEF TableTold, Good
    <2>2. timer' \in [deadline : 0 .. Never - 1, periodic : BOOLEAN, period : 0 .. Word - 1,
                      alarm : 0 .. Word * Word - 1, low : 0 .. Word - 1]
        <3> DEFINE set == IF due THEN 0 ELSE instant
        <3>1. 0 \in 0 .. Word - 1 /\ 0 \in 0 .. Word * Word - 1
            BY Ranges DEF CInv
        <3>2. set \in 0 .. Word * Word - 1 /\ timer' = [timer EXCEPT !.low = 0, !.alarm = set]
            BY <1>2, <1>4, <3>1
        <3> HIDE DEF set
        <3> QED
            BY <3>1, <3>2 DEF CInv, ClockTypeOK
    <2>3. raised' \in BOOLEAN
        BY <1>4
    <2> QED
        BY <1>1, <2>1, <2>2, <2>3 DEF CInv, ClockTypeOK
<1>9. Armed'
    BY <1>1, <1>6, ArmedStays
<1> QED
    BY <1>1, <1>7, <1>8, <1>9 DEF CInv

(* A transfer is started, or put off.                                      *)
LEMMA StartTransferKept ==
    ASSUME CInv, NEW cost \in Costs, NEW length \in Lengths, StartTransfer(cost, length), rate' = rate
    PROVE  CInv'
<1> DEFINE c == clock' + CyclesFor(length)
<1>1. /\ clock' \in 0 .. MaxClock /\ clock' >= clock /\ phase' = "service" /\ NothingOverdue'
      /\ sleeping' = sleeping /\ raised' = raised /\ dma' = TRUE /\ copy' = copy /\ timer' = timer
      /\ armed' = armed
    BY Executes DEF StartTransfer
<1>2. c \in 0 .. Never - 1
    <2> DEFINE now == clock'
               took == CyclesFor(length)
    <2>1. now \in Nat /\ now <= MaxClock /\ MaxClock \in Nat /\ Never \in Nat
        BY <1>1, Ranges DEF CInv
    <2>2. took \in Nat
        <3>1. length \in Nat
            BY CopyAssumption
        <3>2. length + 7 \in Nat /\ (length + 7) \div 8 \in Nat
            BY <3>1, Division
        <3> QED
            BY <3>2 DEF CyclesFor
    <2>3. MaxClock + took < Never
        BY TransferAssumption
    <2> HIDE DEF now, took
    <2>4. now + took \in 0 .. Never - 1
        BY <2>1, <2>2, <2>3
    <2> QED
        BY <2>4 DEF now, took
<1>3. table' = Schedule(table, Dma, c, 0)
    BY DEF StartTransfer
<1> HIDE DEF c
<1>4. TableTold'
    <2>1. /\ Good(table) /\ Told(Events, CountdownCycle, AlarmCycle, dma, copy.busy)
          /\ \A e \in EventsIn(table.events) : <<e.device, e.tag>> \in Keys
        BY DEF CInv, TableTold, Told, Events
    <2>2. Good(table') /\ EventsIn(table'.events) = Moved(Events, Dma, 0, c)
        <3>1. <<Dma, 0>> \in Keys
            BY DEF Keys
        <3> QED
            BY <1>2, <1>3, <2>1, <3>1, ScheduleTold, DeviceNames DEF Events
    <2>3. Told(EventsIn(table'.events), CountdownCycle, AlarmCycle, TRUE, copy.busy)
        BY <1>2, <2>1, <2>2, ToldAgain
    <2>4. CountdownCycle' = CountdownCycle /\ AlarmCycle' = AlarmCycle
        BY <1>1, ExpectedNext DEF CountdownCycle, AlarmCycle
    <2> QED
        BY <1>1, <2>2, <2>3, <2>4 DEF TableTold, Events
<1>5. ClockTypeOK'
    <2>1. table' \in Table
        BY <1>4 DEF TableTold, Good
    <2> QED
        BY <1>1, <2>1 DEF CInv, ClockTypeOK
<1>6. Armed'
    BY <1>1, ArmedStays
<1> QED
    BY <1>1, <1>4, <1>5, <1>6 DEF CInv

(* The copy engine is given a command.                                     *)
LEMMA CopyCommandKept ==
    ASSUME CInv, NEW cost \in Costs, CopyCommand(cost), rate' = rate
    PROVE  CInv'
<1>1. /\ clock' \in 0 .. MaxClock /\ clock' >= clock /\ phase' = "service" /\ NothingOverdue'
      /\ sleeping' = sleeping /\ dma' = dma /\ timer' = timer /\ armed' = armed
    BY Executes DEF CopyCommand
<1>2. ClockTypeOK
    BY DEF CInv
<1>3. CountdownCycle' = CountdownCycle /\ AlarmCycle' = AlarmCycle
    BY <1>1, ExpectedNext DEF CountdownCycle, AlarmCycle
<1>4. TableTold' /\ copy' \in [request : Requests, busy : BOOLEAN] /\ raised' \in BOOLEAN
    <2>1. CASE copy.busy \/ copy.request \notin Backed
        <3>1. copy' = copy /\ table' = table /\ raised' \in BOOLEAN
            BY <1>2, <2>1 DEF CopyCommand, ClockTypeOK
        <3> QED
            BY <1>1, <1>2, <3>1, Quiet DEF CInv, ClockTypeOK
    <2>2. CASE ~(copy.busy \/ copy.request \notin Backed)
        <3> DEFINE c == clock' + CopyCycles
        <3>1. /\ copy' = [copy EXCEPT !.busy = TRUE] /\ raised' = raised
              /\ table' = Schedule(table, Gpu, c, 0)
            BY <2>2 DEF CopyCommand
        <3>2. c \in 0 .. Never - 1
            <4> DEFINE now == clock'
            <4>1. now \in Nat /\ now <= MaxClock /\ MaxClock \in Nat /\ Never \in Nat /\ MaxClock + 2 < Never
                BY <1>1, Ranges DEF CInv
            <4> HIDE DEF now
            <4>2. now + 2 \in 0 .. Never - 1
                BY <4>1
            <4> QED
                BY <4>2 DEF CopyCycles, now
        <3> HIDE DEF c
        <3>3. copy' \in [request : Requests, busy : BOOLEAN] /\ copy'.busy = TRUE
            BY <1>2, <3>1 DEF ClockTypeOK
        <3>4. /\ Good(table) /\ Told(Events, CountdownCycle, AlarmCycle, dma, copy.busy)
              /\ \A e \in EventsIn(table.events) : <<e.device, e.tag>> \in Keys
            BY DEF CInv, TableTold, Told, Events
        <3>5. Good(table') /\ EventsIn(table'.events) = Moved(Events, Gpu, 0, c)
            <4>1. <<Gpu, 0>> \in Keys
                BY DEF Keys
            <4> QED
                BY <3>1, <3>2, <3>4, <4>1, ScheduleTold, DeviceNames DEF Events
        <3>6. Told(EventsIn(table'.events), CountdownCycle, AlarmCycle, dma, TRUE)
            BY <3>2, <3>4, <3>5, ToldAgain
        <3>7. TableTold'
            BY <1>1, <1>3, <3>3, <3>5, <3>6 DEF TableTold, Events
        <3> QED
            BY <1>2, <3>1, <3>3, <3>7 DEF ClockTypeOK
    <2> QED
        BY <2>1, <2>2
<1>5. ClockTypeOK'
    <2>1. table' \in Table
        BY <1>4 DEF TableTold, Good
    <2> QED
        BY <1>1, <1>2, <1>4, <2>1 DEF ClockTypeOK
<1>6. Armed'
    BY <1>1, ArmedStays
<1> QED
    BY <1>1, <1>4, <1>5, <1>6 DEF CInv

(* No event, and no device that waits for one.                             *)
LEMMA NothingToTell ==
    Told({}, Never, Never, FALSE, FALSE)
BY DEF Told, OnCycle, Holds

(* The machine starts over: whoever had an event has none.                 *)
LEMMA RestartKept ==
    ASSUME CInv, Restart, rate' = rate
    PROVE  CInv'
<1> DEFINE t1 == CancelAll(table, Timer)
           t2 == Cancel(t1, Dma, 0)
<1>1. /\ clock' = 0 /\ phase' = "service" /\ raised' = FALSE /\ dma' = FALSE /\ sleeping' = sleeping
      /\ timer' = [deadline |-> 0, periodic |-> FALSE, period |-> 0, alarm |-> 0, low |-> 0]
      /\ armed' = [at |-> 0, ticks |-> 0] /\ copy' \in [request : Requests, busy : BOOLEAN]
      /\ copy'.busy = FALSE /\ table' = Cancel(t2, Gpu, 0)
    BY DEF Restart
<1>2. /\ Good(table) /\ \A e \in Events : <<e.device, e.tag>> \in Keys
    BY DEF CInv, TableTold, Told
<1>3. Good(t1) /\ EventsIn(t1.events) = {e \in Events : e.device # Timer}
    BY <1>2, CancelAllFacts DEF Events
<1> HIDE DEF t1
<1>4. Good(t2) /\ EventsIn(t2.events) = Dropped(EventsIn(t1.events), Dma, 0)
    BY <1>3, CancelTold, DeviceNames
<1> HIDE DEF t2
<1>5. Good(table') /\ EventsIn(table'.events) = Dropped(EventsIn(t2.events), Gpu, 0)
    BY <1>1, <1>4, CancelTold, DeviceNames
<1>6. EventsIn(table'.events) = {}
    <2>1. \A e \in Events : \/ e.device = Timer
                            \/ e.device = Dma /\ e.tag = 0
                            \/ e.device = Gpu /\ e.tag = 0
        BY <1>2 DEF Keys
    <2> QED
        BY <1>3, <1>4, <1>5, <2>1 DEF Dropped
<1>7. CountdownCycle' = Never /\ AlarmCycle' = Never
    BY <1>1, ExpectedNext
<1>8. TableTold'
    BY <1>1, <1>5, <1>6, <1>7, NothingToTell DEF TableTold, Events
<1>9. ClockTypeOK'
    <2>1. table' \in Table
        BY <1>5 DEF Good
    <2>2. /\ 0 \in 0 .. Never - 1 /\ 0 \in 0 .. Word - 1 /\ 0 \in 0 .. Word * Word - 1 /\ 0 \in 0 .. MaxClock
        BY Ranges DEF CInv
    <2>3. /\ timer' \in [deadline : 0 .. Never - 1, periodic : BOOLEAN, period : 0 .. Word - 1,
                         alarm : 0 .. Word * Word - 1, low : 0 .. Word - 1]
          /\ armed' \in [at : 0 .. MaxClock, ticks : Nat]
        BY <1>1, <2>2
    <2> QED
        BY <1>1, <2>1, <2>2, <2>3 DEF CInv, ClockTypeOK
<1>10. Armed' /\ NothingOverdue'
    BY <1>1 DEF Armed, NothingOverdue
<1> QED
    BY <1>8, <1>9, <1>10 DEF CInv

(* Nothing is set when the machine is switched on.                         *)
LEMMA ClockStarts ==
    ASSUME ClockInit
    PROVE  CInv
<1>1. Good(EmptyTable) /\ EventsIn(EmptyTable.events) = {}
    <2>1. <<>> \in Seq(Event) /\ OneEach(<<>>) /\ EventsIn(<<>>) = {}
        BY DEF OneEach, EventsIn
    <2>2. RecomputeNext(<<>>) = Never
        BY <2>1, NextIsLeast
    <2>3. EmptyTable = Recomputed(<<>>)
        BY <2>2 DEF EmptyTable, Recomputed
    <2> QED
        BY <2>1, <2>3, RecomputedIsGood
<1>2. /\ rate \in Rates /\ clock = 0 /\ table = EmptyTable /\ phase = "service" /\ sleeping = FALSE /\ raised = FALSE
      /\ timer = [deadline |-> 0, periodic |-> FALSE, period |-> 0, alarm |-> 0, low |-> 0]
      /\ dma = FALSE /\ copy \in [request : Requests, busy : {FALSE}] /\ armed = [at |-> 0, ticks |-> 0]
    BY DEF ClockInit, ClockAt
<1>3. TableTold
    <2>1. CountdownCycle = Never /\ AlarmCycle = Never /\ copy.busy = FALSE
        BY <1>2 DEF CountdownCycle, AlarmCycle
    <2> QED
        BY <1>1, <1>2, <2>1, NothingToTell DEF TableTold, Events
<1>4. ClockTypeOK
    <2>1. /\ 0 \in 0 .. Never - 1 /\ 0 \in 0 .. Word - 1 /\ 0 \in 0 .. Word * Word - 1 /\ 0 \in 0 .. MaxClock
        BY ClockAssumption, TableAssumption
    <2>2. /\ timer \in [deadline : 0 .. Never - 1, periodic : BOOLEAN, period : 0 .. Word - 1,
                        alarm : 0 .. Word * Word - 1, low : 0 .. Word - 1]
          /\ armed \in [at : 0 .. MaxClock, ticks : Nat]
        BY <1>2, <2>1
    <2> QED
        BY <1>1, <1>2, <2>1, <2>2 DEF ClockTypeOK, Good
<1> QED
    BY <1>2, <1>3, <1>4 DEF CInv, Armed, NothingOverdue

-----------------------------------------------------------------------------
(* The theorems.                                                           *)

(* Every step keeps the table and the devices in agreement                 *)
(* (scheduler.cpp, timer.cpp, dma.cpp, gpu.cpp).                           *)
THEOREM ClockInductive == ClockSpec => []CInv
<1>1. ClockInit => CInv
    BY ClockStarts
<1>2. CInv /\ [ClockNext]_clockVars => CInv'
    <2> SUFFICES ASSUME CInv, [ClockNext]_clockVars
                 PROVE  CInv'
        OBVIOUS
    <2>1. CASE UNCHANGED clockVars
        <3>1. /\ rate' = rate /\ clock' = clock /\ table' = table /\ phase' = phase /\ sleeping' = sleeping
              /\ raised' = raised /\ timer' = timer /\ dma' = dma /\ copy' = copy /\ armed' = armed
            BY <2>1 DEF clockVars
        <3>2. TableTold'
            BY <3>1, Quiet DEF CInv
        <3> QED
            BY <3>1, <3>2 DEF CInv, ClockTypeOK, NothingOverdue, Armed
    <2>2. CASE Service
        <3>1. rate' = rate /\ (CountdownEvent \/ AlarmEvent \/ DmaEvent \/ CopyEvent \/ Serviced)
            BY <2>2 DEF Service
        <3> QED
            BY <3>1, CountdownKept, AlarmKept, TransferKept, WaitKept
    <2>3. CASE (WakeUpCpu \/ Jump \/ HostRaises) /\ UNCHANGED rate
        BY <2>3, WaitKept
    <2>4. CASE Instruction /\ UNCHANGED rate
        <3>1. PICK cost \in Costs :
                \/ Other(cost) \/ HaltFor(cost) \/ WriteCopyRegisters(cost) \/ CopyCommand(cost)
                \/ \E n \in Lengths : StartTransfer(cost, n)
                \/ \E p \in BOOLEAN : WriteCountdownControl(cost, p)
                \/ \E v \in 0 .. Word - 1 :
                     WriteCountdown(cost, v) \/ WriteAlarmLow(cost, v) \/ WriteAlarmHigh(cost, v)
            BY <2>4 DEF Instruction
        <3>2. CASE CopyCommand(cost)
            BY <2>4, <3>2, CopyCommandKept
        <3>3. CASE \E n \in Lengths : StartTransfer(cost, n)
            BY <2>4, <3>3, StartTransferKept
        <3>4. CASE \E v \in 0 .. Word - 1 : WriteCountdown(cost, v)
            BY <2>4, <3>4, WriteCountdownKept
        <3>5. CASE \E v \in 0 .. Word - 1 : WriteAlarmHigh(cost, v)
            BY <2>4, <3>5, WriteAlarmKept
        <3>6. CASE \/ Other(cost) \/ HaltFor(cost) \/ WriteCopyRegisters(cost)
                   \/ \E p \in BOOLEAN : WriteCountdownControl(cost, p)
                   \/ \E v \in 0 .. Word - 1 : WriteAlarmLow(cost, v)
            BY <2>4, <3>6, OtherKept
        <3> QED
            BY <3>1, <3>2, <3>3, <3>4, <3>5, <3>6
    <2>5. CASE Restart /\ UNCHANGED rate
        BY <2>5, RestartKept
    <2> QED
        BY <2>1, <2>2, <2>3, <2>4, <2>5 DEF ClockNext
<1> QED
    BY <1>1, <1>2, PTL DEF ClockSpec

(* What the table says of an event the device waits for.                   *)
LEMMA CycleFound ==
    ASSUME NEW t, Good(t), NEW d \in Devices, NEW g \in Tags
    PROVE  /\ CycleOf(t, d, g) # Never <=> Holds(EventsIn(t.events), d, g)
           /\ \A c : OnCycle(EventsIn(t.events), d, g, c) => CycleOf(t, d, g) = c
<1>1. CASE Places(t, d, g) = {}
    BY <1>1, PlacesFacts DEF CycleOf, Holds, OnCycle
<1>2. CASE Places(t, d, g) # {}
    <2> DEFINE i == CHOOSE j \in Places(t, d, g) : TRUE
    <2>1. i \in Places(t, d, g) /\ CycleOf(t, d, g) = t.events[i].cycle
        BY <1>2 DEF CycleOf
    <2> HIDE DEF i
    <2>2. t.events[i] \in EventsIn(t.events) /\ t.events[i].device = d /\ t.events[i].tag = g
        BY <2>1, PlacesFacts DEF EventsIn
    <2>3. t.events[i].cycle # Never
        BY <2>2, GoodTable, TableAssumption DEF Event
    <2> QED
        BY <2>1, <2>2, <2>3 DEF Holds, OnCycle
<1> QED
    BY <1>1, <1>2

(* The scheduler's table and cached cycle are what the devices wait for,   *)
(* and nothing due is passed over (scheduler.cpp, timer.cpp, dma.cpp).     *)
THEOREM ClockKept == ClockSpec => []ClockIsKept
<1>1. CInv => ClockIsKept
    <2> SUFFICES ASSUME CInv
                 PROVE  ClockIsKept
        OBVIOUS
    <2>1. Good(table) /\ Told(Events, CountdownCycle, AlarmCycle, dma, copy.busy) /\ dma \in BOOLEAN /\ copy.busy \in BOOLEAN
        BY Ranges DEF CInv, TableTold
    <2>2. /\ CycleOf(table, Timer, Countdown) = CountdownCycle
          /\ CycleOf(table, Timer, Alarm) = AlarmCycle
          /\ CycleOf(table, Dma, 0) # Never <=> Holds(Events, Dma, 0)
          /\ CycleOf(table, Gpu, 0) # Never <=> Holds(Events, Gpu, 0)
        BY <2>1, CycleFound, DeviceNames DEF Told, Events
    <2>3. DevicesMatchTable
        <3>1. (dma = TRUE) <=> CycleOf(table, Dma, 0) # Never
            BY <2>1, <2>2 DEF Told
        <3>2. (copy.busy = TRUE) <=> CycleOf(table, Gpu, 0) # Never
            BY <2>1, <2>2 DEF Told
        <3>3. dma <=> CycleOf(table, Dma, 0) # Never
            BY <2>1, <3>1
        <3>4. copy.busy <=> CycleOf(table, Gpu, 0) # Never
            BY <2>1, <3>2
        <3> QED
            BY <2>2, <3>3, <3>4 DEF DevicesMatchTable, CountdownCycle, AlarmCycle
    <2>4. ClockTypeOK /\ TableConsistent /\ NothingOverdue
        BY <2>1 DEF CInv, TableConsistent, Good
    <2> QED
        BY <2>3, <2>4 DEF ClockIsKept
<1> QED
    BY <1>1, ClockInductive, PTL

(* A countdown goes off once for every period gone by, and no instruction  *)
(* runs when an alarm's instant is past (TimerDevice::onEvent,             *)
(* cycleAtNanos).                                                          *)
THEOREM TimersExact == ClockSpec => []TimersAreExact
<1>1. CInv => TimersAreExact
    <2> SUFFICES ASSUME CInv, phase = "look"
                 PROVE  /\ timer.deadline # 0 => armed.ticks = (clock - armed.at) \div timer.period
                        /\ timer.alarm # 0 => NanosAt(clock) < timer.alarm
        BY DEF TimersAreExact, PeriodNeverDrifts, AlarmOnTime
    <2>1. /\ Told(Events, CountdownCycle, AlarmCycle, dma, copy.busy)
          /\ \A e \in Events : e.cycle > clock
        BY DEF CInv, TableTold, NothingOverdue, Events, EventsIn
    <2>2. ASSUME timer.deadline # 0
          PROVE  armed.ticks = (clock - armed.at) \div timer.period
        <3> DEFINE p == timer.period
                   q == armed.ticks
                   a == armed.at
        <3>1. p \in Nat \ {0} /\ q \in Nat /\ a \in Nat /\ clock \in Nat
            BY <2>2, Ranges DEF CInv, Armed
        <3>2. timer.deadline > clock
            <4>1. CountdownCycle = timer.deadline /\ CountdownCycle # Never
                BY <2>2, Ranges DEF CInv, CountdownCycle
            <4>2. \E e \in Events : e.cycle = CountdownCycle
                BY <2>1, <4>1 DEF Told, OnCycle, Holds
            <4> QED
                BY <2>1, <4>1, <4>2
        <3>3. timer.deadline = a + (q + 1) * p /\ a + q * p <= clock
            BY <2>2 DEF CInv, Armed
        <3>4. q * p \in Nat /\ (q + 1) * p \in Nat
            BY <3>1
        <3> HIDE DEF p, q, a
        <3>5. clock - a \in Nat /\ q * p <= clock - a /\ clock - a < (q + 1) * p
            <4> DEFINE x == q * p
                       y == (q + 1) * p
            <4>1. x \in Nat /\ y \in Nat /\ a + x <= clock /\ clock < a + y
                BY <3>1, <3>2, <3>3, <3>4
            <4> HIDE DEF x, y
            <4>2. clock - a \in Nat /\ x <= clock - a /\ clock - a < y
                BY <3>1, <4>1
            <4> QED
                BY <4>2 DEF x, y
        <3>6. (clock - a) \div p = q
            BY <3>1, <3>5, WholePeriods
        <3> QED
            BY <3>6 DEF p, q, a
    <2>3. ASSUME timer.alarm # 0
          PROVE  NanosAt(clock) < timer.alarm
        <3>1. timer.alarm \in Nat /\ clock \in Nat /\ rate \in ClockRate
            BY Ranges DEF CInv
        <3>2. /\ CycleAtNanos(timer.alarm) \in 0 .. Never - 1
              /\ CycleAtNanos(timer.alarm) <= AlarmSeconds(timer.alarm) * rate.hz + Part(timer.alarm)
            BY <3>1, InstantsHaveCycles
        <3>3. clock < CycleAtNanos(timer.alarm)
            <4>1. AlarmCycle = CycleAtNanos(timer.alarm) /\ AlarmCycle # Never
                BY <2>3, <3>2, DeviceNames DEF AlarmCycle
            <4>2. \E e \in Events : e.cycle = AlarmCycle
                BY <2>1, <4>1 DEF Told, OnCycle, Holds
            <4> QED
                BY <2>1, <4>1, <4>2
        <3>4. AlarmSeconds(timer.alarm) * rate.hz + Part(timer.alarm) \in Int
            BY <3>1, InstantsHaveCycles
        <3>5. clock < AlarmSeconds(timer.alarm) * rate.hz + Part(timer.alarm)
            BY <3>1, <3>2, <3>3, <3>4
        <3> QED
            BY <3>1, <3>5, NotYet
    <2> QED
        BY <2>2, <2>3
<1> QED
    BY <1>1, ClockInductive, PTL

=============================================================================
