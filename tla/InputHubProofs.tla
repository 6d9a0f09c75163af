--------------------------- MODULE InputHubProofs ---------------------------
(***************************************************************************)
(* InputHub, for any programs, scripts, buffers and slices, and as many    *)
(* keystrokes as one likes: what the host types and presses reaches the    *)
(* program in the order it was posted, each keystroke once, or not at all  *)
(* only where the model says it is dropped, and the end comes last.        *)
(*                                                                         *)
(* The invariant says of every two places on the way that all of one comes *)
(* before all of the other, and of every place that it is in order.  Two   *)
(* of its parts are not in the property: what is typed ahead comes after   *)
(* everything else in the machine, whatever was dropped included, and a    *)
(* machine on raw keys has in its line only what lost its place.  Without  *)
(* the first a line could overtake what waits, without the second a raw    *)
(* key the line.                                                           *)
(*                                                                         *)
(* The order is proved first of pieces of sequences, then of the calls of  *)
(* the terminal, then of the steps of the machine, and last of the hub,    *)
(* where one lemma stands for each action.                                 *)
(*                                                                         *)
(* Last comes the replay.  A recorded run is a way from the fresh machine, *)
(* each point of which follows from the point before and the recording     *)
(* alone; slices, pacing and the host choose how fast it is gone, never    *)
(* where it leads.  The run draws the way to its end, and a replay is      *)
(* always at one of its points.                                            *)
(***************************************************************************)
EXTENDS InputHub, FiniteSetTheorems, WellFoundedInduction, TLAPS

-----------------------------------------------------------------------------
(* Orders of keystrokes.                                                    *)

(* Of the ids of two places on the way, and of those in one of them: every  *)
(* x is before every y, or one of them lost its place.                      *)
Before(left, X, Y) == \A x \in X, y \in Y : x < y \/ (x # y /\ {x, y} \cap left # {})
Sorted(left, s) ==
  \A i, j \in DOMAIN s : i < j /\ {s[i].id, s[j].id} \subseteq OfHost => Before(left, {s[i].id}, {s[j].id})

LEMMA IdsJoined ==
  ASSUME NEW T, NEW s \in Seq(T), NEW t \in Seq(T)
  PROVE  /\ HostIds(s \o t) = HostIds(s) \cup HostIds(t)
         /\ \A left : Sorted(left, s) /\ Sorted(left, t) /\ Before(left, HostIds(s), HostIds(t)) => Sorted(left, s \o t)
<1> DEFINE u == s \o t
<1>1. /\ u \in Seq(T) /\ Len(u) = Len(s) + Len(t) /\ Len(s) \in Nat /\ Len(t) \in Nat
      /\ \A i \in 1 .. Len(s) : u[i] = s[i]
      /\ \A i \in 1 .. Len(t) : u[Len(s) + i] = t[i]
  OBVIOUS
<1>2. DOMAIN u = 1 .. Len(u) /\ DOMAIN s = 1 .. Len(s) /\ DOMAIN t = 1 .. Len(t)
  BY <1>1
<1> HIDE DEF u
<1>3. \A i \in DOMAIN u : (i \in DOMAIN s /\ u[i] = s[i]) \/ (i - Len(s) \in DOMAIN t /\ i = Len(s) + (i - Len(s)) /\ u[i] = t[i - Len(s)])
  BY <1>1, <1>2
<1>4. \A i \in DOMAIN s : i \in DOMAIN u /\ u[i] = s[i]
  BY <1>1, <1>2
<1>5. \A i \in DOMAIN t : Len(s) + i \in DOMAIN u /\ u[Len(s) + i] = t[i]
  BY <1>1, <1>2
<1>6. HostIds(u) = HostIds(s) \cup HostIds(t)
  BY <1>3, <1>4, <1>5 DEF HostIds
<1>7. ASSUME NEW left, Sorted(left, s), Sorted(left, t), Before(left, HostIds(s), HostIds(t)) PROVE Sorted(left, u)
  <2> SUFFICES ASSUME NEW i \in DOMAIN u, NEW j \in DOMAIN u, i < j, {u[i].id, u[j].id} \subseteq OfHost
               PROVE  Before(left, {u[i].id}, {u[j].id})
    BY DEF Sorted
  <2>1. CASE i \in DOMAIN s /\ j \in DOMAIN s
    BY <1>4, <1>7, <2>1 DEF Sorted
  <2>2. CASE i \in DOMAIN s /\ j \notin DOMAIN s
    <3>1. u[i].id \in HostIds(s) /\ u[j].id \in HostIds(t)
      BY <1>3, <1>4, <2>2 DEF HostIds
    <3> QED
      BY <1>7, <3>1 DEF Before
  <2>3. CASE i \notin DOMAIN s
    <3>1. j \notin DOMAIN s
      BY <1>1, <1>2, <2>3
    <3>2. i - Len(s) \in DOMAIN t /\ j - Len(s) \in DOMAIN t /\ u[i] = t[i - Len(s)] /\ u[j] = t[j - Len(s)] /\ i - Len(s) < j - Len(s)
      BY <1>1, <1>2, <1>3, <2>3, <3>1
    <3> HIDE DEF Before
    <3> QED
      BY <1>7, <3>2 DEF Sorted
  <2> QED
    BY <2>1, <2>2, <2>3
<1> QED
  BY <1>6, <1>7 DEF u

LEMMA PartOf ==
  ASSUME NEW T, NEW s \in Seq(T), NEW m \in 1 .. Len(s) + 1, NEW n \in 0 .. Len(s)
  PROVE  /\ SubSeq(s, m, n) \in Seq(T) /\ HostIds(SubSeq(s, m, n)) \subseteq HostIds(s)
         /\ Len(SubSeq(s, m, n)) = IF m <= n THEN n - m + 1 ELSE 0
         /\ \A left : Sorted(left, s) => Sorted(left, SubSeq(s, m, n))
<1> DEFINE u == SubSeq(s, m, n)
<1>1. /\ u \in Seq(T) /\ Len(u) = (IF m <= n THEN n - m + 1 ELSE 0) /\ Len(s) \in Nat
      /\ \A i \in 1 .. Len(u) : u[i] = s[m + i - 1]
  OBVIOUS
<1> HIDE DEF u
<1>2. \A i \in DOMAIN u : m + i - 1 \in DOMAIN s /\ u[i] = s[m + i - 1] /\ i \in Nat
  BY <1>1
<1>3. \A i, j \in DOMAIN u : i < j => m + i - 1 < m + j - 1
  BY <1>2
<1>4. HostIds(u) \subseteq HostIds(s)
  BY <1>2 DEF HostIds
<1>5. \A left : Sorted(left, s) => Sorted(left, u)
  <2> HIDE DEF Before
  <2> QED
    BY <1>2, <1>3 DEF Sorted
<1> QED
  BY <1>1, <1>4, <1>5 DEF u

(* A sequence cut in two.                                                   *)
LEMMA CutInTwo ==
  ASSUME NEW ks \in Seq(Keystroke), NEW n \in Nat
  PROVE  /\ Take(ks, n) \in Seq(Keystroke) /\ Rest(ks, n) \in Seq(Keystroke) /\ Len(Take(ks, n)) <= n
         /\ HostIds(Take(ks, n)) \cup HostIds(Rest(ks, n)) = HostIds(ks)
         /\ IdsOf(ToSet(Rest(ks, n))) \cap OfHost = HostIds(Rest(ks, n)) /\ ToSet(Rest(ks, n)) \subseteq Keystroke
         /\ \A left : Sorted(left, ks) =>
              Sorted(left, Take(ks, n)) /\ Sorted(left, Rest(ks, n)) /\ Before(left, HostIds(Take(ks, n)), HostIds(Rest(ks, n)))
<1> DEFINE m == Shorter(n, Len(ks))
           a == Take(ks, n)
           r == Rest(ks, n)
<1>1. m \in 0 .. Len(ks) /\ m <= n /\ Len(ks) \in Nat /\ (m < Len(ks) => m = n)
  BY DEF Shorter
<1>2. a = SubSeq(ks, 1, m) /\ r = IF m < Len(ks) THEN SubSeq(ks, m + 1, Len(ks)) ELSE << >>
  <2>1. m >= Len(ks) => n >= Len(ks)
    BY DEF Shorter
  <2> QED
    BY <1>1, <2>1 DEF Take, Rest
<1> HIDE DEF m
<1>3. /\ a \in Seq(Keystroke) /\ Len(a) = m /\ \A i \in 1 .. m : a[i] = ks[i]
      /\ r \in Seq(Keystroke) /\ Len(r) = Len(ks) - m /\ \A i \in 1 .. Len(ks) - m : r[i] = ks[m + i]
  BY <1>1, <1>2
<1> HIDE DEF a, r
<1>4. /\ DOMAIN a = 1 .. m /\ DOMAIN r = 1 .. Len(ks) - m /\ DOMAIN ks = 1 .. Len(ks)
  BY <1>3
<1>5. \A i \in DOMAIN ks : (i \in DOMAIN a /\ a[i] = ks[i]) \/ (i - m \in DOMAIN r /\ r[i - m] = ks[i])
  BY <1>1, <1>3, <1>4
<1>6. (\A i \in DOMAIN a : i \in DOMAIN ks /\ a[i] = ks[i]) /\ \A i \in DOMAIN r : m + i \in DOMAIN ks /\ r[i] = ks[m + i]
  BY <1>1, <1>3, <1>4
<1>7. HostIds(a) \cup HostIds(r) = HostIds(ks)
  BY <1>5, <1>6 DEF HostIds
<1>8. IdsOf(ToSet(r)) \cap OfHost = HostIds(r) /\ ToSet(r) \subseteq Keystroke
  BY <1>3 DEF IdsOf, ToSet, HostIds
<1>9. ASSUME NEW left, Sorted(left, ks)
      PROVE  Sorted(left, a) /\ Sorted(left, r) /\ Before(left, HostIds(a), HostIds(r))
  <2>1. \A i \in DOMAIN a, j \in DOMAIN r : i < m + j
    BY <1>1, <1>4
  <2>2. \A i, j \in DOMAIN r : i < j => m + i < m + j
    BY <1>1, <1>4
  <2>3. Sorted(left, a) /\ Sorted(left, r)
    <3> HIDE DEF Before
    <3> QED
      BY <1>6, <1>9, <2>2 DEF Sorted
  <2>4. ASSUME NEW x \in HostIds(a), NEW y \in HostIds(r) PROVE Before(left, {x}, {y})
    <3>1. PICK i \in DOMAIN a, j \in DOMAIN r : x = a[i].id /\ y = r[j].id /\ {x, y} \subseteq OfHost
      BY <2>4 DEF HostIds
    <3>2. i < m + j
      BY <2>1
    <3> HIDE DEF Before
    <3> QED
      BY <1>6, <1>9, <3>1, <3>2 DEF Sorted
  <2> QED
    BY <2>3, <2>4 DEF Before
<1> QED
  BY <1>1, <1>3, <1>7, <1>8, <1>9 DEF a, r

-----------------------------------------------------------------------------
(* The machine and its terminal.                                            *)

BoxFields == {"program", "period", "op", "on", "again", "cycle", "due", "halted", "raised", "saw", "ring", "line", "ahead",
              "closing", "closed", "raw", "notify", "dropped", "cut", "left"}
BoxForm(b) == b = [x \in BoxFields |-> b[x]]
BoxType(b) ==
  /\ BoxForm(b) /\ b.program \in Seq(Operation) /\ b.period \in Nat /\ b.op \in Nat \ {0} /\ b.cycle \in Nat /\ b.due \in Nat
  /\ b.ring \in Seq(Keystroke) /\ Len(b.ring) <= Capacity
  /\ b.line \in Seq(Keystroke) /\ Len(b.line) <= MaxLine
  /\ b.ahead \in Seq(Keystroke) /\ b.saw \in Seq([cycle : Nat, id : Int])
  /\ b.dropped \in SUBSET Keystroke /\ b.cut \in SUBSET Keystroke /\ b.left \in SUBSET Keystroke
  /\ b.raw \in BOOLEAN /\ b.closed \in BOOLEAN /\ b.closing \in BOOLEAN

LostIn(b) == IdsOf(b.dropped \cup b.cut) \cap OfHost
(* What the host posted and a machine was given.                            *)
Given(b) == HostIds(b.saw) \cup HostIds(b.ring) \cup HostIds(b.line) \cup HostIds(b.ahead) \cup LostIn(b)

(* The order in a machine: each place holds what came before the next, and  *)
(* what is typed ahead comes last.  A line left for raw keys may be         *)
(* anywhere.                                                                *)
BoxOrder(b) ==
  LET l == IdsOf(b.left)
  IN  /\ Sorted(l, b.saw) /\ Sorted(l, b.ring) /\ Sorted(l, b.line) /\ Sorted({}, b.ahead)
      /\ Before(l, HostIds(b.saw), HostIds(b.ring)) /\ Before(l, HostIds(b.saw), HostIds(b.line))
      /\ Before(l, HostIds(b.ring), HostIds(b.line))
      /\ Before({}, Given(b) \ HostIds(b.ahead), HostIds(b.ahead))
      /\ LostIn(b) \cap (HostIds(b.saw) \cup HostIds(b.ring) \cup HostIds(b.line)) = {}
      /\ HostIds(b.ahead) \cap (HostIds(b.saw) \cup HostIds(b.ring) \cup HostIds(b.line) \cup LostIn(b)) = {}
      /\ b.raw = TRUE => HostIds(b.line) \subseteq l
(* Once the input is closed only the ring may hold something of the host's, *)
(* and nothing does once the program was told.                              *)
Told(s) == \E i \in DOMAIN s : s[i].id = EndOfInput
BoxEnd(b) ==
  /\ b.closed = TRUE => HostIds(b.line) = {} /\ HostIds(b.ahead) = {}
  /\ Told(b.saw) => b.closed = TRUE /\ HostIds(b.ring) = {}
BoxOK(b) == BoxType(b) /\ (~replaying => BoxOrder(b) /\ (ScriptKeepsOpen => BoxEnd(b)))

(* Keystrokes that may go behind the ring, before the line: those of the    *)
(* line itself, when it is submitted, and what comes behind it.             *)
Admits(b, ks) ==
  ~replaying =>
    LET l == IdsOf(b.left)
    IN  /\ Sorted(l, ks) /\ Before(l, HostIds(b.saw), HostIds(ks)) /\ Before(l, HostIds(b.ring), HostIds(ks))
        /\ Before(l, HostIds(ks), HostIds(b.line)) /\ Before({}, HostIds(ks), HostIds(b.ahead))
        /\ HostIds(ks) \cap (LostIn(b) \cup HostIds(b.ahead)) = {}
        /\ ScriptKeepsOpen /\ b.closed = TRUE => HostIds(ks) = {}
(* Nothing but these fields changes.                                        *)
Changes(b, c, fields) == BoxForm(c) /\ \A x \in BoxFields \ fields : c[x] = b[x]

LEMMA BeforeParts ==
  ASSUME NEW left, NEW X, NEW Y, NEW Z
  PROVE  /\ Before(left, X \cup Y, Z) <=> Before(left, X, Z) /\ Before(left, Y, Z)
         /\ Before(left, Z, X \cup Y) <=> Before(left, Z, X) /\ Before(left, Z, Y)
         /\ Before({}, X, Y) => Before(left, X, Y)
         /\ X \subseteq left /\ X \cap Y = {} => Before(left, X, Y) /\ Before(left, Y, X)
BY DEF Before

LEMMA BeforeLess ==
  ASSUME NEW left, NEW X, NEW Y, Before(left, X, Y), NEW U \in SUBSET X, NEW V \in SUBSET Y PROVE Before(left, U, V)
BY DEF Before

LEMMA BeforeApart ==
  ASSUME NEW left, NEW X \in SUBSET OfHost, NEW Y \in SUBSET OfHost, Before(left, X, Y) PROVE X \cap Y = {}
BY SizeAssumption DEF Before, OfHost

LEMMA BeforeMore ==
  ASSUME NEW l1, NEW l2, l1 \subseteq l2
  PROVE  /\ \A X, Y : Before(l1, X, Y) => Before(l2, X, Y)
         /\ \A s : Sorted(l1, s) => Sorted(l2, s)
<1>1. \A X, Y : Before(l1, X, Y) => Before(l2, X, Y)
  BY DEF Before
<1> QED
  BY <1>1 DEF Sorted

LEMMA HostIdsOf ==
  /\ HostIds(<< >>) = {} /\ \A k : HostIds(<<k>>) = {k.id} \cap OfHost
  /\ \A left : Sorted(left, << >>) /\ \A k : Sorted(left, <<k>>)
  /\ \A s : HostIds(s) \subseteq OfHost
<1>1. HostIds(<< >>) = {}
  BY DEF HostIds
<1>2. ASSUME NEW k PROVE HostIds(<<k>>) = {k.id} \cap OfHost
  <2>1. DOMAIN <<k>> = {1} /\ <<k>>[1] = k
    OBVIOUS
  <2> QED
    BY <2>1 DEF HostIds
<1>3. \A left, k : Sorted(left, <<k>>)
  BY DEF Sorted
<1>4. \A left : Sorted(left, << >>)
  BY DEF Sorted
<1>5. \A s : HostIds(s) \subseteq OfHost
  BY DEF HostIds
<1> QED
  BY <1>1, <1>2, <1>3, <1>4, <1>5

LEMMA DeliverForm ==
  ASSUME NEW b, BoxType(b), NEW ks \in Seq(Keystroke), NEW c, c = Deliver(b, ks)
  PROVE  /\ Changes(b, c, {"ring", "dropped", "raised"})
         /\ c.ring = b.ring \o Take(ks, Capacity - Len(b.ring))
         /\ c.dropped = b.dropped \cup ToSet(Rest(ks, Capacity - Len(b.ring)))
BY DEF Deliver, BoxType, BoxForm, BoxFields, Changes

LEMMA InsertForm ==
  ASSUME NEW b, BoxType(b), NEW ks \in Seq(Keystroke), NEW c, c = Insert(b, ks)
  PROVE  /\ Changes(b, c, {"line", "cut"})
         /\ c.line = b.line \o Take(ks, MaxLine - Len(b.line))
         /\ c.cut = b.cut \cup ToSet(Rest(ks, MaxLine - Len(b.line)))
BY DEF Insert, BoxType, BoxForm, BoxFields, Changes

LEMMA LostParts ==
  ASSUME NEW b, NEW c, NEW ks, IdsOf(ToSet(ks)) \cap OfHost = HostIds(ks),
         \/ c.dropped = b.dropped \cup ToSet(ks) /\ c.cut = b.cut
         \/ c.cut = b.cut \cup ToSet(ks) /\ c.dropped = b.dropped
  PROVE  LostIn(c) = LostIn(b) \cup HostIds(ks)
BY DEF LostIn, IdsOf

LEMMA Delivered ==
  ASSUME NEW b, BoxOK(b), NEW ks \in Seq(Keystroke), Admits(b, ks), NEW c, c = Deliver(b, ks)
  PROVE  /\ BoxOK(c) /\ Changes(b, c, {"ring", "dropped", "raised"})
         /\ ~replaying => Given(c) = Given(b) \cup HostIds(ks)
<1> DEFINE room == Capacity - Len(b.ring)
           a == Take(ks, room)
           r == Rest(ks, room)
           l == IdsOf(b.left)
           S == HostIds(b.saw)
           R == HostIds(b.ring)
           L == HostIds(b.line)
           A == HostIds(b.ahead)
           X == LostIn(b)
           K == HostIds(ks)
           Ka == HostIds(a)
           Kr == HostIds(r)
<1>1. /\ Changes(b, c, {"ring", "dropped", "raised"}) /\ c.ring = b.ring \o a /\ c.dropped = b.dropped \cup ToSet(r)
  BY DeliverForm DEF BoxOK
<1>2. BoxType(b) /\ room \in Nat /\ b.ring \in Seq(Keystroke)
  BY SizeAssumption DEF BoxOK, BoxType
<1> HIDE DEF room
<1>3. /\ a \in Seq(Keystroke) /\ r \in Seq(Keystroke) /\ Len(a) <= room /\ Ka \cup Kr = K
      /\ IdsOf(ToSet(r)) \cap OfHost = Kr /\ ToSet(r) \subseteq Keystroke
      /\ \A left : Sorted(left, ks) => Sorted(left, a) /\ Sorted(left, r) /\ Before(left, Ka, Kr)
  BY <1>2, CutInTwo
<1> HIDE DEF a, r
<1>4. /\ c.saw = b.saw /\ c.line = b.line /\ c.ahead = b.ahead /\ c.cut = b.cut /\ c.left = b.left /\ c.raw = b.raw
      /\ c.closed = b.closed /\ c.closing = b.closing /\ c.program = b.program /\ c.period = b.period /\ c.op = b.op
      /\ c.cycle = b.cycle /\ c.due = b.due /\ BoxForm(c)
  BY <1>1 DEF Changes, BoxFields
<1>5. BoxType(c)
  <2>1. c.ring \in Seq(Keystroke) /\ Len(c.ring) <= Capacity
    BY <1>1, <1>2, <1>3, SizeAssumption DEF room
  <2>2. c.dropped \in SUBSET Keystroke
    BY <1>1, <1>2, <1>3 DEF BoxType
  <2> QED
    BY <1>2, <1>4, <2>1, <2>2 DEF BoxType
<1>6. HostIds(c.ring) = R \cup Ka /\ LostIn(c) = X \cup Kr
  <2>1. HostIds(c.ring) = R \cup Ka
    BY <1>1, <1>2, <1>3, IdsJoined
  <2>2. LostIn(c) = X \cup Kr
    <3>1. c.dropped = b.dropped \cup ToSet(r) /\ c.cut = b.cut /\ IdsOf(ToSet(r)) \cap OfHost = HostIds(r)
      BY <1>1, <1>3, <1>4
    <3> QED
      BY <3>1, LostParts
  <2> QED
    BY <2>1, <2>2
<1>7. Given(c) = Given(b) \cup K
  BY <1>3, <1>4, <1>6 DEF Given
<1>8. ASSUME ~replaying PROVE BoxOrder(c) /\ (ScriptKeepsOpen => BoxEnd(c))
  <2>1. /\ Sorted(l, ks) /\ Before(l, S, K) /\ Before(l, R, K) /\ Before(l, K, L) /\ Before({}, K, A)
        /\ K \cap (X \cup A) = {} /\ (ScriptKeepsOpen /\ b.closed = TRUE => K = {})
    BY <1>8 DEF Admits
  <2>2. /\ Sorted(l, b.saw) /\ Sorted(l, b.ring) /\ Sorted(l, b.line) /\ Sorted({}, b.ahead)
        /\ Before(l, S, R) /\ Before(l, S, L) /\ Before(l, R, L) /\ Before({}, Given(b) \ A, A)
        /\ X \cap (S \cup R \cup L) = {} /\ A \cap (S \cup R \cup L \cup X) = {} /\ (b.raw = TRUE => L \subseteq l)
    BY <1>8 DEF BoxOK, BoxOrder
  <2>3. Ka \subseteq K /\ Kr \subseteq K /\ Before(l, Ka, Kr) /\ Sorted(l, a)
    BY <1>3, <2>1
  <2>4. S \subseteq OfHost /\ R \subseteq OfHost /\ L \subseteq OfHost /\ K \subseteq OfHost /\ Ka \subseteq OfHost /\ Kr \subseteq OfHost
    BY HostIdsOf
  <2> HIDE DEF S, R, L, A, X, K, Ka, Kr, l
  <2>5. Sorted(l, c.ring)
    <3>1. Before(l, R, Ka)
      BY <2>1, <2>3, BeforeLess
    <3> QED
      BY <1>1, <1>2, <1>3, <2>2, <2>3, <3>1, IdsJoined DEF R, Ka
  <2>6. Before(l, S, R \cup Ka) /\ Before(l, R \cup Ka, L)
    <3>1. Before(l, S, Ka) /\ Before(l, Ka, L)
      BY <2>1, <2>3, BeforeLess
    <3> QED
      BY <2>2, <3>1, BeforeParts
  <2>7. Before({}, Given(c) \ A, A)
    <3>1. Given(c) \ A = (Given(b) \ A) \cup K
      BY <1>7, <2>1
    <3> QED
      BY <2>1, <2>2, <3>1, BeforeParts
  <2>8. K \cap S = {} /\ K \cap R = {} /\ K \cap L = {} /\ Ka \cap Kr = {}
    <3>1. S \cap K = {} /\ R \cap K = {} /\ K \cap L = {} /\ Ka \cap Kr = {}
      BY <2>1, <2>3, <2>4, BeforeApart
    <3> QED
      BY <3>1
  <2>9. (X \cup Kr) \cap (S \cup (R \cup Ka) \cup L) = {} /\ A \cap (S \cup (R \cup Ka) \cup L \cup (X \cup Kr)) = {}
    BY <2>1, <2>2, <2>3, <2>8
  <2>10. BoxOrder(c)
    BY <1>4, <1>6, <2>2, <2>5, <2>6, <2>7, <2>9 DEF BoxOrder, S, R, L, A, X, Ka, Kr, l
  <2>11. ScriptKeepsOpen => BoxEnd(c)
    <3> SUFFICES ASSUME ScriptKeepsOpen PROVE BoxEnd(c)
      OBVIOUS
    <3>1. BoxEnd(b)
      BY <1>8 DEF BoxOK
    <3>2. b.closed = TRUE => Ka = {}
      BY <2>1, <2>3
    <3> QED
      BY <1>4, <1>6, <3>1, <3>2 DEF BoxEnd, S, R, L, A
  <2> QED
    BY <2>10, <2>11
<1> QED
  BY <1>1, <1>5, <1>7, <1>8 DEF BoxOK

(* Keystrokes that may go behind the line, and so may come next.            *)
Fits(b, ks) ==
  ~replaying =>
    /\ Sorted({}, ks) /\ Before({}, Given(b) \ HostIds(b.ahead), HostIds(ks)) /\ Before({}, HostIds(ks), HostIds(b.ahead))
    /\ HostIds(ks) \cap Given(b) = {}
    /\ ScriptKeepsOpen /\ b.closed = TRUE => HostIds(ks) = {}
(* What the terminal made of some keystrokes.                               *)
Taken == {"ring", "line", "dropped", "cut", "raised"}
Carries(b, c, ks) ==
  BoxOK(c) /\ Changes(b, c, Taken) /\ (~replaying => Given(c) = Given(b) \cup HostIds(ks))

LEMMA Untouched ==
  ASSUME NEW b, BoxOK(b), NEW c, BoxType(c), c.raw = TRUE => b.raw = TRUE,
         c.saw = b.saw, c.ring = b.ring, c.line = b.line, c.ahead = b.ahead,
         c.dropped = b.dropped, c.cut = b.cut, c.left = b.left, c.closed = b.closed
  PROVE  BoxOK(c) /\ Given(c) = Given(b)
BY DEF BoxOK, BoxOrder, BoxEnd, Given, LostIn

LEMMA FitsBehind ==
  ASSUME NEW b, BoxOK(b), ~replaying, NEW ks, Fits(b, ks)
  PROVE  LET l == IdsOf(b.left)
             K == HostIds(ks)
         IN  /\ Sorted(l, ks) /\ Before(l, HostIds(b.saw), K) /\ Before(l, HostIds(b.ring), K) /\ Before(l, HostIds(b.line), K)
             /\ Before({}, HostIds(b.line), HostIds(b.ahead))
<1> DEFINE G == Given(b) \ HostIds(b.ahead)
<1>1. HostIds(b.saw) \subseteq G /\ HostIds(b.ring) \subseteq G /\ HostIds(b.line) \subseteq G
  BY DEF BoxOK, BoxOrder, Given
<1>2. Before({}, G, HostIds(ks)) /\ Sorted({}, ks)
  BY DEF Fits
<1>3. Before({}, G, HostIds(b.ahead))
  BY DEF BoxOK, BoxOrder
<1> HIDE DEF G
<1>4. /\ Before({}, HostIds(b.saw), HostIds(ks)) /\ Before({}, HostIds(b.ring), HostIds(ks)) /\ Before({}, HostIds(b.line), HostIds(ks))
      /\ Before({}, HostIds(b.line), HostIds(b.ahead))
  BY <1>1, <1>2, <1>3, BeforeLess
<1> DEFINE l == IdsOf(b.left)
<1>5. {} \subseteq l
  OBVIOUS
<1> HIDE DEF l
<1>6. Sorted(l, ks) /\ Before(l, HostIds(b.saw), HostIds(ks)) /\ Before(l, HostIds(b.ring), HostIds(ks)) /\ Before(l, HostIds(b.line), HostIds(ks))
  BY <1>2, <1>4, <1>5, BeforeMore
<1> QED
  BY <1>4, <1>6 DEF l

LEMMA RawGoesOn ==
  ASSUME NEW b, BoxOK(b), NEW ks, Fits(b, ks), b.raw = TRUE
  PROVE  Admits(b, ks)
<1> SUFFICES ASSUME ~replaying PROVE Admits(b, ks)
  BY DEF Admits
<1> DEFINE l == IdsOf(b.left)
           K == HostIds(ks)
           L == HostIds(b.line)
<1>1. /\ Sorted(l, ks) /\ Before(l, HostIds(b.saw), K) /\ Before(l, HostIds(b.ring), K) /\ Before({}, K, HostIds(b.ahead))
      /\ ScriptKeepsOpen /\ b.closed = TRUE => K = {}
  BY FitsBehind DEF Fits
<1>2. K \cap Given(b) = {} /\ L \subseteq l
  BY DEF Fits, BoxOK, BoxOrder
<1>3. K \cap (LostIn(b) \cup HostIds(b.ahead)) = {} /\ L \cap K = {}
  BY <1>2 DEF Given
<1>4. Before(l, K, L)
  <2> HIDE DEF l, K, L
  <2> QED
    BY <1>2, <1>3, BeforeParts
<1> QED
  BY <1>1, <1>3, <1>4 DEF Admits

(* A line handed over, with what ends it.                                   *)
LEMMA LineGoes ==
  ASSUME NEW b, BoxOK(b), NEW ks \in Seq(Keystroke), Fits(b, ks), NEW c, c = [b EXCEPT !.line = << >>]
  PROVE  /\ BoxOK(c) /\ Changes(b, c, {"line"}) /\ c.line = << >> /\ Admits(c, b.line \o ks)
         /\ b.line \o ks \in Seq(Keystroke)
         /\ ~replaying => Given(c) \cup HostIds(b.line \o ks) = Given(b) \cup HostIds(ks)
<1> DEFINE l == IdsOf(b.left)
           K == HostIds(ks)
           L == HostIds(b.line)
           A == HostIds(b.ahead)
           S == HostIds(b.saw)
           R == HostIds(b.ring)
           X == LostIn(b)
<1>1. BoxType(b)
  BY DEF BoxOK
<1>2. Changes(b, c, {"line"}) /\ c.line = << >>
  BY <1>1 DEF BoxType, BoxForm, BoxFields, Changes
<1>3. /\ c.saw = b.saw /\ c.ring = b.ring /\ c.ahead = b.ahead /\ c.cut = b.cut /\ c.left = b.left /\ c.raw = b.raw
      /\ c.closed = b.closed /\ c.closing = b.closing /\ c.program = b.program /\ c.period = b.period /\ c.op = b.op
      /\ c.cycle = b.cycle /\ c.due = b.due /\ c.dropped = b.dropped /\ BoxForm(c)
  BY <1>2 DEF Changes, BoxFields
<1>4. BoxType(c)
  <2>1. << >> \in Seq(Keystroke) /\ Len(<< >>) <= MaxLine
    BY SizeAssumption
  <2> QED
    BY <1>1, <1>2, <1>3, <2>1 DEF BoxType
<1>5. HostIds(c.line) = {} /\ LostIn(c) = X /\ Given(c) = S \cup R \cup A \cup X
  <2>1. HostIds(c.line) = {}
    BY <1>2, HostIdsOf
  <2>2. LostIn(c) = X
    BY <1>3 DEF LostIn
  <2> QED
    BY <1>3, <2>1, <2>2 DEF Given
<1>6. b.line \o ks \in Seq(Keystroke) /\ HostIds(b.line \o ks) = L \cup K
  BY <1>1, IdsJoined DEF BoxType
<1>7. Given(b) = Given(c) \cup L
  BY <1>5 DEF Given
<1>8. ASSUME ~replaying PROVE BoxOrder(c) /\ (ScriptKeepsOpen => BoxEnd(c)) /\ Admits(c, b.line \o ks)
  <2>1. /\ Sorted(l, b.saw) /\ Sorted(l, b.ring) /\ Sorted(l, b.line) /\ Sorted({}, b.ahead)
        /\ Before(l, S, R) /\ Before(l, S, L) /\ Before(l, R, L) /\ Before({}, Given(b) \ A, A)
        /\ X \cap (S \cup R \cup L) = {} /\ A \cap (S \cup R \cup L \cup X) = {}
    BY <1>8 DEF BoxOK, BoxOrder
  <2>2. /\ Sorted(l, ks) /\ Before(l, S, K) /\ Before(l, R, K) /\ Before(l, L, K) /\ Before({}, L, A)
    BY <1>8, FitsBehind
  <2>3. Before({}, K, A) /\ K \cap Given(b) = {} /\ (ScriptKeepsOpen /\ b.closed = TRUE => K = {})
    BY <1>8 DEF Fits
  <2>4. ScriptKeepsOpen => BoxEnd(b)
    BY <1>8 DEF BoxOK
  <2>5. Sorted(l, b.line \o ks)
    BY <1>1, <2>1, <2>2, IdsJoined DEF BoxType
  <2>6. L \cap X = {} /\ L \cap A = {} /\ K \cap (X \cup A) = {}
    BY <2>1, <2>3 DEF Given
  <2>7. Sorted(l, << >>) /\ \A Y : Before(l, Y, {})
    BY HostIdsOf DEF Before
  <2>8. c.line = << >> /\ b.closed = TRUE /\ ScriptKeepsOpen => L = {}
    BY <2>4 DEF BoxEnd
  <2> HIDE DEF S, R, L, A, X, K, l
  <2>9. Before({}, Given(c) \ A, A)
    BY <1>7, <2>1, BeforeLess
  <2>10. Before(l, S, L \cup K) /\ Before(l, R, L \cup K) /\ Before({}, L \cup K, A)
    BY <2>1, <2>2, <2>3, BeforeParts
  <2>11. BoxOrder(c)
    BY <1>2, <1>3, <1>5, <2>1, <2>7, <2>9 DEF BoxOrder, S, R, L, A, X, l
  <2>12. ScriptKeepsOpen => BoxEnd(c)
    BY <1>3, <1>5, <2>4 DEF BoxEnd
  <2>13. Admits(c, b.line \o ks)
    <3>1. (L \cup K) \cap (X \cup A) = {} /\ (ScriptKeepsOpen /\ b.closed = TRUE => L \cup K = {})
      BY <1>2, <2>3, <2>6, <2>8
    <3> QED
      BY <1>3, <1>5, <1>6, <2>5, <2>7, <2>10, <3>1 DEF Admits, S, R, L, A, X, K, l
  <2> QED
    BY <2>11, <2>12, <2>13
<1>9. Admits(c, b.line \o ks)
  BY <1>8 DEF Admits
<1> QED
  BY <1>2, <1>4, <1>6, <1>7, <1>8, <1>9 DEF BoxOK

LEMMA Inserted ==
  ASSUME NEW b, BoxOK(b), NEW ks \in Seq(Keystroke), Fits(b, ks), b.raw = FALSE, NEW c, c = Insert(b, ks)
  PROVE  Carries(b, c, ks)
<1> DEFINE room == MaxLine - Len(b.line)
           a == Take(ks, room)
           r == Rest(ks, room)
           l == IdsOf(b.left)
           S == HostIds(b.saw)
           R == HostIds(b.ring)
           L == HostIds(b.line)
           A == HostIds(b.ahead)
           X == LostIn(b)
           K == HostIds(ks)
           Ka == HostIds(a)
           Kr == HostIds(r)
<1>1. /\ Changes(b, c, {"line", "cut"}) /\ c.line = b.line \o a /\ c.cut = b.cut \cup ToSet(r)
  BY InsertForm DEF BoxOK
<1>2. BoxType(b) /\ room \in Nat /\ b.line \in Seq(Keystroke)
  BY SizeAssumption DEF BoxOK, BoxType
<1> HIDE DEF room
<1>3. /\ a \in Seq(Keystroke) /\ r \in Seq(Keystroke) /\ Len(a) <= room /\ Ka \cup Kr = K
      /\ IdsOf(ToSet(r)) \cap OfHost = Kr /\ ToSet(r) \subseteq Keystroke
      /\ \A left : Sorted(left, ks) => Sorted(left, a) /\ Sorted(left, r) /\ Before(left, Ka, Kr)
  BY <1>2, CutInTwo
<1> HIDE DEF a, r
<1>4. /\ c.saw = b.saw /\ c.ring = b.ring /\ c.ahead = b.ahead /\ c.dropped = b.dropped /\ c.left = b.left /\ c.raw = b.raw
      /\ c.closed = b.closed /\ c.closing = b.closing /\ c.program = b.program /\ c.period = b.period /\ c.op = b.op
      /\ c.cycle = b.cycle /\ c.due = b.due /\ BoxForm(c)
  BY <1>1 DEF Changes, BoxFields
<1>5. BoxType(c)
  <2>1. c.line \in Seq(Keystroke) /\ Len(c.line) <= MaxLine
    BY <1>1, <1>2, <1>3, SizeAssumption DEF room, BoxType
  <2>2. c.cut \in SUBSET Keystroke
    BY <1>1, <1>2, <1>3 DEF BoxType
  <2> QED
    BY <1>2, <1>4, <2>1, <2>2 DEF BoxType
<1>6. HostIds(c.line) = L \cup Ka /\ LostIn(c) = X \cup Kr
  <2>1. HostIds(c.line) = L \cup Ka
    BY <1>1, <1>2, <1>3, IdsJoined
  <2>2. LostIn(c) = X \cup Kr
    <3>1. c.cut = b.cut \cup ToSet(r) /\ c.dropped = b.dropped /\ IdsOf(ToSet(r)) \cap OfHost = HostIds(r)
      BY <1>1, <1>3, <1>4
    <3> QED
      BY <3>1, LostParts
  <2> QED
    BY <2>1, <2>2
<1>7. Given(c) = Given(b) \cup K
  BY <1>3, <1>4, <1>6 DEF Given
<1>8. ASSUME ~replaying PROVE BoxOrder(c) /\ (ScriptKeepsOpen => BoxEnd(c))
  <2>1. /\ Sorted(l, ks) /\ Before(l, S, K) /\ Before(l, R, K) /\ Before(l, L, K) /\ Before({}, K, A)
        /\ K \cap (S \cup R \cup L \cup X \cup A) = {} /\ (ScriptKeepsOpen /\ b.closed = TRUE => K = {})
    BY <1>8, FitsBehind DEF Fits, Given
  <2>2. /\ Sorted(l, b.saw) /\ Sorted(l, b.ring) /\ Sorted(l, b.line) /\ Sorted({}, b.ahead)
        /\ Before(l, S, R) /\ Before(l, S, L) /\ Before(l, R, L) /\ Before({}, Given(b) \ A, A)
        /\ X \cap (S \cup R \cup L) = {} /\ A \cap (S \cup R \cup L \cup X) = {}
    BY <1>8 DEF BoxOK, BoxOrder
  <2>3. Ka \subseteq K /\ Kr \subseteq K /\ Before(l, Ka, Kr) /\ Sorted(l, a)
    BY <1>3, <2>1
  <2>4. Ka \subseteq OfHost /\ Kr \subseteq OfHost
    BY HostIdsOf
  <2> HIDE DEF S, R, L, A, X, K, Ka, Kr, l
  <2>5. Before(l, S, Ka) /\ Before(l, R, Ka) /\ Before(l, L, Ka)
    BY <2>1, <2>3, BeforeLess
  <2>6. Sorted(l, c.line)
    BY <1>1, <1>2, <1>3, <2>2, <2>3, <2>5, IdsJoined DEF L, Ka
  <2>7. Before(l, S, L \cup Ka) /\ Before(l, R, L \cup Ka)
    BY <2>2, <2>5, BeforeParts
  <2>8. Before({}, Given(c) \ A, A)
    <3>1. Given(c) \ A = (Given(b) \ A) \cup K
      BY <1>7, <2>1
    <3> QED
      BY <2>1, <2>2, <3>1, BeforeParts
  <2>9. Ka \cap Kr = {}
    BY <2>3, <2>4, BeforeApart
  <2>10. (X \cup Kr) \cap (S \cup R \cup (L \cup Ka)) = {} /\ A \cap (S \cup R \cup (L \cup Ka) \cup (X \cup Kr)) = {}
    BY <2>1, <2>2, <2>3, <2>9
  <2>11. BoxOrder(c)
    BY <1>4, <1>6, <2>2, <2>6, <2>7, <2>8, <2>10 DEF BoxOrder, S, R, L, A, X, Ka, Kr, l
  <2>12. ScriptKeepsOpen => BoxEnd(c)
    <3> SUFFICES ASSUME ScriptKeepsOpen PROVE BoxEnd(c)
      OBVIOUS
    <3>1. BoxEnd(b)
      BY <1>8 DEF BoxOK
    <3>2. b.closed = TRUE => Ka = {}
      BY <2>1, <2>3
    <3> QED
      BY <1>4, <1>6, <3>1, <3>2 DEF BoxEnd, S, R, L, A
  <2> QED
    BY <2>11, <2>12
<1>9. Changes(b, c, Taken)
  BY <1>1 DEF Changes, Taken
<1> QED
  BY <1>5, <1>7, <1>8, <1>9 DEF BoxOK, Carries

LEMMA ChangesOn ==
  ASSUME NEW b, NEW c, NEW d, NEW F, NEW G, NEW E, Changes(b, c, F), Changes(c, d, G), F \subseteq E, G \subseteq E
  PROVE  Changes(b, d, E)
BY DEF Changes

LEMMA Submitted ==
  ASSUME NEW b, BoxOK(b), NEW k \in Keystroke, Fits(b, <<k>>), NEW c, c = Submit(b, k)
  PROVE  Carries(b, c, <<k>>)
<1>1. PICK d : d = [b EXCEPT !.line = << >>]
  OBVIOUS
<1> DEFINE ks == <<k>>
<1>2. ks \in Seq(Keystroke) /\ Append(b.line, k) = b.line \o ks
  <2>1. b.line \in Seq(Keystroke) /\ ks \in Seq(Keystroke)
    BY DEF BoxOK, BoxType
  <2>2. \A s \in Seq(Keystroke) : Append(s, k) = s \o <<k>>
    OBVIOUS
  <2> QED
    BY <2>1, <2>2
<1> HIDE DEF ks
<1>3. /\ BoxOK(d) /\ Changes(b, d, {"line"}) /\ Admits(d, b.line \o ks) /\ b.line \o ks \in Seq(Keystroke)
      /\ ~replaying => Given(d) \cup HostIds(b.line \o ks) = Given(b) \cup HostIds(ks)
  BY <1>1, <1>2, LineGoes DEF ks
<1>4. c = Deliver(d, b.line \o ks)
  BY <1>1, <1>2 DEF Submit
<1>5. /\ BoxOK(c) /\ Changes(d, c, {"ring", "dropped", "raised"})
      /\ ~replaying => Given(c) = Given(d) \cup HostIds(b.line \o ks)
  BY <1>3, <1>4, Delivered
<1>6. Changes(b, c, Taken)
  BY <1>3, <1>5, ChangesOn DEF Taken
<1> QED
  BY <1>3, <1>5, <1>6 DEF Carries, ks

LEMMA Processed ==
  ASSUME NEW b, BoxOK(b), NEW k \in Keystroke, Fits(b, <<k>>), NEW c, c = Process(b, k)
  PROVE  Carries(b, c, <<k>>)
<1> DEFINE ks == <<k>>
<1>1. ks \in Seq(Keystroke) /\ b.raw \in BOOLEAN
  BY DEF BoxOK, BoxType
<1>2. CASE b.raw = TRUE
  <2>1. c = Deliver(b, ks)
    BY <1>2 DEF Process
  <2> HIDE DEF ks
  <2>2. Admits(b, ks)
    BY <1>2, RawGoesOn DEF ks
  <2>3. BoxOK(c) /\ Changes(b, c, {"ring", "dropped", "raised"}) /\ (~replaying => Given(c) = Given(b) \cup HostIds(ks))
    BY <1>1, <2>1, <2>2, Delivered
  <2>4. Changes(b, c, Taken)
    BY <2>3 DEF Changes, Taken
  <2> QED
    BY <2>3, <2>4 DEF Carries, ks
<1>3. CASE b.raw = FALSE /\ k.enter
  <2>1. c = Submit(b, k)
    BY <1>3 DEF Process
  <2> QED
    BY <2>1, Submitted
<1>4. CASE b.raw = FALSE /\ ~k.enter
  <2>1. c = Insert(b, ks)
    BY <1>4 DEF Process
  <2> HIDE DEF ks
  <2> QED
    BY <1>1, <1>4, <2>1, Inserted DEF ks
<1> QED
  BY <1>1, <1>2, <1>3, <1>4

LEMMA OrderedParts ==
  ASSUME NEW T, NEW s \in Seq(T), NEW t \in Seq(T), NEW left, Sorted(left, s \o t)
  PROVE  Sorted(left, s) /\ Sorted(left, t) /\ Before(left, HostIds(s), HostIds(t))
<1> DEFINE u == s \o t
           m == Len(s)
<1>1. /\ u \in Seq(T) /\ Len(u) = m + Len(t) /\ m \in Nat /\ Len(t) \in Nat
      /\ \A i \in 1 .. m : u[i] = s[i]
      /\ \A i \in 1 .. Len(t) : u[m + i] = t[i]
  OBVIOUS
<1>2. DOMAIN u = 1 .. Len(u) /\ DOMAIN s = 1 .. m /\ DOMAIN t = 1 .. Len(t)
  BY <1>1
<1>3. Sorted(left, u)
  OBVIOUS
<1> HIDE DEF u, m
<1>4. (\A i \in DOMAIN s : i \in DOMAIN u /\ u[i] = s[i]) /\ \A i \in DOMAIN t : m + i \in DOMAIN u /\ u[m + i] = t[i]
  BY <1>1, <1>2
<1>5. (\A i, j \in DOMAIN t : i < j => m + i < m + j) /\ \A i \in DOMAIN s, j \in DOMAIN t : i < m + j
  BY <1>1, <1>2
<1>6. Sorted(left, s) /\ Sorted(left, t)
  <2> HIDE DEF Before
  <2> QED
    BY <1>3, <1>4, <1>5 DEF Sorted
<1>7. ASSUME NEW x \in HostIds(s), NEW y \in HostIds(t) PROVE Before(left, {x}, {y})
  <2>1. PICK i \in DOMAIN s, j \in DOMAIN t : x = s[i].id /\ y = t[j].id /\ {x, y} \subseteq OfHost
    BY <1>7 DEF HostIds
  <2> HIDE DEF Before
  <2> QED
    BY <1>3, <1>4, <1>5, <2>1 DEF Sorted
<1> QED
  BY <1>6, <1>7 DEF Before

(* What comes behind everything in the machine.                             *)
Comes(b, ks) ==
  ~replaying =>
    /\ Sorted({}, ks) /\ Before({}, Given(b), HostIds(ks))
    /\ ScriptKeepsOpen /\ (b.closed = TRUE \/ b.closing = TRUE) => HostIds(ks) = {}

LEMMA ComesApart ==
  ASSUME NEW b, NEW ks, ~replaying, Comes(b, ks)
  PROVE  HostIds(ks) \cap Given(b) = {}
<1>1. Given(b) \subseteq OfHost /\ HostIds(ks) \subseteq OfHost
  BY HostIdsOf DEF Given, LostIn
<1>2. Before({}, Given(b), HostIds(ks))
  BY DEF Comes
<1>3. Given(b) \cap HostIds(ks) = {}
  <2> DEFINE G == Given(b)
             K == HostIds(ks)
  <2> HIDE DEF G, K
  <2>1. G \subseteq OfHost /\ K \subseteq OfHost /\ Before({}, G, K) => G \cap K = {}
    BY BeforeApart
  <2> QED
    BY <1>1, <1>2, <2>1 DEF G, K
<1> QED
  BY <1>3

LEMMA TypedBehind ==
  ASSUME NEW b, BoxOK(b), NEW ks \in Seq(Keystroke), Comes(b, ks), NEW c, Changes(b, c, {"ahead", "raised"}), c.ahead = b.ahead \o ks
  PROVE  BoxOK(c) /\ (~replaying => Given(c) = Given(b) \cup HostIds(ks))
<1> DEFINE l == IdsOf(b.left)
           K == HostIds(ks)
           A == HostIds(b.ahead)
<1>1. BoxType(b)
  BY DEF BoxOK
<1>2. /\ c.saw = b.saw /\ c.ring = b.ring /\ c.line = b.line /\ c.cut = b.cut /\ c.left = b.left /\ c.raw = b.raw
      /\ c.closed = b.closed /\ c.closing = b.closing /\ c.program = b.program /\ c.period = b.period /\ c.op = b.op
      /\ c.cycle = b.cycle /\ c.due = b.due /\ c.dropped = b.dropped /\ BoxForm(c)
  BY DEF Changes, BoxFields
<1>3. c.ahead \in Seq(Keystroke) /\ HostIds(c.ahead) = A \cup K
  BY <1>1, IdsJoined DEF BoxType
<1>4. BoxType(c)
  BY <1>1, <1>2, <1>3 DEF BoxType
<1>5. Given(c) = Given(b) \cup K /\ LostIn(c) = LostIn(b)
  BY <1>2, <1>3 DEF Given, LostIn
<1>6. ASSUME ~replaying PROVE BoxOrder(c) /\ (ScriptKeepsOpen => BoxEnd(c))
  <2>1. BoxOrder(b) /\ (ScriptKeepsOpen => BoxEnd(b))
    BY <1>6 DEF BoxOK
  <2>2. /\ Sorted({}, ks) /\ Before({}, Given(b), K) /\ (ScriptKeepsOpen /\ b.closed = TRUE => K = {})
    BY <1>6 DEF Comes
  <2>3. K \cap Given(b) = {}
    BY <1>6, ComesApart
  <2>4. A \subseteq Given(b) /\ Given(b) \ A \subseteq Given(b)
    BY DEF Given
  <2>5. Before({}, A, K) /\ Before({}, Given(b) \ A, K)
    <3> HIDE DEF A, K
    <3> QED
      BY <2>2, <2>4, BeforeLess
  <2>6. Sorted({}, c.ahead)
    BY <1>1, <2>1, <2>2, <2>5, IdsJoined DEF BoxType, BoxOrder
  <2>7. Before({}, Given(c) \ (A \cup K), A \cup K)
    <3>1. Given(c) \ (A \cup K) \subseteq Given(b) \ A
      BY <1>5
    <3>2. Before({}, Given(b) \ A, A)
      BY <2>1 DEF BoxOrder
    <3> HIDE DEF A, K
    <3>3. Before({}, Given(c) \ (A \cup K), A) /\ Before({}, Given(c) \ (A \cup K), K)
      BY <2>5, <3>1, <3>2, BeforeLess
    <3> QED
      BY <3>3, BeforeParts
  <2>8. (A \cup K) \cap (HostIds(b.saw) \cup HostIds(b.ring) \cup HostIds(b.line) \cup LostIn(b)) = {}
    BY <2>1, <2>3 DEF BoxOrder, Given
  <2> HIDE DEF A, K
  <2>9. BoxOrder(c)
    BY <1>2, <1>3, <1>5, <2>1, <2>6, <2>7, <2>8 DEF BoxOrder
  <2>10. ScriptKeepsOpen => BoxEnd(c)
    BY <1>2, <1>3, <2>1, <2>2 DEF BoxEnd, A
  <2> QED
    BY <2>9, <2>10
<1> QED
  BY <1>4, <1>5, <1>6 DEF BoxOK

LEMMA RaisedOnly ==
  ASSUME NEW b, BoxOK(b), NEW c, Changes(b, c, {"raised"}) PROVE BoxOK(c) /\ Given(c) = Given(b)
<1>1. /\ c.saw = b.saw /\ c.ring = b.ring /\ c.line = b.line /\ c.ahead = b.ahead /\ c.cut = b.cut /\ c.left = b.left
      /\ c.closed = b.closed /\ c.closing = b.closing /\ c.program = b.program /\ c.period = b.period /\ c.op = b.op
      /\ c.cycle = b.cycle /\ c.due = b.due /\ c.dropped = b.dropped /\ c.raw = b.raw /\ BoxForm(c)
  BY DEF Changes, BoxFields
<1>2. BoxType(c)
  BY <1>1 DEF BoxOK, BoxType
<1> QED
  BY <1>1, <1>2, Untouched

Moved == Taken \cup {"ahead"}
LEMMA KeyTyped ==
  ASSUME NEW b, BoxOK(b), NEW k \in Keystroke, Comes(b, <<k>>), NEW c, c = TypeKeystroke(b, k)
  PROVE  BoxOK(c) /\ Changes(b, c, Moved) /\ (~replaying => Given(c) = Given(b) \cup HostIds(<<k>>))
<1> DEFINE ks == <<k>>
<1>1. BoxType(b) /\ ks \in Seq(Keystroke)
  BY DEF BoxOK
<1>2. CASE b.ahead # << >>
  <2> DEFINE more == Append(b.ahead, k)
  <2>1. c = [[b EXCEPT !.ahead = more] EXCEPT !.raised = TRUE]
    BY <1>2 DEF TypeKeystroke
  <2>2. more = b.ahead \o ks
    <3>1. b.ahead \in Seq(Keystroke)
      BY <1>1 DEF BoxType
    <3>2. \A s \in Seq(Keystroke) : Append(s, k) = s \o <<k>>
      OBVIOUS
    <3> QED
      BY <3>1, <3>2
  <2> HIDE DEF more, ks
  <2>3. Changes(b, c, {"ahead", "raised"}) /\ c.ahead = more
    BY <1>1, <2>1 DEF BoxType, BoxForm, BoxFields, Changes
  <2>4. BoxOK(c) /\ (~replaying => Given(c) = Given(b) \cup HostIds(ks))
    BY <1>1, <2>2, <2>3, TypedBehind DEF ks
  <2>5. Changes(b, c, Moved)
    BY <2>3 DEF Changes, Moved, Taken
  <2> QED
    BY <2>4, <2>5 DEF ks
<1>3. CASE b.ahead = << >>
  <2>1. PICK d : d = Process(b, k)
    OBVIOUS
  <2>2. c = [d EXCEPT !.raised = TRUE]
    BY <1>3, <2>1 DEF TypeKeystroke
  <2>3. Fits(b, ks)
    <3> SUFFICES ASSUME ~replaying PROVE Fits(b, ks)
      BY DEF Fits
    <3>1. HostIds(b.ahead) = {}
      BY <1>3, HostIdsOf
    <3> HIDE DEF ks
    <3>2. HostIds(ks) \cap Given(b) = {}
      BY ComesApart DEF ks
    <3>3. Given(b) \ HostIds(b.ahead) = Given(b) /\ Before({}, HostIds(ks), {})
      BY <3>1 DEF Before
    <3> QED
      BY <3>1, <3>2, <3>3 DEF Comes, Fits, ks
  <2>4. Carries(b, d, ks)
    BY <2>1, <2>3, Processed
  <2>5. Changes(d, c, {"raised"})
    BY <2>2, <2>4 DEF Carries, BoxOK, BoxType, BoxForm, BoxFields, Changes
  <2>6. BoxOK(c) /\ Given(c) = Given(d)
    BY <2>4, <2>5, RaisedOnly DEF Carries
  <2>7. Changes(b, c, Moved)
    BY <2>4, <2>5, ChangesOn DEF Carries, Moved, Taken
  <2> QED
    BY <2>4, <2>6, <2>7 DEF Carries
<1> QED
  BY <1>2, <1>3

LEMMA TextTyped ==
  ASSUME NEW b, BoxOK(b), NEW ks \in Seq(Keystroke), Comes(b, ks), NEW c, c = Type(b, ks)
  PROVE  BoxOK(c) /\ Changes(b, c, Moved) /\ (~replaying => Given(c) = Given(b) \cup HostIds(ks))
<1>1. Changes(b, c, {"ahead", "raised"}) /\ c.ahead = b.ahead \o ks
  <2> DEFINE more == b.ahead \o ks
             up == b.raised \/ (b.notify /\ b.ahead \o ks # << >>)
  <2>1. c = [b EXCEPT !.ahead = more, !.raised = up]
    BY DEF Type, BoxOK, BoxType, BoxForm, BoxFields
  <2> HIDE DEF more, up
  <2>2. Changes(b, c, {"ahead", "raised"}) /\ c.ahead = more
    BY <2>1 DEF BoxOK, BoxType, BoxForm, BoxFields, Changes
  <2> QED
    BY <2>2 DEF more
<1>2. Changes(b, c, Moved)
  BY <1>1 DEF Changes, Moved, Taken
<1> QED
  BY <1>1, <1>2, TypedBehind

Closes == Taken \cup {"closed", "closing"}
(* The input is closed for good, the line flushed.                          *)
LEMMA ClosedForGood ==
  ASSUME NEW b, BoxOK(b), b.ahead = << >>, NEW c, c = FinishClose(b)
  PROVE  /\ BoxOK(c) /\ Changes(b, c, Closes) /\ (~replaying => Given(c) = Given(b)) /\ c.closed = TRUE /\ c.closing = FALSE
<1>1. PICK f : f = IF b.line = << >> THEN b ELSE Deliver([b EXCEPT !.line = << >>], b.line)
  OBVIOUS
<1>2. BoxType(b)
  BY DEF BoxOK
<1>3. BoxOK(f) /\ Changes(b, f, Taken) /\ f.line = << >> /\ (~replaying => Given(f) = Given(b))
  <2>1. CASE b.line = << >>
    <3>1. f = b /\ Changes(b, b, Taken)
      BY <1>1, <1>2, <2>1 DEF BoxType, Changes
    <3> QED
      BY <2>1, <3>1
  <2>2. CASE b.line # << >>
    <3>1. PICK d : d = [b EXCEPT !.line = << >>]
      OBVIOUS
    <3> DEFINE none == << >>
    <3>2. none \in Seq(Keystroke) /\ b.line \o none = b.line /\ HostIds(none) = {}
      <4>1. b.line \in Seq(Keystroke)
        BY <1>2 DEF BoxType
      <4> QED
        BY <4>1, HostIdsOf
    <3>3. Fits(b, none)
      BY HostIdsOf DEF Fits, Before
    <3>4. /\ BoxOK(d) /\ Changes(b, d, {"line"}) /\ d.line = << >> /\ Admits(d, b.line) /\ b.line \in Seq(Keystroke)
          /\ ~replaying => Given(d) \cup HostIds(b.line) = Given(b)
      <4> HIDE DEF none
      <4>1. /\ BoxOK(d) /\ Changes(b, d, {"line"}) /\ d.line = << >> /\ Admits(d, b.line \o none) /\ b.line \o none \in Seq(Keystroke)
            /\ ~replaying => Given(d) \cup HostIds(b.line \o none) = Given(b) \cup HostIds(none)
        BY <3>1, <3>2, <3>3, LineGoes
      <4> QED
        BY <3>2, <4>1
    <3>5. f = Deliver(d, b.line)
      BY <1>1, <2>2, <3>1
    <3>6. /\ BoxOK(f) /\ Changes(d, f, {"ring", "dropped", "raised"})
          /\ ~replaying => Given(f) = Given(d) \cup HostIds(b.line)
      BY <3>4, <3>5, Delivered
    <3>7. Changes(b, f, Taken) /\ f.line = << >>
      <4>1. Changes(b, f, Taken)
        BY <3>4, <3>6, ChangesOn DEF Taken
      <4>2. f.line = d.line
        BY <3>6 DEF Changes, BoxFields
      <4> QED
        BY <3>4, <4>1, <4>2
    <3> QED
      BY <3>4, <3>6, <3>7
  <2> QED
    BY <2>1, <2>2
<1>4. c = [f EXCEPT !.closed = TRUE, !.closing = FALSE, !.raised = TRUE]
  BY <1>1 DEF FinishClose
<1>5. BoxType(f)
  BY <1>3 DEF BoxOK
<1>6. Changes(f, c, {"closed", "closing", "raised"}) /\ c.closed = TRUE /\ c.closing = FALSE
  BY <1>4, <1>5 DEF BoxType, BoxForm, BoxFields, Changes
<1>7. /\ c.saw = f.saw /\ c.ring = f.ring /\ c.line = f.line /\ c.ahead = f.ahead /\ c.cut = f.cut /\ c.left = f.left
      /\ c.program = f.program /\ c.period = f.period /\ c.op = f.op
      /\ c.cycle = f.cycle /\ c.due = f.due /\ c.dropped = f.dropped /\ c.raw = f.raw /\ BoxForm(c)
  BY <1>6 DEF Changes, BoxFields
<1>8. BoxType(c)
  BY <1>5, <1>6, <1>7 DEF BoxType
<1>9. f.ahead = << >>
  BY <1>3 DEF Changes, BoxFields, Taken
<1>10. Given(c) = Given(f)
  BY <1>7 DEF Given, LostIn
<1>11. BoxOrder(f) => BoxOrder(c)
  BY <1>7, <1>10 DEF BoxOrder, LostIn
<1>12. BoxEnd(f) => BoxEnd(c)
  <2>1. HostIds(<< >>) = {}
    BY HostIdsOf
  <2> QED
    BY <1>3, <1>6, <1>7, <1>9, <2>1 DEF BoxEnd
<1>13. Changes(b, c, Closes)
  BY <1>3, <1>6, ChangesOn DEF Closes, Taken
<1> QED
  BY <1>3, <1>6, <1>8, <1>10, <1>11, <1>12, <1>13 DEF BoxOK

LEMMA InputClosed ==
  ASSUME NEW b, BoxOK(b), NEW c, c = CloseInput(b)
  PROVE  BoxOK(c) /\ Changes(b, c, Closes) /\ (~replaying => Given(c) = Given(b))
<1>1. CASE b.ahead # << >>
  <2>1. c = [b EXCEPT !.closing = TRUE]
    BY <1>1 DEF CloseInput
  <2>2. BoxType(b)
    BY DEF BoxOK
  <2>3. Changes(b, c, {"closing"}) /\ c.closing = TRUE
    BY <2>1, <2>2 DEF BoxType, BoxForm, BoxFields, Changes
  <2>4. /\ c.saw = b.saw /\ c.ring = b.ring /\ c.line = b.line /\ c.ahead = b.ahead /\ c.cut = b.cut /\ c.left = b.left
        /\ c.closed = b.closed /\ c.program = b.program /\ c.period = b.period /\ c.op = b.op
        /\ c.cycle = b.cycle /\ c.due = b.due /\ c.dropped = b.dropped /\ c.raw = b.raw /\ BoxForm(c)
    BY <2>3 DEF Changes, BoxFields
  <2>5. BoxType(c)
    BY <2>2, <2>3, <2>4 DEF BoxType
  <2>6. BoxOK(c) /\ Given(c) = Given(b)
    BY <2>4, <2>5, Untouched
  <2>7. Changes(b, c, Closes)
    BY <2>3 DEF Changes, Closes
  <2> QED
    BY <2>6, <2>7
<1>2. CASE b.ahead = << >>
  BY <1>2, ClosedForGood DEF CloseInput
<1> QED
  BY <1>1, <1>2

(* What waits typed ahead, cut in two: the front may go into the line.      *)
LEMMA AheadCut ==
  ASSUME NEW b, BoxOK(b), NEW f \in Seq(Keystroke), NEW r \in Seq(Keystroke), b.ahead = f \o r, NEW c, c = [b EXCEPT !.ahead = r]
  PROVE  BoxOK(c) /\ Changes(b, c, {"ahead"}) /\ Fits(c, f) /\ (~replaying => Given(c) \cup HostIds(f) = Given(b))
<1> DEFINE F == HostIds(f)
           A == HostIds(r)
           O == HostIds(b.saw) \cup HostIds(b.ring) \cup HostIds(b.line) \cup LostIn(b)
<1>1. BoxType(b)
  BY DEF BoxOK
<1>2. Changes(b, c, {"ahead"}) /\ c.ahead = r
  BY <1>1 DEF BoxType, BoxForm, BoxFields, Changes
<1>3. /\ c.saw = b.saw /\ c.ring = b.ring /\ c.line = b.line /\ c.cut = b.cut /\ c.left = b.left /\ c.closing = b.closing
      /\ c.closed = b.closed /\ c.program = b.program /\ c.period = b.period /\ c.op = b.op
      /\ c.cycle = b.cycle /\ c.due = b.due /\ c.dropped = b.dropped /\ c.raw = b.raw /\ BoxForm(c)
  BY <1>2 DEF Changes, BoxFields
<1>4. BoxType(c)
  BY <1>1, <1>2, <1>3 DEF BoxType
<1>5. HostIds(b.ahead) = F \cup A
  BY IdsJoined
<1>6. LostIn(c) = LostIn(b) /\ Given(c) = O \cup A /\ Given(b) = O \cup F \cup A
  <2>1. LostIn(c) = LostIn(b)
    BY <1>3 DEF LostIn
  <2> QED
    BY <1>2, <1>3, <1>5, <2>1 DEF Given
<1>7. ASSUME ~replaying PROVE BoxOrder(c) /\ (ScriptKeepsOpen => BoxEnd(c)) /\ Fits(c, f)
  <2>1. BoxOrder(b) /\ (ScriptKeepsOpen => BoxEnd(b))
    BY <1>7 DEF BoxOK
  <2>2. Sorted({}, f) /\ Sorted({}, r) /\ Before({}, F, A)
    <3>1. Sorted({}, f \o r)
      BY <2>1 DEF BoxOrder
    <3> QED
      BY <3>1, OrderedParts
  <2>3. F \cap A = {} /\ (F \cup A) \cap O = {} /\ Before({}, Given(b) \ (F \cup A), F \cup A)
    <3>1. F \subseteq OfHost /\ A \subseteq OfHost
      BY HostIdsOf
    <3>2. (F \cup A) \cap O = {}
      BY <1>5, <2>1 DEF BoxOrder
    <3>3. Before({}, Given(b) \ HostIds(b.ahead), HostIds(b.ahead))
      BY <2>1 DEF BoxOrder
    <3>4. F \cap A = {}
      <4> HIDE DEF F, A
      <4> QED
        BY <2>2, <3>1, BeforeApart
    <3> QED
      BY <1>5, <3>2, <3>3, <3>4
  <2> HIDE DEF F, A, O
  <2>4. Before({}, O, F \cup A)
    <3>1. Given(b) \ (F \cup A) = O
      BY <1>6, <2>3
    <3> QED
      BY <2>3, <3>1
  <2>5. Before({}, O, F) /\ Before({}, O, A) /\ Given(c) \ A = O
    BY <1>6, <2>3, <2>4, BeforeParts
  <2>6. A \cap O = {}
    BY <2>3
  <2>7. BoxOrder(c)
    BY <1>2, <1>3, <1>6, <2>1, <2>2, <2>5, <2>6 DEF BoxOrder, A, O
  <2>8. ScriptKeepsOpen => BoxEnd(c) /\ (b.closed = TRUE => F = {})
    BY <1>2, <1>3, <1>5, <2>1 DEF BoxEnd, A
  <2>9. Fits(c, f)
    BY <1>2, <1>3, <1>6, <2>2, <2>3, <2>5, <2>8 DEF Fits, F, A
  <2> QED
    BY <2>7, <2>8, <2>9
<1>8. Fits(c, f)
  BY <1>7 DEF Fits
<1>9. Given(c) \cup F = Given(b)
  BY <1>6
<1> QED
  BY <1>2, <1>4, <1>7, <1>8, <1>9 DEF BoxOK

LEMMA FitsNext ==
  ASSUME NEW b, NEW c, NEW f \in Seq(Keystroke), NEW g \in Seq(Keystroke), Fits(b, f \o g), Carries(b, c, f)
  PROVE  Fits(b, f) /\ Fits(c, g)
<1> SUFFICES ASSUME ~replaying PROVE Fits(b, f) /\ Fits(c, g)
  BY DEF Fits
<1> DEFINE F == HostIds(f)
           G == HostIds(g)
           A == HostIds(b.ahead)
           O == Given(b) \ A
<1>1. HostIds(f \o g) = F \cup G
  BY IdsJoined
<1>2. /\ Sorted({}, f \o g) /\ Before({}, O, F \cup G) /\ Before({}, F \cup G, A) /\ (F \cup G) \cap Given(b) = {}
      /\ (ScriptKeepsOpen /\ b.closed = TRUE => F \cup G = {})
  BY <1>1 DEF Fits
<1>3. Sorted({}, f) /\ Sorted({}, g) /\ Before({}, F, G)
  BY <1>2, OrderedParts
<1>4. c.ahead = b.ahead /\ c.closed = b.closed /\ Given(c) = Given(b) \cup F
  BY DEF Carries, Changes, BoxFields, Taken
<1>5. F \cap G = {} /\ F \cap A = {}
  <2>1. F \subseteq OfHost /\ G \subseteq OfHost
    BY HostIdsOf
  <2>2. A \subseteq Given(b)
    BY DEF Given
  <2> HIDE DEF F, G, A
  <2> QED
    BY <1>2, <1>3, <2>1, <2>2, BeforeApart
<1> HIDE DEF F, G, A
<1>6. Before({}, O, F) /\ Before({}, O, G) /\ Before({}, F, A) /\ Before({}, G, A)
  BY <1>2, BeforeParts
<1>7. Before({}, Given(c) \ A, G)
  <2>1. Given(c) \ A = O \cup F
    BY <1>4, <1>5
  <2> QED
    BY <1>3, <1>6, <2>1, BeforeParts
<1>8. G \cap Given(c) = {} /\ F \cap Given(b) = {}
  BY <1>2, <1>4, <1>5
<1> QED
  BY <1>2, <1>3, <1>4, <1>6, <1>7, <1>8 DEF Fits, F, G, A

LEMMA Least ==
    ASSUME NEW S \in SUBSET Nat, S # {}
    PROVE  \E n \in S : \A m \in S : n <= m
<1> DEFINE R == StrictSubsetOrdering(Nat)
           F == FiniteSubsetsOf(Nat)
           I == {1 .. n : n \in S}
<1>1. IsWellFoundedOn(R, F)
    BY FS_StrictSubsetOrderingWellFounded
<1>2. I \subseteq F /\ I # {}
    <2>1. \A n \in Nat : 1 .. n \in FiniteSubsetsOf(Nat)
        BY FS_Interval DEF FiniteSubsetsOf
    <2> QED
        BY <2>1
<1>3. \E x \in I : \A y \in I : <<y, x>> \notin R
    <2> HIDE DEF R, F, I
    <2> QED
        BY <1>1, <1>2, WFMin
<1>4. PICK n \in S : \A m \in S : <<1 .. m, 1 .. n>> \notin R
    BY <1>3
<1>5. ASSUME NEW m \in S, m < n PROVE FALSE
    <2>1. n \in 1 .. n /\ n \notin 1 .. m
        BY <1>5
    <2>2. 1 .. m \subseteq 1 .. n /\ 1 .. m # 1 .. n /\ 1 .. m \subseteq Nat /\ 1 .. n \subseteq Nat
        BY <1>5, <2>1
    <2>3. <<1 .. m, 1 .. n>> \in R
        BY <2>2, Zenon DEF StrictSubsetOrdering
    <2> QED
        BY <1>4, <2>3
<1> QED
    BY <1>4, <1>5

LEMMA FirstEnterIs ==
  ASSUME NEW ks \in Seq(Keystroke), Enters(ks) # {}, NEW n, n = FirstEnter(ks)
  PROVE  n \in 1 .. Len(ks)
<1>1. Enters(ks) \in SUBSET Nat /\ Enters(ks) \subseteq 1 .. Len(ks)
  BY DEF Enters
<1>2. \E i \in Enters(ks) : \A j \in Enters(ks) : i <= j
  BY <1>1, Least
<1>3. n \in Enters(ks)
  BY <1>2 DEF FirstEnter
<1> QED
  BY <1>1, <1>3

LEMMA Joining ==
  ASSUME NEW T, NEW s \in Seq(T), NEW t \in Seq(T)
  PROVE  /\ s \o t \in Seq(T) /\ Len(s \o t) = Len(s) + Len(t)
         /\ \A i \in 1 .. Len(s) : (s \o t)[i] = s[i]
         /\ \A i \in 1 .. Len(t) : (s \o t)[Len(s) + i] = t[i]
OBVIOUS

LEMMA Pieces ==
  ASSUME NEW ks \in Seq(Keystroke), NEW n \in 1 .. Len(ks)
  PROVE  /\ SubSeq(ks, 1, n - 1) \in Seq(Keystroke) /\ ks[n] \in Keystroke /\ Rest(ks, n) \in Seq(Keystroke)
         /\ <<ks[n]>> \in Seq(Keystroke) /\ SubSeq(ks, 1, n - 1) \o <<ks[n]>> \in Seq(Keystroke)
         /\ ks = (SubSeq(ks, 1, n - 1) \o <<ks[n]>>) \o Rest(ks, n)
<1>1. Len(ks) \in Nat /\ ks[n] \in Keystroke
  OBVIOUS
<1> DEFINE f == SubSeq(ks, 1, n - 1)
           k == ks[n]
           r == SubSeq(ks, n + 1, Len(ks))
<1>2. f \in Seq(Keystroke) /\ Len(f) = n - 1 /\ \A i \in 1 .. n - 1 : f[i] = ks[i]
  BY <1>1
<1>3. r \in Seq(Keystroke) /\ Len(r) = Len(ks) - n /\ \A i \in 1 .. Len(ks) - n : r[i] = ks[n + i]
  BY <1>1
<1> DEFINE g == <<k>>
<1>4. g \in Seq(Keystroke) /\ Len(g) = 1 /\ g[1] = k
  BY <1>1
<1> HIDE DEF f, r, g, k, Keystroke
<1> DEFINE h == f \o g
<1>5. h \in Seq(Keystroke) /\ Len(h) = n /\ (\A i \in 1 .. n - 1 : h[i] = f[i]) /\ h[n] = k
  <2>1. /\ h \in Seq(Keystroke) /\ Len(h) = Len(f) + Len(g) /\ (\A i \in 1 .. Len(f) : h[i] = f[i])
        /\ \A i \in 1 .. Len(g) : h[Len(f) + i] = g[i]
    <3> HIDE DEF Keystroke
    <3>1. f \in Seq(Keystroke) /\ g \in Seq(Keystroke)
      BY <1>2, <1>4
    <3>2. h \in Seq(Keystroke) /\ Len(h) = Len(f) + Len(g)
      BY <3>1, Joining, Zenon
    <3>3. \A i \in 1 .. Len(f) : h[i] = f[i]
      BY <3>1, Joining, Zenon
    <3>4. \A i \in 1 .. Len(g) : h[Len(f) + i] = g[i]
      BY <3>1
    <3> QED
      BY <3>2, <3>3, <3>4
  <2>2. n \in Nat /\ 1 \in 1 .. Len(g) /\ (n - 1) + 1 = n
    BY <1>4
  <2> QED
    BY <1>2, <1>4, <2>1, <2>2
<1> HIDE DEF h
<1>6. h \o r \in Seq(Keystroke) /\ Len(h \o r) = Len(ks) /\ \A i \in 1 .. Len(ks) : (h \o r)[i] = ks[i]
  <2>1. /\ h \o r \in Seq(Keystroke) /\ Len(h \o r) = Len(ks) /\ (\A i \in 1 .. n : (h \o r)[i] = h[i])
        /\ \A i \in 1 .. Len(ks) - n : (h \o r)[n + i] = r[i]
    <3>1. h \in Seq(Keystroke) /\ r \in Seq(Keystroke)
      BY <1>3, <1>5
    <3>2. /\ h \o r \in Seq(Keystroke) /\ Len(h \o r) = Len(h) + Len(r) /\ (\A i \in 1 .. Len(h) : (h \o r)[i] = h[i])
          /\ \A i \in 1 .. Len(r) : (h \o r)[Len(h) + i] = r[i]
      <4>1. h \o r \in Seq(Keystroke) /\ Len(h \o r) = Len(h) + Len(r)
        BY <3>1, Joining, Zenon
      <4>2. \A i \in 1 .. Len(h) : (h \o r)[i] = h[i]
        BY <3>1, Joining, Zenon
      <4>3. \A i \in 1 .. Len(r) : (h \o r)[Len(h) + i] = r[i]
        <5> HIDE DEF h
        <5> QED
          BY <3>1
      <4> QED
        BY <4>1, <4>2, <4>3, Zenon
    <3>3. Len(h) + Len(r) = Len(ks)
      BY <1>1, <1>3, <1>5
    <3> QED
      BY <1>3, <1>5, <3>2, <3>3, Zenon
  <2>2. ASSUME NEW i \in 1 .. Len(ks) PROVE (h \o r)[i] = ks[i]
    <3>1. CASE i <= n - 1
      BY <1>2, <1>5, <2>1, <3>1
    <3>2. CASE i = n
      BY <1>5, <2>1, <3>2 DEF k
    <3>3. CASE i > n
      <4>1. i - n \in 1 .. Len(ks) - n /\ i = n + (i - n)
        BY <1>1, <3>3
      <4>2. (h \o r)[n + (i - n)] = r[i - n] /\ r[i - n] = ks[n + (i - n)]
        BY <1>3, <2>1, <4>1
      <4> QED
        BY <4>1, <4>2
    <3> QED
      <4> HIDE DEF h
      <4>1. i \in Int /\ n \in Int
        BY <2>2
      <4>2. i <= n - 1 \/ i = n \/ i > n
        BY <4>1
      <4> QED
        BY <3>1, <3>2, <3>3, <4>2
  <2> QED
    BY <2>1, <2>2
<1>7. ks = h \o r
  <2> DEFINE w == h \o r
  <2>1. w \in Seq(Keystroke) /\ Len(w) = Len(ks) /\ \A i \in 1 .. Len(ks) : w[i] = ks[i]
    BY <1>6
  <2> HIDE DEF w
  <2>2. \A x, y \in Seq(Keystroke) : Len(x) = Len(y) /\ (\A i \in 1 .. Len(y) : x[i] = y[i]) => x = y
    OBVIOUS
  <2>3. ks = w
    BY <2>1, <2>2
  <2> QED
    BY <2>3 DEF w
<1> QED
  BY <1>1, <1>2, <1>3, <1>4, <1>5, <1>7 DEF f, g, h, r, k, Rest

LEMMA HeadAndTail ==
  ASSUME NEW T, NEW s \in Seq(T), s # << >>
  PROVE  /\ Head(s) \in T /\ Tail(s) \in Seq(T) /\ <<Head(s)>> \in Seq(T) /\ s = <<Head(s)>> \o Tail(s)
         /\ Len(Tail(s)) = Len(s) - 1
OBVIOUS

(* What Consumed makes of text typed ahead: nothing is lost or overtaken.   *)
LEMMA TakenUp ==
  ASSUME NEW b, BoxOK(b), b.ahead # << >>, NEW c, c = Consumed(b)
  PROVE  BoxOK(c) /\ Changes(b, c, Moved) /\ (~replaying => Given(c) = Given(b))
<1> DEFINE a == b.ahead
<1>1. a \in Seq(Keystroke) /\ b.raw \in BOOLEAN
  BY DEF BoxOK, BoxType
<1>2. CASE b.raw = TRUE
  <2> DEFINE f == <<Head(a)>>
             r == Tail(a)
  <2>1. f \in Seq(Keystroke) /\ r \in Seq(Keystroke) /\ a = f \o r
    BY <1>1, HeadAndTail
  <2>2. PICK d : d = [b EXCEPT !.ahead = r]
    OBVIOUS
  <2>3. c = Deliver(d, f)
    BY <1>2, <2>2 DEF Consumed
  <2> HIDE DEF f, r
  <2>4. BoxOK(d) /\ Changes(b, d, {"ahead"}) /\ Fits(d, f) /\ (~replaying => Given(d) \cup HostIds(f) = Given(b))
    BY <2>1, <2>2, AheadCut
  <2>5. d.raw = TRUE
    BY <1>2, <2>4 DEF Changes, BoxFields
  <2>6. Admits(d, f)
    BY <2>4, <2>5, RawGoesOn
  <2>7. BoxOK(c) /\ Changes(d, c, {"ring", "dropped", "raised"}) /\ (~replaying => Given(c) = Given(d) \cup HostIds(f))
    BY <2>1, <2>3, <2>4, <2>6, Delivered
  <2>8. Changes(b, c, Moved)
    BY <2>4, <2>7, ChangesOn DEF Moved, Taken
  <2> QED
    BY <2>4, <2>7, <2>8
<1>3. CASE b.raw = FALSE /\ Enters(a) = {}
  <2> DEFINE r == << >>
  <2>1. r \in Seq(Keystroke) /\ a = a \o r
    BY <1>1
  <2>2. PICK d : d = [b EXCEPT !.ahead = r]
    OBVIOUS
  <2>3. c = Insert(d, a)
    BY <1>3, <2>2 DEF Consumed
  <2> HIDE DEF r
  <2>4. BoxOK(d) /\ Changes(b, d, {"ahead"}) /\ Fits(d, a) /\ (~replaying => Given(d) \cup HostIds(a) = Given(b))
    BY <1>1, <2>1, <2>2, AheadCut
  <2>5. d.raw = FALSE
    BY <1>3, <2>4 DEF Changes, BoxFields
  <2>6. Carries(d, c, a)
    BY <1>1, <2>3, <2>4, <2>5, Inserted
  <2>7. Changes(b, c, Moved)
    BY <2>4, <2>6, ChangesOn DEF Carries, Moved, Taken
  <2> QED
    BY <2>4, <2>6, <2>7 DEF Carries
<1>4. CASE b.raw = FALSE /\ Enters(a) # {}
  <2>1. PICK n : n = FirstEnter(a)
    OBVIOUS
  <2>2. n \in 1 .. Len(a)
    BY <1>1, <1>4, <2>1, FirstEnterIs
  <2> DEFINE f == SubSeq(a, 1, n - 1)
             k == a[n]
             g == <<k>>
             r == Rest(a, n)
  <2>3. /\ f \in Seq(Keystroke) /\ k \in Keystroke /\ g \in Seq(Keystroke) /\ r \in Seq(Keystroke)
        /\ f \o g \in Seq(Keystroke) /\ a = (f \o g) \o r
    BY <1>1, <2>2, Pieces
  <2>4. PICK d : d = [b EXCEPT !.ahead = r]
    OBVIOUS
  <2>5. PICK e : e = Insert(d, f)
    OBVIOUS
  <2>6. c = Submit(e, k)
    BY <1>4, <2>1, <2>4, <2>5 DEF Consumed
  <2> HIDE DEF f, k, r
  <2>7. /\ BoxOK(d) /\ Changes(b, d, {"ahead"}) /\ Fits(d, f \o g) /\ (~replaying => Given(d) \cup HostIds(f \o g) = Given(b))
    BY <2>3, <2>4, AheadCut
  <2>8. d.raw = FALSE
    BY <1>4, <2>7 DEF Changes, BoxFields
  <2>9. Fits(d, f)
    <3> SUFFICES ASSUME ~replaying PROVE Fits(d, f)
      BY DEF Fits
    <3> DEFINE F == HostIds(f)
               G == HostIds(g)
               A == HostIds(d.ahead)
               O == Given(d) \ A
    <3>1. HostIds(f \o g) = F \cup G
      BY <2>3, IdsJoined
    <3>2. /\ Sorted({}, f \o g) /\ Before({}, O, F \cup G) /\ Before({}, F \cup G, A) /\ (F \cup G) \cap Given(d) = {}
          /\ (ScriptKeepsOpen /\ d.closed = TRUE => F \cup G = {})
      BY <2>7, <3>1 DEF Fits
    <3>3. Sorted({}, f)
      BY <2>3, <3>2, OrderedParts
    <3> HIDE DEF F, G, A
    <3>4. Before({}, O, F) /\ Before({}, F, A) /\ F \cap Given(d) = {}
      BY <3>2, BeforeParts
    <3> QED
      BY <3>2, <3>3, <3>4 DEF Fits, F, A
  <2>10. Carries(d, e, f)
    BY <2>3, <2>5, <2>7, <2>8, <2>9, Inserted
  <2>11. Fits(e, g)
    <3> HIDE DEF g
    <3> QED
      BY <2>3, <2>7, <2>10, FitsNext
  <2>12. Carries(e, c, g)
    BY <2>3, <2>6, <2>10, <2>11, Submitted DEF Carries
  <2>13. Changes(b, c, Moved)
    <3>1. Changes(b, e, Moved)
      BY <2>7, <2>10, ChangesOn DEF Carries, Moved, Taken
    <3> QED
      BY <2>12, <3>1, ChangesOn DEF Carries, Moved, Taken
  <2>14. ASSUME ~replaying PROVE Given(c) = Given(b)
    <3>1. HostIds(f \o g) = HostIds(f) \cup HostIds(g)
      BY <2>3, IdsJoined
    <3> HIDE DEF g
    <3> QED
      BY <2>7, <2>10, <2>12, <2>14, <3>1 DEF Carries
  <2> QED
    BY <2>12, <2>13, <2>14 DEF Carries
<1> QED
  BY <1>1, <1>2, <1>3, <1>4

(* What a step of the machine makes of its input: it is all still there,    *)
(* and nothing but the host or a script closes it.                          *)
Goes(b, c) ==
  /\ BoxOK(c) /\ (~replaying => Given(c) = Given(b))
  /\ c.closed = TRUE \/ c.closing = TRUE => b.closed = TRUE \/ b.closing = TRUE

LEMMA GoesOn ==
  ASSUME NEW b, NEW c, NEW d, Goes(b, c), Goes(c, d) PROVE Goes(b, d)
BY DEF Goes

LEMMA Refilled ==
  ASSUME NEW b, BoxOK(b), NEW c, c = Refill(b)
  PROVE  Goes(b, c)
<1>1. PICK d : d = IF b.ahead = << >> \/ b.ring # << >> THEN b ELSE Consumed(b)
  OBVIOUS
<1>2. Goes(b, d)
  <2>1. CASE b.ahead = << >> \/ b.ring # << >>
    BY <1>1, <2>1 DEF Goes
  <2>2. CASE ~(b.ahead = << >> \/ b.ring # << >>)
    <3>1. d = Consumed(b)
      BY <1>1, <2>2
    <3>2. BoxOK(d) /\ Changes(b, d, Moved) /\ (~replaying => Given(d) = Given(b))
      BY <2>2, <3>1, TakenUp
    <3>3. d.closed = b.closed /\ d.closing = b.closing
      BY <3>2 DEF Changes, BoxFields, Moved, Taken
    <3> QED
      BY <3>2, <3>3 DEF Goes
  <2> QED
    BY <2>1, <2>2
<1>3. CASE d.ahead = << >> /\ d.closing
  <2>1. c = FinishClose(d)
    BY <1>1, <1>3 DEF Refill
  <2>2. BoxOK(c) /\ (~replaying => Given(c) = Given(d)) /\ d.closing = TRUE
    BY <1>2, <1>3, <2>1, ClosedForGood DEF Goes, BoxOK, BoxType
  <2> QED
    BY <1>2, <2>2 DEF Goes
<1>4. CASE ~(d.ahead = << >> /\ d.closing)
  <2>1. c = d
    BY <1>1, <1>4 DEF Refill
  <2> QED
    BY <1>2, <2>1
<1> QED
  BY <1>3, <1>4

LEMMA OneRead ==
  ASSUME NEW b, BoxOK(b), b.ring # << >>, NEW c, c = [b EXCEPT !.ring = Tail(@), !.saw = Saw(b, Head(b.ring).id)]
  PROVE  Goes(b, c)
<1> DEFINE h == Head(b.ring)
           t == Tail(b.ring)
           m == [cycle |-> b.cycle, id |-> h.id]
           one == <<h>>
           seen == <<m>>
           saw == Append(b.saw, m)
           l == IdsOf(b.left)
           S == HostIds(b.saw)
           T == HostIds(t)
           H == HostIds(one)
           L == HostIds(b.line)
           A == HostIds(b.ahead)
           X == LostIn(b)
           Looks == [cycle : Nat, id : Int]
<1>1. BoxType(b)
  BY DEF BoxOK
<1>2. b.ring \in Seq(Keystroke) /\ b.saw \in Seq(Looks) /\ b.cycle \in Nat /\ Len(b.ring) <= Capacity
  BY <1>1 DEF BoxType
<1>3. h \in Keystroke /\ t \in Seq(Keystroke) /\ one \in Seq(Keystroke) /\ b.ring = one \o t /\ Len(t) = Len(b.ring) - 1
  BY <1>2, HeadAndTail
<1>4. m \in Looks /\ seen \in Seq(Looks) /\ h.id \in Nat
  BY <1>2, <1>3 DEF Keystroke
<1>5. saw \in Seq(Looks) /\ saw = b.saw \o seen
  <2> HIDE DEF m
  <2>1. \A s \in Seq(Looks) : Append(s, m) \in Seq(Looks) /\ Append(s, m) = s \o <<m>>
    BY <1>4
  <2> QED
    BY <1>2, <2>1
<1>6. c = [b EXCEPT !.ring = t, !.saw = saw]
  BY DEF Saw
<1>7. H = {h.id} \cap OfHost /\ HostIds(seen) = H
  <2>1. HostIds(seen) = {m.id} \cap OfHost /\ H = {h.id} \cap OfHost
    BY HostIdsOf
  <2> QED
    BY <2>1
<1>8. HostIds(b.ring) = H \cup T /\ HostIds(saw) = S \cup H
  <2>1. HostIds(b.ring) = H \cup T
    BY <1>3, IdsJoined
  <2>2. HostIds(saw) = S \cup HostIds(seen)
    <3> HIDE DEF seen, saw, Looks
    <3> QED
      BY <1>2, <1>4, <1>5, IdsJoined
  <2> QED
    BY <1>7, <2>1, <2>2
<1>9. Told(saw) <=> Told(b.saw)
  <2>1. EndOfInput \notin Nat
    BY DEF EndOfInput
  <2>2. \A s \in Seq(Looks) : /\ DOMAIN s \subseteq DOMAIN Append(s, m)
                              /\ \A i \in DOMAIN s : Append(s, m)[i] = s[i]
                              /\ \A i \in DOMAIN Append(s, m) : i \in DOMAIN s \/ Append(s, m)[i] = m
    <3> HIDE DEF m, Looks
    <3> QED
      BY <1>4
  <2>3. m.id # EndOfInput
    BY <1>4, <2>1
  <2> HIDE DEF m
  <2>4. /\ DOMAIN b.saw \subseteq DOMAIN saw /\ \A i \in DOMAIN b.saw : saw[i] = b.saw[i]
        /\ \A i \in DOMAIN saw : i \in DOMAIN b.saw \/ saw[i] = m
    BY <1>2, <2>2
  <2> HIDE DEF saw
  <2> QED
    BY <2>3, <2>4 DEF Told
<1> HIDE DEF saw, t
<1>10. Changes(b, c, {"ring", "saw"}) /\ c.ring = t /\ c.saw = saw
  BY <1>1, <1>6 DEF BoxType, BoxForm, BoxFields, Changes
<1>11. /\ c.line = b.line /\ c.ahead = b.ahead /\ c.cut = b.cut /\ c.left = b.left /\ c.raw = b.raw
       /\ c.closed = b.closed /\ c.closing = b.closing /\ c.program = b.program /\ c.period = b.period /\ c.op = b.op
       /\ c.cycle = b.cycle /\ c.due = b.due /\ c.dropped = b.dropped /\ BoxForm(c)
  BY <1>10 DEF Changes, BoxFields
<1>12. BoxType(c)
  <2>1. Len(t) <= Capacity
    BY <1>2, <1>3, SizeAssumption
  <2> QED
    BY <1>1, <1>3, <1>5, <1>10, <1>11, <2>1 DEF BoxType
<1>13. LostIn(c) = X /\ Given(c) = Given(b)
  <2>1. LostIn(c) = X
    BY <1>11 DEF LostIn
  <2> QED
    BY <1>8, <1>10, <1>11, <2>1 DEF Given
<1>14. ASSUME ~replaying PROVE BoxOrder(c) /\ (ScriptKeepsOpen => BoxEnd(c))
  <2>1. /\ Sorted(l, b.saw) /\ Sorted(l, b.ring) /\ Sorted(l, b.line) /\ Sorted({}, b.ahead)
        /\ Before(l, S, H \cup T) /\ Before(l, S, L) /\ Before(l, H \cup T, L) /\ Before({}, Given(b) \ A, A)
        /\ X \cap (S \cup (H \cup T) \cup L) = {} /\ A \cap (S \cup (H \cup T) \cup L \cup X) = {} /\ (b.raw = TRUE => L \subseteq l)
    BY <1>8, <1>14 DEF BoxOK, BoxOrder
  <2>2. Sorted(l, t) /\ Before(l, H, T)
    <3>1. Sorted(l, one \o t)
      BY <1>3, <2>1
    <3> HIDE DEF one
    <3> QED
      BY <1>3, <3>1, OrderedParts
  <2>3. Before(l, S, H) /\ Before(l, S, T) /\ Before(l, H, L) /\ Before(l, T, L)
    <3> HIDE DEF l, S, T, H, L
    <3> QED
      BY <2>1, BeforeParts
  <2>4. Sorted(l, saw)
    <3>1. Sorted(l, seen) /\ Before(l, HostIds(b.saw), HostIds(seen))
      BY <1>7, <2>3, HostIdsOf
    <3> HIDE DEF seen, Looks
    <3> QED
      BY <1>2, <1>4, <1>5, <2>1, <3>1, IdsJoined
  <2>5. Before(l, S \cup H, T) /\ Before(l, S \cup H, L)
    <3>1. Before(l, S, T) /\ Before(l, H, T) /\ Before(l, S, L) /\ Before(l, H, L)
      BY <2>1, <2>2, <2>3
    <3> HIDE DEF l, S, T, H, L
    <3> QED
      BY <3>1, BeforeParts
  <2>6. X \cap ((S \cup H) \cup T \cup L) = {} /\ A \cap ((S \cup H) \cup T \cup L \cup X) = {}
    BY <2>1
  <2> HIDE DEF S, T, H, L, A, X, l
  <2>7. BoxOrder(c)
    BY <1>8, <1>10, <1>11, <1>13, <2>1, <2>2, <2>3, <2>4, <2>5, <2>6 DEF BoxOrder, S, T, H, L, A, X, l
  <2>8. ScriptKeepsOpen => BoxEnd(c)
    BY <1>8, <1>9, <1>10, <1>11, <1>14 DEF BoxOK, BoxEnd, T
  <2> QED
    BY <2>7, <2>8
<1> QED
  BY <1>11, <1>12, <1>13, <1>14 DEF BoxOK, Goes

LEMMA NothingRead ==
  ASSUME NEW b, BoxOK(b), b.ring = << >>, NEW id, id = (IF b.closed THEN EndOfInput ELSE Nothing),
         NEW c, c = [b EXCEPT !.saw = Saw(b, id)]
  PROVE  Goes(b, c)
<1> DEFINE m == [cycle |-> b.cycle, id |-> id]
           seen == <<m>>
           saw == Append(b.saw, m)
           l == IdsOf(b.left)
           Looks == [cycle : Nat, id : Int]
<1>1. BoxType(b)
  BY DEF BoxOK
<1>2. b.saw \in Seq(Looks) /\ b.cycle \in Nat /\ b.closed \in BOOLEAN
  BY <1>1 DEF BoxType
<1>3. id \in {EndOfInput, Nothing} /\ (id = EndOfInput => b.closed = TRUE) /\ id \in Int /\ id \notin OfHost
  BY <1>2, SizeAssumption DEF EndOfInput, Nothing, OfHost
<1>4. m \in Looks /\ seen \in Seq(Looks)
  BY <1>2, <1>3
<1>5. saw \in Seq(Looks) /\ saw = b.saw \o seen
  <2> HIDE DEF m
  <2>1. \A s \in Seq(Looks) : Append(s, m) \in Seq(Looks) /\ Append(s, m) = s \o <<m>>
    BY <1>4
  <2> QED
    BY <1>2, <2>1
<1>6. HostIds(seen) = {}
  <2>1. HostIds(seen) = {m.id} \cap OfHost
    BY HostIdsOf
  <2> QED
    BY <1>3, <2>1
<1>7. HostIds(saw) = HostIds(b.saw)
  <2>1. HostIds(saw) = HostIds(b.saw) \cup HostIds(seen)
    <3> HIDE DEF seen, saw, Looks
    <3> QED
      BY <1>2, <1>4, <1>5, IdsJoined
  <2> QED
    BY <1>6, <2>1
<1>8. Told(saw) => Told(b.saw) \/ b.closed = TRUE
  <2>1. \A s \in Seq(Looks) : \A i \in DOMAIN Append(s, m) : (i \in DOMAIN s /\ Append(s, m)[i] = s[i]) \/ Append(s, m)[i] = m
    <3> HIDE DEF m, Looks
    <3> QED
      BY <1>4
  <2>2. m.id = id
    OBVIOUS
  <2> HIDE DEF m
  <2>3. \A i \in DOMAIN saw : (i \in DOMAIN b.saw /\ saw[i] = b.saw[i]) \/ saw[i] = m
    BY <1>2, <2>1
  <2> HIDE DEF saw
  <2> QED
    BY <1>3, <2>2, <2>3 DEF Told
<1>9. c = [b EXCEPT !.saw = saw]
  BY DEF Saw
<1> HIDE DEF saw
<1>10. Changes(b, c, {"saw"}) /\ c.saw = saw
  BY <1>1, <1>9 DEF BoxType, BoxForm, BoxFields, Changes
<1>11. /\ c.ring = b.ring /\ c.line = b.line /\ c.ahead = b.ahead /\ c.cut = b.cut /\ c.left = b.left /\ c.raw = b.raw
       /\ c.closed = b.closed /\ c.closing = b.closing /\ c.program = b.program /\ c.period = b.period /\ c.op = b.op
       /\ c.cycle = b.cycle /\ c.due = b.due /\ c.dropped = b.dropped /\ BoxForm(c)
  BY <1>10 DEF Changes, BoxFields
<1>12. BoxType(c)
  BY <1>1, <1>5, <1>10, <1>11 DEF BoxType
<1>13. LostIn(c) = LostIn(b) /\ Given(c) = Given(b)
  <2>1. LostIn(c) = LostIn(b)
    BY <1>11 DEF LostIn
  <2> QED
    BY <1>7, <1>10, <1>11, <2>1 DEF Given
<1>14. ASSUME ~replaying PROVE BoxOrder(c) /\ (ScriptKeepsOpen => BoxEnd(c))
  <2>1. BoxOrder(b) /\ (ScriptKeepsOpen => BoxEnd(b))
    BY <1>14 DEF BoxOK
  <2>2. Sorted(l, saw)
    <3>1. Sorted(l, seen) /\ Before(l, HostIds(b.saw), HostIds(seen)) /\ Sorted(l, b.saw)
      BY <1>6, <2>1, HostIdsOf DEF Before, BoxOrder
    <3> HIDE DEF seen, Looks, l
    <3> QED
      BY <1>2, <1>4, <1>5, <3>1, IdsJoined
  <2>3. BoxOrder(c)
    BY <1>7, <1>10, <1>11, <1>13, <2>1, <2>2 DEF BoxOrder
  <2>4. HostIds(b.ring) = {}
    BY HostIdsOf
  <2>5. ScriptKeepsOpen => BoxEnd(c)
    BY <1>8, <1>10, <1>11, <2>1, <2>4 DEF BoxEnd
  <2> QED
    BY <2>3, <2>5
<1> QED
  BY <1>11, <1>12, <1>13, <1>14 DEF BoxOK, Goes

LEMMA ReadOn ==
  ASSUME NEW b, BoxOK(b), NEW c, c = ReadInput(b)
  PROVE  Goes(b, c)
<1>1. PICK d : d = Refill(b)
  OBVIOUS
<1>2. Goes(b, d) /\ BoxOK(d)
  BY <1>1, Refilled DEF Goes
<1>3. CASE d.ring # << >>
  <2>1. c = [d EXCEPT !.ring = Tail(@), !.saw = Saw(d, Head(d.ring).id)]
    BY <1>1, <1>3 DEF ReadInput
  <2> QED
    BY <1>2, <1>3, <2>1, OneRead, GoesOn
<1>4. CASE d.ring = << >>
  <2>1. PICK id : id = IF d.closed THEN EndOfInput ELSE Nothing
    OBVIOUS
  <2>2. c = [d EXCEPT !.saw = Saw(d, id)]
    BY <1>1, <1>4, <2>1 DEF ReadInput
  <2> QED
    BY <1>2, <1>4, <2>1, <2>2, NothingRead, GoesOn
<1> QED
  BY <1>3, <1>4

(* The rest of a step touches the input only to lose the line or its place. *)
LEMMA LineLeft ==
  ASSUME NEW b, BoxOK(b), NEW c, c = [b EXCEPT !.raw = TRUE, !.notify = TRUE, !.left = @ \cup ToSet(b.line)]
  PROVE  Goes(b, c)
<1> DEFINE more == b.left \cup ToSet(b.line)
           l == IdsOf(b.left)
           k == IdsOf(c.left)
<1>1. BoxType(b)
  BY DEF BoxOK
<1>2. c = [b EXCEPT !.raw = TRUE, !.notify = TRUE, !.left = more]
  OBVIOUS
<1>3. more \in SUBSET Keystroke /\ HostIds(b.line) \subseteq IdsOf(more) /\ l \subseteq IdsOf(more)
  <2>1. b.line \in Seq(Keystroke) /\ b.left \in SUBSET Keystroke
    BY <1>1 DEF BoxType
  <2>2. \A s \in Seq(Keystroke) : ToSet(s) \in SUBSET Keystroke
    BY DEF ToSet
  <2> QED
    BY <2>1, <2>2 DEF HostIds, IdsOf, ToSet
<1> HIDE DEF more
<1>4. Changes(b, c, {"raw", "notify", "left"}) /\ c.raw = TRUE /\ c.left = more
  BY <1>1, <1>2 DEF BoxType, BoxForm, BoxFields, Changes
<1>5. /\ c.saw = b.saw /\ c.ring = b.ring /\ c.line = b.line /\ c.ahead = b.ahead /\ c.cut = b.cut
      /\ c.closed = b.closed /\ c.closing = b.closing /\ c.program = b.program /\ c.period = b.period /\ c.op = b.op
      /\ c.cycle = b.cycle /\ c.due = b.due /\ c.dropped = b.dropped /\ BoxForm(c)
  BY <1>4 DEF Changes, BoxFields
<1>6. BoxType(c)
  BY <1>1, <1>3, <1>4, <1>5 DEF BoxType
<1>7. LostIn(c) = LostIn(b) /\ Given(c) = Given(b)
  BY <1>5 DEF Given, LostIn
<1>8. ASSUME BoxOrder(b) PROVE BoxOrder(c)
  <2>1. l \subseteq k /\ HostIds(b.line) \subseteq k
    BY <1>3, <1>4
  <2>2. /\ Sorted(l, b.saw) /\ Sorted(l, b.ring) /\ Sorted(l, b.line)
        /\ Before(l, HostIds(b.saw), HostIds(b.ring)) /\ Before(l, HostIds(b.saw), HostIds(b.line))
        /\ Before(l, HostIds(b.ring), HostIds(b.line))
    BY <1>8 DEF BoxOrder
  <2> HIDE DEF l, k
  <2>3. /\ Sorted(k, b.saw) /\ Sorted(k, b.ring) /\ Sorted(k, b.line)
        /\ Before(k, HostIds(b.saw), HostIds(b.ring)) /\ Before(k, HostIds(b.saw), HostIds(b.line))
        /\ Before(k, HostIds(b.ring), HostIds(b.line))
    BY <2>1, <2>2, BeforeMore
  <2> QED
    BY <1>5, <1>7, <1>8, <2>1, <2>3 DEF BoxOrder, k
<1>9. BoxEnd(b) => BoxEnd(c)
  BY <1>5 DEF BoxEnd
<1> QED
  BY <1>5, <1>6, <1>7, <1>8, <1>9 DEF BoxOK, Goes

LEMMA LineDropped ==
  ASSUME NEW b, BoxOK(b), NEW c, c = ResetTerminal(b)
  PROVE  Goes(b, c)
<1> DEFINE more == b.cut \cup ToSet(b.line)
           none == << >>
           l == IdsOf(b.left)
           S == HostIds(b.saw)
           R == HostIds(b.ring)
           L == HostIds(b.line)
           A == HostIds(b.ahead)
           X == LostIn(b)
<1>1. BoxType(b)
  BY DEF BoxOK
<1>2. c = [b EXCEPT !.raw = FALSE, !.notify = FALSE, !.line = none, !.cut = more]
  BY DEF ResetTerminal
<1>3. b.line \in Seq(Keystroke) /\ b.cut \in SUBSET Keystroke
  BY <1>1 DEF BoxType
<1>4. more \in SUBSET Keystroke /\ IdsOf(ToSet(b.line)) \cap OfHost = L
  <2>1. \A s \in Seq(Keystroke) : ToSet(s) \in SUBSET Keystroke
    BY DEF ToSet
  <2> QED
    BY <1>3, <2>1 DEF HostIds, IdsOf, ToSet
<1>5. none \in Seq(Keystroke) /\ Len(none) <= MaxLine /\ HostIds(none) = {} /\ Sorted(l, none)
  BY SizeAssumption, HostIdsOf
<1> HIDE DEF more, none
<1>6. Changes(b, c, {"raw", "notify", "line", "cut"}) /\ c.raw = FALSE /\ c.line = none /\ c.cut = more
  BY <1>1, <1>2 DEF BoxType, BoxForm, BoxFields, Changes
<1>7. /\ c.saw = b.saw /\ c.ring = b.ring /\ c.left = b.left /\ c.ahead = b.ahead
      /\ c.closed = b.closed /\ c.closing = b.closing /\ c.program = b.program /\ c.period = b.period /\ c.op = b.op
      /\ c.cycle = b.cycle /\ c.due = b.due /\ c.dropped = b.dropped /\ BoxForm(c)
  BY <1>6 DEF Changes, BoxFields
<1>8. BoxType(c)
  BY <1>1, <1>4, <1>5, <1>6, <1>7 DEF BoxType
<1>9. LostIn(c) = X \cup L
  <2>1. c.cut = b.cut \cup ToSet(b.line) /\ c.dropped = b.dropped
    BY <1>6, <1>7 DEF more
  <2> QED
    BY <1>4, <2>1, LostParts
<1>10. Given(c) = Given(b)
  BY <1>5, <1>6, <1>7, <1>9 DEF Given
<1>11. ASSUME ~replaying PROVE BoxOrder(c) /\ (ScriptKeepsOpen => BoxEnd(c))
  <2>1. /\ Sorted(l, b.saw) /\ Sorted(l, b.ring) /\ Sorted(l, b.line) /\ Sorted({}, b.ahead)
        /\ Before(l, S, R) /\ Before(l, S, L) /\ Before(l, R, L) /\ Before({}, Given(b) \ A, A)
        /\ X \cap (S \cup R \cup L) = {} /\ A \cap (S \cup R \cup L \cup X) = {}
    BY <1>11 DEF BoxOK, BoxOrder
  <2>2. \A Y : Before(l, Y, {})
    BY DEF Before
  <2>3. S \subseteq OfHost /\ R \subseteq OfHost /\ L \subseteq OfHost
    BY HostIdsOf
  <2> HIDE DEF S, R, L, A, X, l
  <2>4. S \cap L = {} /\ R \cap L = {}
    BY <2>1, <2>3, BeforeApart
  <2>5. (X \cup L) \cap (S \cup R \cup {}) = {} /\ A \cap (S \cup R \cup {} \cup (X \cup L)) = {}
    BY <2>1, <2>4
  <2>6. BoxOrder(c)
    BY <1>5, <1>6, <1>7, <1>9, <1>10, <2>1, <2>2, <2>5 DEF BoxOrder, S, R, L, A, X, l
  <2>7. ScriptKeepsOpen => BoxEnd(c)
    BY <1>5, <1>6, <1>7, <1>11 DEF BoxOK, BoxEnd
  <2> QED
    BY <2>6, <2>7
<1> QED
  BY <1>7, <1>8, <1>10, <1>11 DEF BoxOK, Goes

(* The fields of the machine that hold none of its input.                   *)
Clockwork == {"op", "on", "again", "cycle", "due", "halted", "raised"}
LEMMA ClockOnly ==
  ASSUME NEW b, BoxOK(b), NEW c, Changes(b, c, Clockwork \cup {"raw", "notify"}), c.raw = TRUE => b.raw = TRUE,
         c.raw \in BOOLEAN, c.op \in Nat \ {0}, c.cycle \in Nat, c.due \in Nat
  PROVE  Goes(b, c)
<1>1. /\ c.saw = b.saw /\ c.ring = b.ring /\ c.line = b.line /\ c.ahead = b.ahead /\ c.cut = b.cut /\ c.left = b.left
      /\ c.closed = b.closed /\ c.closing = b.closing /\ c.program = b.program /\ c.period = b.period
      /\ c.dropped = b.dropped /\ BoxForm(c)
  BY DEF Changes, BoxFields, Clockwork
<1>2. BoxType(c)
  BY <1>1 DEF BoxOK, BoxType
<1>3. BoxOK(c) /\ Given(c) = Given(b)
  BY <1>1, <1>2, Untouched
<1> QED
  BY <1>1, <1>3 DEF Goes

LEMMA OperatedOn ==
  ASSUME NEW b, BoxOK(b), NEW op \in Operation, NEW c, c = Operate(b, op)
  PROVE  Goes(b, c)
<1>1. BoxType(b)
  BY DEF BoxOK
<1>2. CASE op = "work"
  <2>1. c = b
    BY <1>2 DEF Operate
  <2> QED
    BY <2>1 DEF Goes
<1>3. CASE op = "read"
  <2>1. c = ReadInput(b)
    BY <1>3 DEF Operate
  <2> QED
    BY <2>1, ReadOn
<1>4. CASE op = "halt"
  <2>1. c = [b EXCEPT !.raised = FALSE] \/ c = [b EXCEPT !.halted = TRUE]
    BY <1>4 DEF Operate
  <2>2. Changes(b, c, Clockwork \cup {"raw", "notify"}) /\ c.raw = b.raw /\ c.op = b.op /\ c.cycle = b.cycle /\ c.due = b.due
    BY <1>1, <2>1 DEF BoxType, BoxForm, BoxFields, Changes, Clockwork
  <2> QED
    BY <1>1, <2>2, ClockOnly DEF BoxType
<1>5. CASE op = "raw"
  <2>1. c = [b EXCEPT !.raw = TRUE, !.notify = TRUE, !.left = @ \cup ToSet(b.line)]
    BY <1>5 DEF Operate
  <2> QED
    BY <2>1, LineLeft
<1>6. CASE op = "cooked"
  <2>1. c = [b EXCEPT !.raw = FALSE, !.notify = TRUE]
    BY <1>6 DEF Operate
  <2>2. Changes(b, c, Clockwork \cup {"raw", "notify"}) /\ c.raw = FALSE /\ c.op = b.op /\ c.cycle = b.cycle /\ c.due = b.due
    BY <1>1, <2>1 DEF BoxType, BoxForm, BoxFields, Changes, Clockwork
  <2> QED
    BY <1>1, <2>2, ClockOnly DEF BoxType
<1>7. CASE op = "restart"
  <2>1. c = [b EXCEPT !.on = FALSE, !.again = TRUE]
    BY <1>7 DEF Operate
  <2>2. Changes(b, c, Clockwork \cup {"raw", "notify"}) /\ c.raw = b.raw /\ c.op = b.op /\ c.cycle = b.cycle /\ c.due = b.due
    BY <1>1, <2>1 DEF BoxType, BoxForm, BoxFields, Changes, Clockwork
  <2> QED
    BY <1>1, <2>2, ClockOnly DEF BoxType
<1> QED
  BY <1>2, <1>3, <1>4, <1>5, <1>6, <1>7 DEF Operation

LEMMA Executed ==
  ASSUME NEW b, BoxOK(b), NEW c, c = Execute(b)
  PROVE  Goes(b, c)
<1>1. BoxType(b)
  BY DEF BoxOK
<1>2. CASE b.op > Len(b.program)
  <2>1. c = [b EXCEPT !.on = FALSE]
    BY <1>2 DEF Execute
  <2>2. Changes(b, c, Clockwork \cup {"raw", "notify"}) /\ c.raw = b.raw /\ c.op = b.op /\ c.cycle = b.cycle /\ c.due = b.due
    BY <1>1, <2>1 DEF BoxType, BoxForm, BoxFields, Changes, Clockwork
  <2> QED
    BY <1>1, <2>2, ClockOnly DEF BoxType
<1>3. CASE ~(b.op > Len(b.program))
  <2>1. b.program[b.op] \in Operation /\ b.op + 1 \in Nat \ {0} /\ b.cycle + 1 \in Nat
    BY <1>1, <1>3 DEF BoxType
  <2>2. PICK d : d = Operate(b, b.program[b.op])
    OBVIOUS
  <2>3. Goes(b, d) /\ BoxOK(d)
    <3> DEFINE o == b.program[b.op]
    <3>1. o \in Operation /\ d = Operate(b, o)
      BY <2>1, <2>2
    <3> HIDE DEF o, Operation
    <3> QED
      BY <3>1, OperatedOn DEF Goes
  <2> DEFINE n == b.op + 1
             k == b.cycle + 1
  <2>4. c = [d EXCEPT !.op = n, !.cycle = k]
    BY <1>3, <2>2 DEF Execute
  <2> HIDE DEF n, k
  <2>5. BoxType(d)
    BY <2>3 DEF BoxOK
  <2>6. Changes(d, c, Clockwork \cup {"raw", "notify"}) /\ c.raw = d.raw /\ c.op = n /\ c.cycle = k /\ c.due = d.due
    BY <2>4, <2>5 DEF BoxType, BoxForm, BoxFields, Changes, Clockwork
  <2>7. n \in Nat \ {0} /\ k \in Nat /\ d.due \in Nat /\ d.raw \in BOOLEAN
    BY <2>1, <2>5 DEF n, k, BoxType
  <2>8. Goes(d, c)
    BY <2>3, <2>6, <2>7, ClockOnly
  <2> QED
    BY <2>3, <2>8, GoesOn
<1> QED
  BY <1>2, <1>3

LEMMA Serviced ==
  ASSUME NEW b, BoxOK(b), NEW c, c = Service(b)
  PROVE  Goes(b, c)
<1>1. BoxType(b)
  BY DEF BoxOK
<1> DEFINE n == b.due + b.period
<1>2. n \in Nat
  BY <1>1 DEF BoxType
<1>3. c = [b EXCEPT !.raised = TRUE, !.due = n]
  BY DEF Service
<1> HIDE DEF n
<1>4. Changes(b, c, Clockwork \cup {"raw", "notify"}) /\ c.raw = b.raw /\ c.op = b.op /\ c.cycle = b.cycle /\ c.due = n
  BY <1>1, <1>3 DEF BoxType, BoxForm, BoxFields, Changes, Clockwork
<1> QED
  BY <1>1, <1>2, <1>4, ClockOnly DEF BoxType

LEMMA Stepped ==
  ASSUME NEW b, BoxOK(b), NEW c, c = Step(b)
  PROVE  Goes(b, c)
<1>1. PICK d : d = IF b.period > 0 /\ b.cycle >= b.due THEN Service(b) ELSE b
  OBVIOUS
<1>2. Goes(b, d) /\ BoxOK(d)
  <2>1. CASE b.period > 0 /\ b.cycle >= b.due
    BY <1>1, <2>1, Serviced DEF Goes
  <2>2. CASE ~(b.period > 0 /\ b.cycle >= b.due)
    BY <1>1, <2>2 DEF Goes
  <2> QED
    BY <2>1, <2>2
<1>3. BoxType(d)
  BY <1>2 DEF BoxOK
<1>4. CASE ~d.halted
  <2>1. c = Execute(d)
    BY <1>1, <1>4 DEF Step
  <2> QED
    BY <1>2, <2>1, Executed, GoesOn
<1>5. CASE d.halted /\ d.raised
  <2>1. PICK e : e = [d EXCEPT !.halted = FALSE, !.raised = FALSE]
    OBVIOUS
  <2>2. c = Execute(e)
    BY <1>1, <1>5, <2>1 DEF Step
  <2>3. Changes(d, e, Clockwork \cup {"raw", "notify"}) /\ e.raw = d.raw /\ e.op = d.op /\ e.cycle = d.cycle /\ e.due = d.due
    BY <1>3, <2>1 DEF BoxType, BoxForm, BoxFields, Changes, Clockwork
  <2>4. Goes(d, e) /\ BoxOK(e)
    BY <1>2, <1>3, <2>3, ClockOnly DEF BoxType, Goes
  <2>5. Goes(e, c)
    BY <2>2, <2>4, Executed
  <2> QED
    BY <1>2, <2>4, <2>5, GoesOn
<1>6. CASE d.halted /\ ~d.raised
  <2>1. c = IF d.period = 0 THEN d ELSE Service([d EXCEPT !.cycle = d.due])
    BY <1>1, <1>6 DEF Step
  <2>2. CASE d.period = 0
    BY <1>2, <2>1, <2>2
  <2>3. CASE d.period # 0
    <3>1. PICK e : e = [d EXCEPT !.cycle = d.due]
      OBVIOUS
    <3>2. Changes(d, e, Clockwork \cup {"raw", "notify"}) /\ e.raw = d.raw /\ e.op = d.op /\ e.cycle = d.due /\ e.due = d.due
      BY <1>3, <3>1 DEF BoxType, BoxForm, BoxFields, Changes, Clockwork
    <3>3. Goes(d, e) /\ BoxOK(e)
      BY <1>2, <1>3, <3>2, ClockOnly DEF BoxType, Goes
    <3>4. Goes(e, c)
      BY <2>1, <2>3, <3>1, <3>3, Serviced
    <3> QED
      BY <1>2, <3>3, <3>4, GoesOn
  <2> QED
    BY <2>2, <2>3
<1> QED
  BY <1>4, <1>5, <1>6

LEMMA Restarts ==
  ASSUME NEW b, BoxOK(b), NEW c, c = Restart(b)
  PROVE  Goes(b, c)
<1>1. PICK d : d = ResetTerminal(b)
  OBVIOUS
<1>2. Goes(b, d) /\ BoxOK(d)
  BY <1>1, LineDropped DEF Goes
<1>3. BoxType(b) /\ BoxType(d)
  BY <1>2 DEF BoxOK
<1> DEFINE t == b.period
           z == 0
<1>4. t \in Nat /\ z \in Nat
  BY <1>3 DEF BoxType
<1>5. c = [d EXCEPT !.on = TRUE, !.again = FALSE, !.cycle = z, !.due = t, !.halted = FALSE, !.raised = FALSE]
  BY <1>1 DEF Restart
<1> HIDE DEF t, z
<1>6. Changes(d, c, Clockwork \cup {"raw", "notify"}) /\ c.raw = d.raw /\ c.op = d.op /\ c.cycle = z /\ c.due = t
  BY <1>3, <1>5 DEF BoxType, BoxForm, BoxFields, Changes, Clockwork
<1>7. Goes(d, c)
  BY <1>2, <1>3, <1>4, <1>6, ClockOnly DEF BoxType
<1> QED
  BY <1>2, <1>7, GoesOn

LEMMA NewMachine ==
  ASSUME NEW p \in Seq(Operation), NEW t \in Nat, NEW b, b = NewBox(p, t)
  PROVE  BoxOK(b) /\ Given(b) = {} /\ b.closed = FALSE /\ b.closing = FALSE /\ b.program = p /\ b.period = t
<1> DEFINE none == << >>
<1>1. /\ b.saw = none /\ b.ring = none /\ b.line = none /\ b.ahead = none /\ b.dropped = {} /\ b.cut = {} /\ b.left = {}
      /\ b.closed = FALSE /\ b.closing = FALSE /\ b.raw = FALSE /\ b.program = p /\ b.period = t /\ b.op = 1
      /\ b.cycle = 0 /\ b.due = t
  BY DEF NewBox
<1>2. BoxForm(b)
  BY DEF NewBox, BoxForm, BoxFields
<1>3. none \in Seq(Keystroke) /\ none \in Seq([cycle : Nat, id : Int]) /\ Len(none) <= Capacity /\ Len(none) <= MaxLine
  BY SizeAssumption
<1>4. HostIds(none) = {} /\ (\A l : Sorted(l, none)) /\ ~Told(none)
  BY HostIdsOf DEF Told
<1> HIDE DEF none
<1>5. BoxType(b)
  <2>1. b.op \in Nat \ {0} /\ b.cycle \in Nat /\ b.due \in Nat
    BY <1>1
  <2>3. b.raw \in BOOLEAN /\ b.closed \in BOOLEAN /\ b.closing \in BOOLEAN
    BY DEF NewBox
  <2>2. b.dropped \in SUBSET Keystroke /\ b.cut \in SUBSET Keystroke /\ b.left \in SUBSET Keystroke
    BY <1>1
  <2> QED
    BY <1>1, <1>2, <1>3, <2>1, <2>2, <2>3 DEF BoxType
<1>6. LostIn(b) = {}
  BY <1>1 DEF LostIn, IdsOf
<1>7. Given(b) = {}
  BY <1>1, <1>4, <1>6 DEF Given
<1>8. BoxOrder(b)
  <2>1. \A l, X : Before(l, {}, X) /\ Before(l, X, {})
    BY DEF Before
  <2> QED
    BY <1>1, <1>4, <1>6, <1>7, <2>1 DEF BoxOrder
<1>9. BoxEnd(b)
  BY <1>1, <1>4 DEF BoxEnd
<1> QED
  BY <1>1, <1>5, <1>7, <1>8, <1>9 DEF BoxOK

-----------------------------------------------------------------------------
(* The hub.                                                                 *)

(* The events the hub handles: a key is one keystroke, and but for text and *)
(* keys they carry none.                                                    *)
Whole ==
  {e \in Event : /\ e.kind = "key" => Len(e.data) = 1
                 /\ e.kind \notin {"typed", "key"} => e.data = << >>}

LEMMA ScriptedWhole ==
  ASSUME NEW e \in Scripted
  PROVE  e \in Whole /\ HostIds(e.data) = {} /\ Sorted({}, e.data)
<1> DEFINE Others == [id : Nat \ OfHost, enter : BOOLEAN]
           d == e.data
<1>1. /\ d \in Seq(Others) /\ e.kind \in {"key", "close"} /\ e.at \in Nat /\ (e.kind = "key" => Len(d) = 1)
      /\ (e.kind # "key" => Len(d) = 0) /\ e = [kind |-> e.kind, data |-> d, at |-> e.at]
  BY DEF Scripted
<1>2. d \in Seq(Keystroke)
  <2>1. Others \subseteq Keystroke
    BY DEF Keystroke
  <2> HIDE DEF Others
  <2>2. \A s \in Seq(Others) : s \in Seq(Keystroke)
    BY <2>1
  <2> QED
    BY <1>1, <2>2
<1>3. HostIds(d) = {} /\ Sorted({}, d)
  <2>1. \A i \in DOMAIN d : d[i].id \notin OfHost
    <3>1. \A i \in DOMAIN d : d[i] \in Others
      <4> HIDE DEF Others, d
      <4> QED
        BY <1>1
    <3> QED
      BY <3>1
  <2> HIDE DEF d
  <2> QED
    BY <2>1 DEF HostIds, Sorted
<1>4. Len(d) = 0 => d = << >>
  <2> HIDE DEF d
  <2> QED
    BY <1>2
<1> HIDE DEF d
<1>5. e \in Whole
  <2>1. e \in Event
    BY <1>1, <1>2 DEF Event
  <2> QED
    BY <1>1, <1>4, <2>1 DEF Whole, d
<1> QED
  BY <1>3, <1>5 DEF d

LEMMA Applied ==
  ASSUME NEW b, BoxOK(b), NEW e \in Whole, Comes(b, e.data), NEW c, c = Apply(b, e)
  PROVE  /\ BoxOK(c) /\ (~replaying => Given(c) = Given(b) \cup HostIds(e.data))
         /\ c.closed = TRUE \/ c.closing = TRUE => b.closed = TRUE \/ b.closing = TRUE \/ e.kind = "close"
<1> DEFINE d == e.data
<1>1. /\ e \in Event /\ d \in Seq(Keystroke) /\ (e.kind = "key" => Len(d) = 1)
      /\ (e.kind \notin {"typed", "key"} => d = << >>)
  BY DEF Whole, Event
<1>2. CASE e.kind = "typed"
  <2>1. c = Type(b, d)
    BY <1>2 DEF Apply
  <2>2. BoxOK(c) /\ Changes(b, c, Moved) /\ (~replaying => Given(c) = Given(b) \cup HostIds(d))
    BY <1>1, <2>1, TextTyped
  <2>3. c.closed = b.closed /\ c.closing = b.closing
    BY <2>2 DEF Changes, BoxFields, Moved, Taken
  <2> QED
    BY <2>2, <2>3
<1>3. CASE e.kind = "key"
  <2> DEFINE k == d[1]
  <2>1. k \in Keystroke /\ d = <<k>>
    <3>1. Len(d) = 1 /\ d \in Seq(Keystroke)
      BY <1>1, <1>3
    <3> HIDE DEF d
    <3>2. k \in Keystroke /\ DOMAIN d = {1}
      <4> HIDE DEF Keystroke
      <4> QED
        BY <3>1
    <3>3. d = [i \in {1} |-> d[1]]
      <4>1. \A s \in Seq(Keystroke) : s = [i \in DOMAIN s |-> s[i]]
        OBVIOUS
      <4> QED
        BY <3>1, <3>2, <4>1
    <3>4. <<k>> = [i \in {1} |-> k]
      OBVIOUS
    <3> QED
      BY <3>2, <3>3, <3>4
  <2>2. c = TypeKeystroke(b, k)
    BY <1>3 DEF Apply
  <2> HIDE DEF k
  <2>3. Comes(b, <<k>>)
    BY <2>1
  <2>4. BoxOK(c) /\ Changes(b, c, Moved) /\ (~replaying => Given(c) = Given(b) \cup HostIds(<<k>>))
    BY <2>1, <2>2, <2>3, KeyTyped
  <2>5. c.closed = b.closed /\ c.closing = b.closing
    BY <2>4 DEF Changes, BoxFields, Moved, Taken
  <2> QED
    BY <2>1, <2>4, <2>5
<1>4. CASE e.kind = "close"
  <2>1. c = CloseInput(b)
    BY <1>4 DEF Apply
  <2>2. BoxOK(c) /\ (~replaying => Given(c) = Given(b))
    BY <2>1, InputClosed
  <2>3. HostIds(d) = {}
    BY <1>1, <1>4, HostIdsOf
  <2> QED
    BY <1>4, <2>2, <2>3
<1>5. CASE e.kind \notin {"typed", "key", "close"}
  <2>1. c = b
    BY <1>5 DEF Apply
  <2>2. HostIds(d) = {}
    BY <1>1, <1>5, HostIdsOf
  <2> QED
    BY <2>1, <2>2
<1> QED
  BY <1>2, <1>3, <1>4, <1>5

(* The queue, as a piece of the way.                                        *)
QueueIds(q) == UNION {HostIds(q[j].data) : j \in DOMAIN q}
QueueOrder(q) ==
  /\ \A j \in DOMAIN q : Sorted({}, q[j].data)
  /\ \A i, j \in DOMAIN q : i < j => Before({}, HostIds(q[i].data), HostIds(q[j].data))

LEMMA QueueOf ==
  /\ QueueIds(<< >>) = {} /\ QueueOrder(<< >>)
  /\ \A e : QueueIds(<<e>>) = HostIds(e.data) /\ (QueueOrder(<<e>>) <=> Sorted({}, e.data))
  /\ \A q : QueueIds(q) \subseteq OfHost
<1>1. QueueIds(<< >>) = {} /\ QueueOrder(<< >>)
  BY DEF QueueIds, QueueOrder
<1>2. ASSUME NEW e PROVE QueueIds(<<e>>) = HostIds(e.data) /\ (QueueOrder(<<e>>) <=> Sorted({}, e.data))
  <2>1. DOMAIN <<e>> = {1} /\ <<e>>[1] = e
    OBVIOUS
  <2> DEFINE q == <<e>>
  <2> HIDE DEF q
  <2>2. DOMAIN q = {1} /\ q[1] = e
    BY <2>1 DEF q
  <2>3. QueueIds(q) = HostIds(e.data) /\ (QueueOrder(q) <=> Sorted({}, e.data))
    BY <2>2 DEF QueueIds, QueueOrder
  <2> QED
    BY <2>3 DEF q
<1>3. \A q : QueueIds(q) \subseteq OfHost
  BY HostIdsOf DEF QueueIds
<1> QED
  BY <1>1, <1>2, <1>3

LEMMA QueueJoined ==
  ASSUME NEW T, NEW s \in Seq(T), NEW t \in Seq(T)
  PROVE  /\ QueueIds(s \o t) = QueueIds(s) \cup QueueIds(t)
         /\ QueueOrder(s \o t) <=> QueueOrder(s) /\ QueueOrder(t) /\ Before({}, QueueIds(s), QueueIds(t))
<1> DEFINE u == s \o t
           m == Len(s)
<1>1. /\ u \in Seq(T) /\ Len(u) = m + Len(t) /\ m \in Nat /\ Len(t) \in Nat
      /\ \A i \in 1 .. m : u[i] = s[i]
      /\ \A i \in 1 .. Len(t) : u[m + i] = t[i]
  OBVIOUS
<1>2. DOMAIN u = 1 .. Len(u) /\ DOMAIN s = 1 .. m /\ DOMAIN t = 1 .. Len(t)
  BY <1>1
<1> HIDE DEF u, m
<1>3. \A i \in DOMAIN u : (i \in DOMAIN s /\ u[i] = s[i]) \/ (i - m \in DOMAIN t /\ i \notin DOMAIN s /\ u[i] = t[i - m])
  BY <1>1, <1>2
<1>4. (\A i \in DOMAIN s : i \in DOMAIN u /\ u[i] = s[i]) /\ \A i \in DOMAIN t : m + i \in DOMAIN u /\ u[m + i] = t[i]
  BY <1>1, <1>2
<1>5. QueueIds(u) = QueueIds(s) \cup QueueIds(t)
  <2>1. QueueIds(u) \subseteq QueueIds(s) \cup QueueIds(t)
    BY <1>3 DEF QueueIds
  <2>2. QueueIds(s) \subseteq QueueIds(u) /\ QueueIds(t) \subseteq QueueIds(u)
    BY <1>4 DEF QueueIds
  <2> QED
    BY <2>1, <2>2
<1>6. ASSUME QueueOrder(u) PROVE QueueOrder(s) /\ QueueOrder(t) /\ Before({}, QueueIds(s), QueueIds(t))
  <2>1. (\A i, j \in DOMAIN t : i < j => m + i < m + j) /\ \A i \in DOMAIN s, j \in DOMAIN t : i < m + j
    BY <1>1, <1>2
  <2>2. QueueOrder(s) /\ QueueOrder(t)
    BY <1>4, <1>6, <2>1 DEF QueueOrder
  <2>3. ASSUME NEW i \in DOMAIN s, NEW j \in DOMAIN t PROVE Before({}, HostIds(s[i].data), HostIds(t[j].data))
    BY <1>4, <1>6, <2>1 DEF QueueOrder
  <2>4. Before({}, QueueIds(s), QueueIds(t))
    BY <2>3 DEF Before, QueueIds
  <2> QED
    BY <2>2, <2>4
<1>7. ASSUME QueueOrder(s), QueueOrder(t), Before({}, QueueIds(s), QueueIds(t)) PROVE QueueOrder(u)
  <2>1. \A j \in DOMAIN u : Sorted({}, u[j].data)
    BY <1>3, <1>7 DEF QueueOrder
  <2>2. ASSUME NEW i \in DOMAIN u, NEW j \in DOMAIN u, i < j PROVE Before({}, HostIds(u[i].data), HostIds(u[j].data))
    <3>1. CASE i \in DOMAIN s /\ j \in DOMAIN s
      BY <1>4, <1>7, <2>2, <3>1 DEF QueueOrder
    <3>2. CASE i \in DOMAIN s /\ j \notin DOMAIN s
      <4>1. HostIds(u[i].data) \subseteq QueueIds(s) /\ HostIds(u[j].data) \subseteq QueueIds(t)
        BY <1>3, <1>4, <3>2 DEF QueueIds
      <4> QED
        BY <1>7, <4>1, BeforeLess
    <3>3. CASE i \notin DOMAIN s
      <4>1. j \notin DOMAIN s
        BY <1>2, <2>2, <3>3, <1>1
      <4>2. i - m \in DOMAIN t /\ j - m \in DOMAIN t /\ u[i] = t[i - m] /\ u[j] = t[j - m] /\ i - m < j - m
        BY <1>1, <1>2, <1>3, <2>2, <3>3, <4>1
      <4> QED
        BY <1>7, <4>2 DEF QueueOrder
    <3> QED
      BY <3>1, <3>2, <3>3
  <2> QED
    BY <2>1, <2>2 DEF QueueOrder
<1> QED
  BY <1>5, <1>6, <1>7 DEF u

Made ==
  /\ queue \in Seq(Whole) /\ log \in Seq(Whole) /\ scripted \in Seq(Scripted) /\ inhand \in Whole
  /\ next \in 1 .. Len(log) + 1 /\ posted \in 0 .. MaxPosts
  /\ pc \in {"top", "script", "queue", "apply", "replay", "pace", "slice", "ended"}
  /\ pc # "apply" => inhand = Nobody
  /\ pc = "replay" => replaying

(* The host's keystrokes are in the machine, in the hand or in the queue,   *)
(* in this order, and those are all of them.                                *)
Waiting(b, e, q, n) ==
  /\ Sorted({}, e.data) /\ QueueOrder(q)
  /\ Before({}, Given(b), HostIds(e.data)) /\ Before({}, Given(b) \cup HostIds(e.data), QueueIds(q))
  /\ Given(b) \cup HostIds(e.data) \cup QueueIds(q) = 1 .. n

(* Without a script's close the end of the input is the last thing in the   *)
(* queue, and behind it nothing waits.                                      *)
EndWaits(b, e, q, s, done) ==
  /\ \A i \in DOMAIN s : s[i].kind = "key"
  /\ b.closed = TRUE \/ b.closing = TRUE \/ e.kind = "close" => q = << >> /\ done /\ HostIds(e.data) = {}
  /\ \A j \in DOMAIN q : q[j].kind = "close" => j = Len(q) /\ done

Hub ==
  ~replaying =>
    /\ Waiting(box, inhand, queue, posted)
    /\ ScriptKeepsOpen => EndWaits(box, inhand, queue, scripted, hostClosed)

IInv == BoxOK(box) /\ Made /\ Hub

LEMMA NobodyIs ==
  Nobody \in Whole /\ HostIds(Nobody.data) = {} /\ Sorted({}, Nobody.data) /\ Nobody.kind # "close" /\ Nobody.kind # "typed"
<1>1. Nobody = [kind |-> "none", data |-> << >>, at |-> 0]
  BY DEF Nobody, Plain
<1> DEFINE none == << >>
<1>2. none \in Seq(Keystroke) /\ HostIds(none) = {} /\ Sorted({}, none)
  BY HostIdsOf
<1> HIDE DEF none
<1>3. Nobody.data = none /\ Nobody.kind = "none" /\ Nobody.at = 0 /\ Nobody = [kind |-> "none", data |-> none, at |-> 0]
  BY <1>1 DEF none
<1>4. Nobody \in Event
  BY <1>2, <1>3 DEF Event
<1>5. Nobody.data = << >>
  BY <1>1
<1> QED
  BY <1>2, <1>3, <1>4, <1>5 DEF Whole

(* BoxOK of the machine after a step.                                       *)
LEMMA NextBox ==
  ASSUME BoxOK(box'), replaying' = replaying PROVE BoxOK(box)'
BY DEF BoxOK

(* A step of the machine alone, or of nothing but the runner's own place.   *)
LEMMA OnlyTheBox ==
  ASSUME IInv, Goes(box, box'), UNCHANGED <<queue, inhand, scripted, replaying, posted, hostClosed>>, Made'
  PROVE  IInv'
<1>1. BoxOK(box)'
  BY NextBox DEF Goes
<1>2. Hub'
  <2>1. Hub
    BY DEF IInv
  <2> QED
    BY <2>1 DEF Hub, Waiting, EndWaits, Goes
<1> QED
  BY <1>1, <1>2 DEF IInv

LEMMA Stays ==
  ASSUME IInv PROVE Goes(box, box)
BY DEF IInv, Goes

LEMMA WholeLog ==
  ASSUME Made, NEW e \in Whole
  PROVE  Append(log, e) \in Seq(Whole) /\ next \in 1 .. Len(Append(log, e)) + 1
BY DEF Made

LEMMA StampedWhole ==
  ASSUME BoxOK(box), NEW e \in Whole PROVE Stamped(e) \in Whole
BY DEF BoxOK, BoxType, Stamped, Whole, Event

LEMMA PlainWhole ==
  /\ \A n \in Nat : Plain("reset", n) \in Whole /\ Plain("quit", n) \in Whole /\ Plain("close", n) \in Whole
  /\ \A n : Plain("close", n).kind = "close" /\ Plain("close", n).data = << >>
BY DEF Plain, Whole, Event

LEMMA SmallSteps ==
  ASSUME IInv, RunEnds \/ HostStays \/ ScriptDone \/ InjectEnds \/ ReplayDone \/ PaceWaits \/ SliceStarts \/ HostQuits
  PROVE  IInv'
<1>1. Made /\ BoxOK(box)
  BY DEF IInv
<1>2. CASE RunEnds \/ HostStays \/ ScriptDone \/ InjectEnds \/ ReplayDone \/ PaceWaits \/ SliceStarts
  <2>1. /\ UNCHANGED <<box, queue, inhand, scripted, replaying, posted, hostClosed, log, next>>
        /\ pc # "apply" /\ pc' \in {"top", "script", "queue", "replay", "pace", "slice", "ended"}
        /\ pc' = "replay" => replaying
    BY <1>2 DEF RunEnds, HostStays, ScriptDone, InjectEnds, ReplayDone, PaceWaits, SliceStarts
  <2>2. Made'
    BY <1>1, <2>1 DEF Made
  <2> QED
    BY <2>1, <2>2, Stays, OnlyTheBox
<1>3. CASE HostQuits
  <2> DEFINE e == Plain("quit", box.cycle)
  <2>1. /\ UNCHANGED <<box, queue, inhand, scripted, replaying, posted, hostClosed, next>>
        /\ pc = "top" /\ pc' = "ended" /\ log' = Append(log, e)
    BY <1>3 DEF HostQuits
  <2>2. e \in Whole
    BY <1>1, PlainWhole DEF BoxOK, BoxType
  <2> HIDE DEF e
  <2>3. log' \in Seq(Whole) /\ next' \in 1 .. Len(log') + 1
    BY <1>1, <2>1, <2>2, WholeLog
  <2>4. Made'
    BY <1>1, <2>1, <2>3 DEF Made
  <2> QED
    BY <2>1, <2>4, Stays, OnlyTheBox
<1> QED
  BY <1>2, <1>3

LEMMA RestartStep ==
  ASSUME IInv, MachineRestarts PROVE IInv'
<1>1. Made /\ BoxOK(box)
  BY DEF IInv
<1>2. UNCHANGED <<pc, queue, inhand, scripted, replaying, posted, hostClosed>> /\ pc = "top" /\ Restarted /\ box' = Restart(box)
  BY DEF MachineRestarts
<1>3. Goes(box, box')
  BY <1>1, <1>2, Restarts
<1>4. log' \in Seq(Whole) /\ next' \in 1 .. Len(log') + 1
  <2>1. CASE replaying
    BY <1>1, <1>2, <2>1 DEF Restarted, Made
  <2>2. CASE ~replaying
    <3> DEFINE e == Plain("reset", 0)
    <3>1. e \in Whole /\ log' = Append(log, e) /\ next' = next
      BY <1>2, <2>2, PlainWhole DEF Restarted
    <3> HIDE DEF e
    <3> QED
      BY <1>1, <3>1, WholeLog
  <2> QED
    BY <2>1, <2>2
<1>5. Made'
  BY <1>1, <1>2, <1>4 DEF Made
<1> QED
  BY <1>2, <1>3, <1>5, OnlyTheBox

LEMMA MachineStep ==
  ASSUME IInv, MachineSteps PROVE IInv'
<1>1. Made /\ BoxOK(box)
  BY DEF IInv
<1>2. /\ UNCHANGED <<queue, inhand, scripted, log, next, replaying, posted, hostClosed>> /\ pc = "slice" /\ box' = Step(box)
      /\ pc' \in {"top", "slice"}
  BY DEF MachineSteps
<1>3. Goes(box, box')
  BY <1>1, <1>2, Stepped
<1>4. Made'
  BY <1>1, <1>2 DEF Made
<1> QED
  BY <1>2, <1>3, <1>4, OnlyTheBox

LEMMA ReplayStep ==
  ASSUME IInv, ReplayOne PROVE IInv'
<1>1. Made /\ BoxOK(box) /\ replaying
  BY DEF IInv, Made, ReplayOne
<1>2. /\ UNCHANGED <<queue, inhand, scripted, log, replaying, posted, hostClosed>> /\ pc = "replay" /\ pc' \in {"replay", "ended"}
      /\ next <= Len(log)
      /\ (box' = box /\ next' = next) \/ (box' = Apply(box, log[next]) /\ next' = next + 1)
  <2>1. CASE log[next].kind = "quit"
    BY <2>1 DEF ReplayOne, ReplayDue
  <2>2. CASE log[next].kind # "quit"
    BY <2>2 DEF ReplayOne, ReplayDue
  <2> QED
    BY <2>1, <2>2
<1>3. next' \in 1 .. Len(log') + 1
  BY <1>1, <1>2 DEF Made
<1>4. Made'
  BY <1>1, <1>2, <1>3 DEF Made
<1>5. BoxOK(box')
  <2>1. CASE box' = box
    BY <1>1, <2>1
  <2>2. CASE box' = Apply(box, log[next])
    <3> DEFINE e == log[next]
    <3>1. e \in Whole
      <4>1. log \in Seq(Whole) /\ next \in 1 .. Len(log)
        BY <1>1, <1>2 DEF Made
      <4> HIDE DEF Whole
      <4> QED
        BY <4>1
    <3> HIDE DEF e
    <3>2. box' = Apply(box, e) /\ Comes(box, e.data)
      BY <1>1, <2>2 DEF e, Comes
    <3> QED
      BY <1>1, <3>1, <3>2, Applied
  <2> QED
    BY <1>2, <2>1, <2>2
<1>6. BoxOK(box)'
  BY <1>2, <1>5, NextBox
<1>7. Hub'
  BY <1>1, <1>2 DEF Hub
<1> QED
  BY <1>4, <1>6, <1>7 DEF IInv

LEMMA ScriptStep ==
  ASSUME IInv, ScriptDue PROVE IInv'
<1> DEFINE e == Head(scripted)
<1>1. Made /\ BoxOK(box) /\ Hub
  BY DEF IInv
<1>2. /\ pc = "script" /\ scripted # << >> /\ box' = Apply(box, e) /\ log' = Append(log, Stamped(e)) /\ scripted' = Tail(scripted)
      /\ UNCHANGED <<queue, inhand, next, replaying, pc, posted, hostClosed>>
  BY DEF ScriptDue
<1>3. scripted \in Seq(Scripted) /\ inhand = Nobody
  BY <1>1, <1>2 DEF Made
<1>4. e \in Scripted /\ Tail(scripted) \in Seq(Scripted)
  <2> HIDE DEF Scripted
  <2> QED
    BY <1>2, <1>3, HeadAndTail
<1>5. e \in Whole /\ HostIds(e.data) = {} /\ Sorted({}, e.data)
  BY <1>4, ScriptedWhole
<1>6. \A i \in DOMAIN Tail(scripted) : i + 1 \in DOMAIN scripted /\ Tail(scripted)[i] = scripted[i + 1]
  <2> HIDE DEF Scripted
  <2> QED
    BY <1>2, <1>3
<1>7. 1 \in DOMAIN scripted /\ e = scripted[1]
  <2> HIDE DEF Scripted
  <2> QED
    BY <1>2, <1>3
<1> HIDE DEF e
<1>8. Comes(box, e.data)
  BY <1>5 DEF Comes, Before
<1>9. /\ BoxOK(box') /\ (~replaying => Given(box') = Given(box))
      /\ box'.closed = TRUE \/ box'.closing = TRUE => box.closed = TRUE \/ box.closing = TRUE \/ e.kind = "close"
  <2>1. /\ BoxOK(box') /\ (~replaying => Given(box') = Given(box) \cup HostIds(e.data))
        /\ box'.closed = TRUE \/ box'.closing = TRUE => box.closed = TRUE \/ box.closing = TRUE \/ e.kind = "close"
    BY <1>1, <1>2, <1>5, <1>8, Applied
  <2> QED
    BY <1>5, <2>1
<1>10. BoxOK(box)'
  BY <1>2, <1>9, NextBox
<1>11. Made'
  <2>1. Stamped(e) \in Whole
    BY <1>1, <1>5, StampedWhole
  <2>2. log' \in Seq(Whole) /\ next' \in 1 .. Len(log') + 1
    BY <1>1, <1>2, <2>1, WholeLog
  <2> QED
    BY <1>1, <1>2, <1>4, <2>2 DEF Made
<1>12. Hub'
  <2> SUFFICES ASSUME ~replaying' PROVE Waiting(box, inhand, queue, posted)' /\ (ScriptKeepsOpen => EndWaits(box, inhand, queue, scripted, hostClosed)')
    BY DEF Hub, ScriptKeepsOpen
  <2>1. ~replaying
    BY <1>2
  <2>2. Waiting(box, inhand, queue, posted)'
    BY <1>1, <1>2, <1>9, <2>1 DEF Hub, Waiting
  <2>3. ASSUME ScriptKeepsOpen PROVE EndWaits(box, inhand, queue, scripted, hostClosed)'
    <3>1. EndWaits(box, inhand, queue, scripted, hostClosed)
      BY <1>1, <2>1, <2>3 DEF Hub
    <3>2. e.kind # "close" /\ \A i \in DOMAIN scripted' : scripted'[i].kind = "key"
      BY <1>2, <1>6, <1>7, <3>1 DEF EndWaits
    <3> QED
      BY <1>2, <1>9, <3>1, <3>2 DEF EndWaits
  <2> QED
    BY <2>2, <2>3
<1> QED
  BY <1>10, <1>11, <1>12 DEF IInv

LEMMA TypedWhole ==
  ASSUME NEW ks \in Seq(Keystroke)
  PROVE  Typed(ks) \in Whole /\ Typed(ks).data = ks /\ Typed(ks).kind = "typed"
BY DEF Typed, Whole, Event

LEMMA FittingIs ==
  ASSUME BoxOK(box), NEW e \in Whole PROVE Fitting(e) \in Nat /\ Fitting(e) <= Len(e.data)
<1>1. InputRoom(box) \in Nat
  <2>1. box.ring \in Seq(Keystroke) /\ box.line \in Seq(Keystroke) /\ box.ahead \in Seq(Keystroke)
    BY DEF BoxOK, BoxType
  <2> DEFINE x == Len(box.ring)
             y == Len(box.line)
             z == Len(box.ahead)
  <2>2. x \in Nat /\ y \in Nat /\ z \in Nat
    BY <2>1
  <2> HIDE DEF x, y, z
  <2>3. (IF x + y + z < Capacity THEN Capacity - (x + y + z) ELSE 0) \in Nat
    BY <2>2, SizeAssumption
  <2> QED
    BY <2>3 DEF InputRoom, x, y, z
<1>2. Len(e.data) \in Nat
  BY DEF Whole, Event
<1> QED
  BY <1>1, <1>2 DEF Fitting, Shorter

(* The queue when its front is taken, whole or in part.                     *)
LEMMA FrontPutBack ==
  ASSUME NEW r \in Whole, NEW t \in Seq(Whole), NEW q, q = <<r>> \o t
  PROVE  /\ q \in Seq(Whole) /\ QueueIds(q) = HostIds(r.data) \cup QueueIds(t)
         /\ QueueOrder(q) <=> Sorted({}, r.data) /\ QueueOrder(t) /\ Before({}, HostIds(r.data), QueueIds(t))
         /\ Len(q) = Len(t) + 1
         /\ \A j \in DOMAIN q : (j = 1 /\ q[j] = r) \/ (j - 1 \in DOMAIN t /\ q[j] = t[j - 1])
<1> HIDE DEF Whole
<1> DEFINE one == <<r>>
<1>1. one \in Seq(Whole) /\ q = one \o t
  OBVIOUS
<1>2. QueueIds(one) = HostIds(r.data) /\ (QueueOrder(one) <=> Sorted({}, r.data))
  BY QueueOf
<1>3. q \in Seq(Whole) /\ Len(q) = Len(t) + 1 /\ \A j \in DOMAIN q : (j = 1 /\ q[j] = r) \/ (j - 1 \in DOMAIN t /\ q[j] = t[j - 1])
  OBVIOUS
<1> HIDE DEF one
<1>4. QueueIds(q) = QueueIds(one) \cup QueueIds(t) /\ (QueueOrder(q) <=> QueueOrder(one) /\ QueueOrder(t) /\ Before({}, QueueIds(one), QueueIds(t)))
  BY <1>1, QueueJoined
<1> QED
  BY <1>2, <1>3, <1>4

LEMMA FrontTaken ==
  ASSUME NEW q \in Seq(Whole), q # << >>, NEW e, e = Head(q), NEW t, t = Tail(q)
  PROVE  /\ e \in Whole /\ t \in Seq(Whole) /\ QueueIds(q) = HostIds(e.data) \cup QueueIds(t)
         /\ QueueOrder(q) => Sorted({}, e.data) /\ QueueOrder(t) /\ Before({}, HostIds(e.data), QueueIds(t))
         /\ Len(q) \in Nat \ {0} /\ Len(t) = Len(q) - 1 /\ 1 \in DOMAIN q /\ q[1] = e
         /\ \A j \in DOMAIN t : j \in Nat /\ j + 1 \in DOMAIN q /\ t[j] = q[j + 1]
         /\ Len(q) = 1 => t = << >>
<1> HIDE DEF Whole
<1>1. e \in Whole /\ t \in Seq(Whole) /\ q = <<e>> \o t /\ Len(t) = Len(q) - 1
  BY HeadAndTail
<1>2. \A x \in Whole, y \in Seq(Whole) : q = <<x>> \o y =>
        /\ QueueIds(q) = HostIds(x.data) \cup QueueIds(y)
        /\ QueueOrder(q) => Sorted({}, x.data) /\ QueueOrder(y) /\ Before({}, HostIds(x.data), QueueIds(y))
  BY FrontPutBack, Zenon
<1>3. /\ QueueIds(q) = HostIds(e.data) \cup QueueIds(t)
      /\ QueueOrder(q) => Sorted({}, e.data) /\ QueueOrder(t) /\ Before({}, HostIds(e.data), QueueIds(t))
  BY <1>1, <1>2, Zenon
<1>4. Len(q) \in Nat \ {0} /\ 1 \in DOMAIN q /\ q[1] = e
  OBVIOUS
<1>5. \A j \in DOMAIN t : j \in Nat /\ j + 1 \in DOMAIN q /\ t[j] = q[j + 1]
  OBVIOUS
<1>6. Len(q) = 1 => t = << >>
  BY <1>1
<1> QED
  BY <1>1, <1>3, <1>4, <1>5, <1>6

(* What was all in the queue is now in the hand and in the queue.           *)
LEMMA HandFilled ==
  ASSUME NEW b, NEW n, NEW q, NEW e1, Waiting(b, e1, q, n), HostIds(e1.data) = {}, NEW e2, NEW q2, Sorted({}, e2.data), QueueOrder(q2),
         Before({}, HostIds(e2.data), QueueIds(q2)), HostIds(e2.data) \cup QueueIds(q2) = QueueIds(q)
  PROVE  Waiting(b, e2, q2, n)
<1> DEFINE G == Given(b)
           H == HostIds(e2.data)
           Q == QueueIds(q2)
<1>1. Before({}, G, H \cup Q) /\ G \cup (H \cup Q) = 1 .. n /\ Before({}, H, Q)
  BY DEF Waiting
<1> HIDE DEF G, H, Q
<1>2. Before({}, G, H) /\ Before({}, G \cup H, Q)
  BY <1>1, BeforeParts
<1>3. G \cup H \cup Q = 1 .. n
  BY <1>1
<1> QED
  BY <1>2, <1>3 DEF Waiting, G, H, Q

LEMMA TakeStep ==
  ASSUME IInv, TakeFront PROVE IInv'
<1> DEFINE e == Head(queue)
           t == Tail(queue)
           n == Fitting(e)
           a == Take(e.data, n)
           r == Rest(e.data, n)
<1>1. Made /\ BoxOK(box) /\ Hub
  BY DEF IInv
<1>2. /\ pc = "queue" /\ queue # << >> /\ pc' = "apply"
      /\ UNCHANGED <<box, scripted, log, next, replaying, posted, hostClosed>>
      /\ \/ e.kind # "typed" /\ inhand' = e /\ queue' = t
         \/ /\ e.kind = "typed" /\ n > 0 /\ inhand' = Typed(a)
            /\ queue' = IF Len(e.data) > n THEN <<Typed(r)>> \o t ELSE t
  BY DEF TakeFront
<1>3. queue \in Seq(Whole) /\ inhand = Nobody
  BY <1>1, <1>2 DEF Made
<1>4. /\ e \in Whole /\ t \in Seq(Whole) /\ QueueIds(queue) = HostIds(e.data) \cup QueueIds(t)
      /\ QueueOrder(queue) => Sorted({}, e.data) /\ QueueOrder(t) /\ Before({}, HostIds(e.data), QueueIds(t))
      /\ Len(queue) \in Nat \ {0} /\ Len(t) = Len(queue) - 1 /\ 1 \in DOMAIN queue /\ queue[1] = e
      /\ \A j \in DOMAIN t : j \in Nat /\ j + 1 \in DOMAIN queue /\ t[j] = queue[j + 1]
      /\ Len(queue) = 1 => t = << >>
  BY <1>2, <1>3, FrontTaken
<1> HIDE DEF e, t
<1>5. e.data \in Seq(Keystroke) /\ n \in Nat /\ n <= Len(e.data)
  BY <1>1, <1>4, FittingIs DEF Whole, Event
<1> HIDE DEF n
<1>6. /\ a \in Seq(Keystroke) /\ r \in Seq(Keystroke) /\ HostIds(a) \cup HostIds(r) = HostIds(e.data)
      /\ Sorted({}, e.data) => Sorted({}, a) /\ Sorted({}, r) /\ Before({}, HostIds(a), HostIds(r))
  BY <1>5, CutInTwo
<1>7. Len(e.data) <= n => HostIds(r) = {}
  <2>1. Len(e.data) <= n => r = << >>
    <3> DEFINE d == e.data
    <3>1. d \in Seq(Keystroke)
      BY <1>5
    <3> HIDE DEF d
    <3>2. Len(d) <= n => SubSeq(d, n + 1, Len(d)) = << >>
      BY <1>5, <3>1
    <3> QED
      BY <3>2 DEF Rest, d
  <2> QED
    BY <2>1, HostIdsOf
<1> HIDE DEF a, r
<1>8. Typed(a) \in Whole /\ Typed(a).data = a /\ Typed(a).kind = "typed" /\ Typed(r) \in Whole /\ Typed(r).data = r /\ Typed(r).kind = "typed"
  BY <1>6, TypedWhole
<1>9. Waiting(box, inhand, queue, posted) => Sorted({}, e.data) /\ QueueOrder(t) /\ Before({}, HostIds(e.data), QueueIds(t))
  BY <1>4 DEF Waiting
<1>10. HostIds(inhand.data) = {} /\ inhand.kind # "close"
  BY <1>3, NobodyIs
<1>11. CASE e.kind # "typed" /\ inhand' = e /\ queue' = t
  <2>1. Made'
    BY <1>1, <1>2, <1>4, <1>11 DEF Made
  <2>2. ASSUME ~replaying PROVE Waiting(box, e, t, posted)
    <3>1. Waiting(box, inhand, queue, posted)
      BY <1>1, <2>2 DEF Hub
    <3> QED
      BY <1>4, <1>9, <1>10, <3>1, HandFilled
  <2>3. ASSUME ~replaying, ScriptKeepsOpen PROVE EndWaits(box, e, t, scripted, hostClosed)
    <3>1. EndWaits(box, inhand, queue, scripted, hostClosed)
      BY <1>1, <2>3 DEF Hub
    <3>2. ~(box.closed = TRUE \/ box.closing = TRUE)
      BY <1>2, <3>1 DEF EndWaits
    <3>3. e.kind = "close" => t = << >> /\ hostClosed /\ HostIds(e.data) = {}
      <4>1. e.kind = "close" => e.data = << >>
        BY <1>4 DEF Whole
      <4>2. e.kind = "close" => 1 = Len(queue) /\ hostClosed
        BY <1>4, <3>1 DEF EndWaits
      <4> QED
        BY <1>4, <4>1, <4>2, HostIdsOf
    <3>4. \A j \in DOMAIN t : t[j].kind = "close" => j = Len(t) /\ hostClosed
      BY <1>4, <3>1 DEF EndWaits
    <3> QED
      BY <3>1, <3>2, <3>3, <3>4 DEF EndWaits
  <2>4. Hub'
    BY <1>2, <1>11, <2>2, <2>3 DEF Hub, Waiting, EndWaits, ScriptKeepsOpen
  <2> QED
    BY <1>1, <1>2, <2>1, <2>4, NextBox DEF IInv
<1>12. CASE e.kind = "typed" /\ inhand' = Typed(a) /\ queue' = t /\ Len(e.data) <= n
  <2>1. Made'
    BY <1>1, <1>2, <1>4, <1>8, <1>12 DEF Made
  <2>2. ASSUME ~replaying PROVE Waiting(box, Typed(a), t, posted)
    <3>1. Waiting(box, inhand, queue, posted)
      BY <1>1, <2>2 DEF Hub
    <3>2. HostIds(a) = HostIds(e.data) /\ Sorted({}, a)
      BY <1>6, <1>7, <1>9, <1>12, <3>1
    <3> QED
      BY <1>4, <1>8, <1>9, <1>10, <3>1, <3>2, HandFilled
  <2>3. ASSUME ~replaying, ScriptKeepsOpen PROVE EndWaits(box, Typed(a), t, scripted, hostClosed)
    <3>1. EndWaits(box, inhand, queue, scripted, hostClosed)
      BY <1>1, <2>3 DEF Hub
    <3>2. ~(box.closed = TRUE \/ box.closing = TRUE)
      BY <1>2, <3>1 DEF EndWaits
    <3>3. \A j \in DOMAIN t : t[j].kind = "close" => j = Len(t) /\ hostClosed
      BY <1>4, <3>1 DEF EndWaits
    <3> QED
      BY <1>8, <3>1, <3>2, <3>3 DEF EndWaits
  <2>4. Hub'
    BY <1>2, <1>12, <2>2, <2>3 DEF Hub, Waiting, EndWaits, ScriptKeepsOpen
  <2> QED
    BY <1>1, <1>2, <2>1, <2>4, NextBox DEF IInv
<1>13. CASE e.kind = "typed" /\ inhand' = Typed(a) /\ queue' = <<Typed(r)>> \o t
  <2>1. PICK x : x = Typed(r)
    OBVIOUS
  <2>2. PICK q : q = <<x>> \o t
    OBVIOUS
  <2>3. queue' = q /\ x \in Whole /\ x.data = r /\ x.kind = "typed"
    BY <1>8, <1>13, <2>1, <2>2
  <2>4. /\ q \in Seq(Whole) /\ QueueIds(q) = HostIds(x.data) \cup QueueIds(t)
        /\ QueueOrder(q) <=> Sorted({}, x.data) /\ QueueOrder(t) /\ Before({}, HostIds(x.data), QueueIds(t))
        /\ Len(q) = Len(t) + 1
        /\ \A j \in DOMAIN q : (j = 1 /\ q[j] = x) \/ (j - 1 \in DOMAIN t /\ q[j] = t[j - 1])
    <3>1. x \in Whole /\ t \in Seq(Whole)
      BY <1>4, <2>3
    <3>2. q \in Seq(Whole) /\ QueueIds(q) = HostIds(x.data) \cup QueueIds(t)
      BY <2>2, <3>1, FrontPutBack, Zenon
    <3>3. QueueOrder(q) <=> Sorted({}, x.data) /\ QueueOrder(t) /\ Before({}, HostIds(x.data), QueueIds(t))
      BY <2>2, <3>1, FrontPutBack, Zenon
    <3>4. Len(q) = Len(t) + 1
      BY <2>2, <3>1, FrontPutBack, Zenon
    <3>5. \A j \in DOMAIN q : (j = 1 /\ q[j] = x) \/ (j - 1 \in DOMAIN t /\ q[j] = t[j - 1])
      BY <2>2, <3>1, FrontPutBack, Zenon
    <3> QED
      BY <3>2, <3>3, <3>4, <3>5
  <2>5. Made'
    BY <1>1, <1>2, <1>8, <1>13, <2>3, <2>4 DEF Made
  <2>6. ASSUME ~replaying PROVE Waiting(box, Typed(a), q, posted)
    <3> DEFINE K == HostIds(a)
               R == HostIds(r)
               Q == QueueIds(t)
    <3>1. Waiting(box, inhand, queue, posted)
      BY <1>1, <2>6 DEF Hub
    <3>2. /\ Sorted({}, a) /\ Sorted({}, r) /\ Before({}, K, R) /\ QueueOrder(t) /\ Before({}, K \cup R, Q)
      BY <1>6, <1>9, <3>1
    <3>3. QueueIds(q) = R \cup Q /\ QueueIds(queue) = K \cup R \cup Q
      BY <1>4, <1>6, <2>3, <2>4
    <3> HIDE DEF K, R, Q
    <3>4. Before({}, K, R \cup Q) /\ Before({}, R, Q)
      BY <3>2, BeforeParts
    <3>5. QueueOrder(q)
      BY <2>3, <2>4, <3>2, <3>4 DEF R, Q
    <3>6. HostIds(Typed(a).data) = K /\ Sorted({}, Typed(a).data)
      BY <1>8, <3>2 DEF K
    <3>7. Before({}, HostIds(Typed(a).data), QueueIds(q)) /\ HostIds(Typed(a).data) \cup QueueIds(q) = QueueIds(queue)
      BY <3>3, <3>4, <3>6
    <3> QED
      BY <1>10, <3>1, <3>5, <3>6, <3>7, HandFilled
  <2>7. ASSUME ~replaying, ScriptKeepsOpen PROVE EndWaits(box, Typed(a), q, scripted, hostClosed)
    <3>1. EndWaits(box, inhand, queue, scripted, hostClosed)
      BY <1>1, <2>7 DEF Hub
    <3>2. ~(box.closed = TRUE \/ box.closing = TRUE)
      BY <1>2, <3>1 DEF EndWaits
    <3>3. ASSUME NEW j \in DOMAIN q, q[j].kind = "close" PROVE j = Len(q) /\ hostClosed
      <4>1. j - 1 \in DOMAIN t /\ q[j] = t[j - 1] /\ j \in Int
        BY <2>3, <2>4, <3>3
      <4>2. (j - 1) + 1 = j
        BY <4>1
      <4>3. j \in DOMAIN queue /\ queue[j].kind = "close"
        BY <1>4, <3>3, <4>1, <4>2
      <4>4. j = Len(queue) /\ hostClosed
        BY <3>1, <4>3 DEF EndWaits
      <4> QED
        BY <1>4, <2>4, <4>4
    <3> QED
      BY <1>8, <3>1, <3>2, <3>3 DEF EndWaits
  <2>8. Hub'
    BY <1>2, <1>13, <2>3, <2>6, <2>7 DEF Hub, Waiting, EndWaits, ScriptKeepsOpen
  <2> QED
    BY <1>1, <1>2, <2>5, <2>8, NextBox DEF IInv
<1>14. Len(e.data) <= n \/ Len(e.data) > n
  BY <1>5
<1> QED
  BY <1>2, <1>11, <1>12, <1>13, <1>14

LEMMA ApplyStep ==
  ASSUME IInv, ApplyInHand PROVE IInv'
<1>1. Made /\ BoxOK(box) /\ Hub
  BY DEF IInv
<1>2. /\ pc = "apply" /\ box' = Apply(box, inhand) /\ log' = Append(log, Stamped(inhand)) /\ inhand' = Nobody
      /\ pc' \in {"pace", "queue"} /\ UNCHANGED <<queue, scripted, next, replaying, posted, hostClosed>>
  BY DEF ApplyInHand
<1>3. inhand \in Whole
  BY <1>1 DEF Made
<1>4. Comes(box, inhand.data)
  BY <1>1 DEF Comes, Hub, Waiting, EndWaits
<1>5. /\ BoxOK(box') /\ (~replaying => Given(box') = Given(box) \cup HostIds(inhand.data))
      /\ box'.closed = TRUE \/ box'.closing = TRUE => box.closed = TRUE \/ box.closing = TRUE \/ inhand.kind = "close"
  BY <1>1, <1>2, <1>3, <1>4, Applied
<1>6. Made'
  <2>1. Stamped(inhand) \in Whole
    BY <1>1, <1>3, StampedWhole
  <2>2. log' \in Seq(Whole) /\ next' \in 1 .. Len(log') + 1
    BY <1>1, <1>2, <2>1, WholeLog
  <2> QED
    BY <1>1, <1>2, <2>2, NobodyIs DEF Made
<1>7. ASSUME ~replaying PROVE Waiting(box', Nobody, queue, posted)
  <2>1. Waiting(box, inhand, queue, posted)
    BY <1>1, <1>7 DEF Hub
  <2>2. \A X : Before({}, X, {})
    BY DEF Before
  <2> QED
    BY <1>5, <1>7, <2>1, <2>2, NobodyIs DEF Waiting
<1>8. ASSUME ~replaying, ScriptKeepsOpen PROVE EndWaits(box', Nobody, queue, scripted, hostClosed)
  <2>1. EndWaits(box, inhand, queue, scripted, hostClosed)
    BY <1>1, <1>8 DEF Hub
  <2> QED
    BY <1>5, <2>1, NobodyIs DEF EndWaits
<1>9. Hub'
  BY <1>2, <1>7, <1>8 DEF Hub, Waiting, EndWaits, ScriptKeepsOpen
<1> QED
  BY <1>2, <1>5, <1>6, <1>9, NextBox DEF IInv

(* What the host posts goes behind everything.                              *)
LEMMA LastJoined ==
  ASSUME NEW q \in Seq(Whole), NEW e \in Whole, QueueOrder(q), Sorted({}, e.data), Before({}, QueueIds(q), HostIds(e.data)),
         NEW u, u = Append(q, e)
  PROVE  /\ u \in Seq(Whole) /\ QueueIds(u) = QueueIds(q) \cup HostIds(e.data) /\ QueueOrder(u)
<1> HIDE DEF Whole
<1> DEFINE one == <<e>>
<1>1. one \in Seq(Whole) /\ u = q \o one /\ u \in Seq(Whole)
  OBVIOUS
<1>2. QueueIds(one) = HostIds(e.data) /\ QueueOrder(one)
  BY QueueOf
<1> HIDE DEF one
<1>3. \A x \in Seq(Whole), y \in Seq(Whole) :
        /\ QueueIds(x \o y) = QueueIds(x) \cup QueueIds(y)
        /\ QueueOrder(x) /\ QueueOrder(y) /\ Before({}, QueueIds(x), QueueIds(y)) => QueueOrder(x \o y)
  BY QueueJoined, Zenon
<1>4. QueueIds(q \o one) = QueueIds(q) \cup QueueIds(one) /\ QueueOrder(q \o one)
  BY <1>1, <1>2, <1>3, Zenon
<1> QED
  BY <1>1, <1>2, <1>4, Zenon

LEMMA LastGrown ==
  ASSUME NEW q \in Seq(Whole), q # << >>, NEW last, last = q[Len(q)], last.kind = "typed", NEW ks \in Seq(Keystroke),
         QueueOrder(q), Sorted({}, ks), Before({}, QueueIds(q), HostIds(ks)),
         NEW u, u = [q EXCEPT ![Len(q)].data = @ \o ks]
  PROVE  /\ u \in Seq(Whole) /\ QueueIds(u) = QueueIds(q) \cup HostIds(ks) /\ QueueOrder(u)
         /\ Len(u) = Len(q) /\ \A j \in DOMAIN q : u[j].kind = q[j].kind
<1> DEFINE n == Len(q)
           more == [last EXCEPT !.data = last.data \o ks]
<1>1. n \in Nat \ {0} /\ last \in Whole /\ DOMAIN q = 1 .. n /\ n \in DOMAIN q /\ \A i \in DOMAIN q : q[i] \in Whole
  <2> HIDE DEF Whole
  <2> QED
    OBVIOUS
<1> HIDE DEF n
<1>2. last.data \in Seq(Keystroke) /\ last \in Event
  BY <1>1 DEF Whole, Event
<1>3. /\ last.data \o ks \in Seq(Keystroke) /\ HostIds(last.data \o ks) = HostIds(last.data) \cup HostIds(ks)
      /\ Sorted({}, last.data) /\ Before({}, HostIds(last.data), HostIds(ks)) => Sorted({}, last.data \o ks)
  BY <1>2, IdsJoined
<1>4. more \in Whole /\ more.data = last.data \o ks /\ more.kind = "typed"
  <2> DEFINE d == last.data \o ks
  <2>1. d \in Seq(Keystroke)
    BY <1>3
  <2> HIDE DEF d
  <2>2. [last EXCEPT !.data = d] \in Event /\ [last EXCEPT !.data = d].data = d /\ [last EXCEPT !.data = d].kind = "typed"
    BY <1>2, <2>1 DEF Event
  <2> QED
    BY <2>2 DEF Whole, d
<1>5. u = [q EXCEPT ![n] = more]
  <2>1. more = [q[n] EXCEPT !.data = q[n].data \o ks]
    BY DEF n
  <2>2. u = [q EXCEPT ![n] = [q[n] EXCEPT !.data = q[n].data \o ks]]
    BY DEF n
  <2> HIDE DEF more
  <2> QED
    BY <2>1, <2>2
<1> HIDE DEF more
<1>6. u \in Seq(Whole) /\ Len(u) = n /\ DOMAIN u = DOMAIN q /\ u[n] = more /\ \A j \in DOMAIN q : j # n => u[j] = q[j]
  <2> HIDE DEF Whole
  <2>1. n = Len(q)
    BY DEF n
  <2>3. DOMAIN u = DOMAIN q /\ u[n] = more /\ \A j \in DOMAIN q : j # n => u[j] = q[j]
    BY <1>1, <1>5
  <2>2. u \in Seq(Whole) /\ Len(u) = Len(q)
    <3>1. u = [i \in 1 .. n |-> u[i]]
      BY <1>1, <1>5
    <3>2. \A i \in 1 .. n : u[i] \in Whole
      BY <1>1, <1>4, <2>3
    <3>3. u \in [1 .. n -> Whole]
      BY <3>1, <3>2
    <3>4. \A f \in [1 .. n -> Whole] : f \in Seq(Whole) /\ Len(f) = n
      BY <1>1
    <3> QED
      BY <2>1, <3>3, <3>4
  <2> QED
    BY <2>1, <2>2, <2>3
<1>7. last = q[n]
  BY DEF n
<1>8. HostIds(more.data) = HostIds(last.data) \cup HostIds(ks)
  BY <1>3, <1>4
<1>9. QueueIds(u) = QueueIds(q) \cup HostIds(ks)
  <2>1. QueueIds(u) \subseteq QueueIds(q) \cup HostIds(ks)
    <3> SUFFICES ASSUME NEW j \in DOMAIN q PROVE HostIds(u[j].data) \subseteq QueueIds(q) \cup HostIds(ks)
      BY <1>6 DEF QueueIds
    <3>1. HostIds(q[j].data) \subseteq QueueIds(q)
      BY DEF QueueIds
    <3>2. j # n => u[j] = q[j]
      BY <1>6
    <3>3. j = n => HostIds(u[j].data) = HostIds(q[j].data) \cup HostIds(ks)
      BY <1>6, <1>7, <1>8
    <3> QED
      BY <3>1, <3>2, <3>3
  <2>2. QueueIds(q) \subseteq QueueIds(u)
    <3> SUFFICES ASSUME NEW j \in DOMAIN q PROVE HostIds(q[j].data) \subseteq QueueIds(u)
      BY DEF QueueIds
    <3>1. HostIds(u[j].data) \subseteq QueueIds(u)
      BY <1>6 DEF QueueIds
    <3>2. j # n => u[j] = q[j]
      BY <1>6
    <3>3. j = n => HostIds(u[j].data) = HostIds(q[j].data) \cup HostIds(ks)
      BY <1>6, <1>7, <1>8
    <3> QED
      BY <3>1, <3>2, <3>3
  <2>3. HostIds(ks) \subseteq QueueIds(u)
    BY <1>1, <1>6, <1>8 DEF QueueIds
  <2> QED
    BY <2>1, <2>2, <2>3
<1>10. \A j \in DOMAIN q : Sorted({}, q[j].data) /\ HostIds(q[j].data) \subseteq QueueIds(q)
  BY DEF QueueOrder, QueueIds
<1>11. Sorted({}, more.data)
  <2>1. Before({}, HostIds(last.data), HostIds(ks)) /\ Sorted({}, last.data)
    BY <1>1, <1>7, <1>10, BeforeLess
  <2> QED
    BY <1>3, <1>4, <2>1
<1>12. ASSUME NEW i \in DOMAIN q, NEW j \in DOMAIN q, i < j PROVE Before({}, HostIds(u[i].data), HostIds(u[j].data))
  <2>1. Before({}, HostIds(q[i].data), HostIds(q[j].data))
    BY <1>12 DEF QueueOrder
  <2>2. i # n /\ u[i] = q[i]
    BY <1>1, <1>6, <1>12
  <2>3. CASE j # n
    BY <1>6, <1>12, <2>1, <2>2, <2>3
  <2>4. CASE j = n
    <3>1. Before({}, HostIds(q[i].data), HostIds(ks))
      BY <1>10, <1>12, BeforeLess
    <3>2. HostIds(u[j].data) = HostIds(q[j].data) \cup HostIds(ks)
      BY <1>6, <1>7, <1>8, <2>4
    <3> DEFINE I == HostIds(q[i].data)
               J == HostIds(q[j].data)
               K == HostIds(ks)
    <3>3. Before({}, I, J) /\ Before({}, I, K)
      BY <2>1, <3>1
    <3> HIDE DEF I, J, K
    <3>4. Before({}, I, J \cup K)
      BY <3>3, BeforeParts
    <3> QED
      BY <2>2, <3>2, <3>4 DEF I, J, K
  <2> QED
    BY <2>3, <2>4
<1>13. QueueOrder(u)
  <2>1. \A j \in DOMAIN u : Sorted({}, u[j].data)
    BY <1>6, <1>10, <1>11
  <2> QED
    BY <1>6, <1>12, <2>1 DEF QueueOrder
<1>14. \A j \in DOMAIN q : u[j].kind = q[j].kind
  BY <1>4, <1>6, <1>7
<1> QED
  BY <1>6, <1>9, <1>13, <1>14 DEF n

LEMMA PostStep ==
  ASSUME IInv, NEW e \in Whole, Post(e), Sorted({}, e.data), Before({}, 1 .. posted, HostIds(e.data)),
         posted' \in 0 .. MaxPosts, 1 .. posted' = (1 .. posted) \cup HostIds(e.data), e.kind = "close" => hostClosed'
  PROVE  IInv'
<1>1. Made /\ BoxOK(box) /\ Hub
  BY DEF IInv
<1>2. /\ ~replaying /\ ~hostClosed /\ queue' = Joined(e)
      /\ UNCHANGED <<box, inhand, scripted, log, next, replaying, pc>>
  BY DEF Post
<1>3. queue \in Seq(Whole) /\ e.data \in Seq(Keystroke)
  BY <1>1 DEF Made, Whole, Event
<1>4. Waiting(box, inhand, queue, posted) /\ (ScriptKeepsOpen => EndWaits(box, inhand, queue, scripted, hostClosed))
  BY <1>1, <1>2 DEF Hub
<1> DEFINE G == Given(box)
           H == HostIds(inhand.data)
           Q == QueueIds(queue)
           K == HostIds(e.data)
<1>5. G \cup H \cup Q = 1 .. posted /\ QueueOrder(queue) /\ Before({}, G, H) /\ Before({}, G \cup H, Q) /\ Before({}, 1 .. posted, K)
  BY <1>4 DEF Waiting
<1>6. Before({}, G \cup H, K) /\ Before({}, Q, K)
  <2> HIDE DEF G, H, Q, K
  <2>1. G \cup H \subseteq 1 .. posted /\ Q \subseteq 1 .. posted
    BY <1>5
  <2> QED
    BY <1>5, <2>1, BeforeLess
<1>7. PICK u : u = Joined(e)
  OBVIOUS
<1>8. /\ u \in Seq(Whole) /\ QueueIds(u) = Q \cup K /\ QueueOrder(u)
      /\ ScriptKeepsOpen => \A j \in DOMAIN u : u[j].kind = "close" => j = Len(u) /\ hostClosed'
  <2>1. ScriptKeepsOpen => \A j \in DOMAIN queue : queue[j].kind # "close"
    BY <1>2, <1>4 DEF EndWaits
  <2>2. CASE ~(e.kind = "typed" /\ queue # << >> /\ queue[Len(queue)].kind = "typed")
    <3>1. u = Append(queue, e)
      BY <1>7, <2>2 DEF Joined
    <3>2. u \in Seq(Whole) /\ QueueIds(u) = Q \cup K /\ QueueOrder(u)
      BY <1>3, <1>5, <1>6, <3>1, LastJoined
    <3>3. \A j \in DOMAIN u : (j \in DOMAIN queue /\ u[j] = queue[j]) \/ (j = Len(u) /\ u[j] = e)
      <4> HIDE DEF Whole
      <4> QED
        BY <1>3, <3>1
    <3>4. ASSUME ScriptKeepsOpen, NEW j \in DOMAIN u, u[j].kind = "close" PROVE j = Len(u) /\ hostClosed'
      BY <2>1, <3>3, <3>4
    <3> QED
      BY <3>2, <3>4
  <2>3. CASE e.kind = "typed" /\ queue # << >> /\ queue[Len(queue)].kind = "typed"
    <3> DEFINE ks == e.data
    <3>1. u = [queue EXCEPT ![Len(queue)].data = @ \o ks]
      BY <1>7, <2>3 DEF Joined
    <3>2. ks \in Seq(Keystroke) /\ Sorted({}, ks) /\ Before({}, QueueIds(queue), HostIds(ks))
      BY <1>3, <1>6
    <3> HIDE DEF ks
    <3>3. PICK last : last = queue[Len(queue)]
      OBVIOUS
    <3>4. /\ u \in Seq(Whole) /\ QueueIds(u) = QueueIds(queue) \cup HostIds(ks) /\ QueueOrder(u)
          /\ Len(u) = Len(queue) /\ \A j \in DOMAIN queue : u[j].kind = queue[j].kind
      <4>1. queue \in Seq(Whole) /\ queue # << >> /\ QueueOrder(queue) /\ last.kind = "typed"
        BY <1>3, <1>5, <2>3, <3>3
      <4>2. PICK q : q = queue
        OBVIOUS
      <4>3. q \in Seq(Whole) /\ q # << >> /\ last = q[Len(q)] /\ u = [q EXCEPT ![Len(q)].data = @ \o ks]
        BY <3>1, <3>3, <4>1, <4>2
      <4>4. QueueOrder(q) /\ Before({}, QueueIds(q), HostIds(ks))
        BY <3>2, <4>1, <4>2
      <4>5. u \in Seq(Whole) /\ QueueIds(u) = QueueIds(q) \cup HostIds(ks) /\ QueueOrder(u)
        BY <3>2, <4>1, <4>3, <4>4, LastGrown
      <4>6. Len(u) = Len(q) /\ \A j \in DOMAIN q : u[j].kind = q[j].kind
        BY <3>2, <4>1, <4>3, <4>4, LastGrown
      <4> QED
        BY <4>2, <4>5, <4>6
    <3>5. DOMAIN u = DOMAIN queue
      BY <3>1
    <3> QED
      BY <2>1, <3>4, <3>5 DEF ks
  <2> QED
    BY <2>2, <2>3
<1>9. queue' = u
  BY <1>2, <1>7
<1>10. Made'
  BY <1>1, <1>2, <1>8, <1>9 DEF Made
<1>11. Waiting(box, inhand, u, posted')
  <2>1. Before({}, G \cup H, Q \cup K)
    <3> HIDE DEF G, H, Q, K
    <3> QED
      BY <1>5, <1>6, BeforeParts
  <2>2. G \cup H \cup (Q \cup K) = 1 .. posted'
    BY <1>5
  <2> QED
    BY <1>4, <1>8, <2>1, <2>2 DEF Waiting
<1>12. ScriptKeepsOpen => EndWaits(box, inhand, u, scripted, hostClosed')
  BY <1>2, <1>4, <1>8 DEF EndWaits
<1>13. Hub'
  BY <1>2, <1>9, <1>11, <1>12 DEF Hub, Waiting, EndWaits, ScriptKeepsOpen
<1> QED
  BY <1>1, <1>2, <1>10, <1>13, NextBox DEF IInv

LEMMA FreshKey ==
  ASSUME Made, posted < MaxPosts, posted' = posted + 1, NEW k \in Fresh
  PROVE  LET ks == <<k>>
         IN  /\ ks \in Seq(Keystroke) /\ k \in Keystroke /\ Sorted({}, ks) /\ Before({}, 1 .. posted, HostIds(ks))
             /\ posted' \in 0 .. MaxPosts /\ 1 .. posted' = (1 .. posted) \cup HostIds(ks)
<1>1. posted \in Nat /\ MaxPosts \in Nat /\ posted' \in 0 .. MaxPosts
  BY SizeAssumption DEF Made
<1>2. k \in Keystroke /\ k.id = posted + 1
  BY <1>1 DEF Fresh, Keystroke
<1> DEFINE ks == <<k>>
<1>3. HostIds(ks) = {posted + 1}
  <2>1. HostIds(ks) = {k.id} \cap OfHost
    BY HostIdsOf
  <2>2. posted + 1 \in OfHost
    BY <1>1 DEF OfHost
  <2> QED
    BY <1>2, <2>1, <2>2
<1>4. Sorted({}, ks)
  BY HostIdsOf
<1>5. ks \in Seq(Keystroke)
  BY <1>2
<1> HIDE DEF ks
<1>6. Before({}, 1 .. posted, HostIds(ks))
  BY <1>1, <1>3 DEF Before
<1>7. 1 .. posted' = (1 .. posted) \cup HostIds(ks)
  BY <1>1, <1>3
<1> QED
  BY <1>1, <1>2, <1>4, <1>5, <1>6, <1>7 DEF ks

LEMMA HostStep ==
  ASSUME IInv, HostTypes \/ HostPresses \/ HostCloses PROVE IInv'
<1>1. Made
  BY DEF IInv
<1>2. CASE HostTypes
  <2>1. posted < MaxPosts /\ posted' = posted + 1
    BY <1>2 DEF HostTypes
  <2>2. PICK k \in Fresh : Post(Typed(<<k>>))
    BY <1>2 DEF HostTypes
  <2> DEFINE ks == <<k>>
  <2>3. /\ ks \in Seq(Keystroke) /\ Sorted({}, ks) /\ Before({}, 1 .. posted, HostIds(ks))
        /\ posted' \in 0 .. MaxPosts /\ 1 .. posted' = (1 .. posted) \cup HostIds(ks)
    BY <1>1, <2>1, <2>2, FreshKey
  <2>4. Post(Typed(ks))
    BY <2>2
  <2> HIDE DEF ks
  <2>5. PICK e : e = Typed(ks)
    OBVIOUS
  <2>6. e \in Whole /\ e.data = ks /\ e.kind = "typed"
    BY <2>3, <2>5, TypedWhole
  <2>7. Post(e)
    BY <2>4, <2>5
  <2>8. Sorted({}, e.data) /\ Before({}, 1 .. posted, HostIds(e.data)) /\ 1 .. posted' = (1 .. posted) \cup HostIds(e.data)
    BY <2>3, <2>6
  <2> QED
    BY <2>3, <2>6, <2>7, <2>8, PostStep
<1>3. CASE HostPresses
  <2>1. posted < MaxPosts /\ posted' = posted + 1
    BY <1>3 DEF HostPresses
  <2>2. PICK k \in Fresh : Post(Key(k))
    BY <1>3 DEF HostPresses
  <2> DEFINE ks == <<k>>
  <2>3. /\ ks \in Seq(Keystroke) /\ Sorted({}, ks) /\ Before({}, 1 .. posted, HostIds(ks))
        /\ posted' \in 0 .. MaxPosts /\ 1 .. posted' = (1 .. posted) \cup HostIds(ks)
    BY <1>1, <2>1, <2>2, FreshKey
  <2>4. Len(ks) = 1
    OBVIOUS
  <2>5. PICK e : e = Key(k)
    OBVIOUS
  <2>6. e = [kind |-> "key", data |-> ks, at |-> 0]
    BY <2>5 DEF Key
  <2> HIDE DEF ks
  <2>7. e \in Whole /\ e.data = ks /\ e.kind = "key"
    BY <2>3, <2>4, <2>6 DEF Whole, Event
  <2>8. Post(e)
    BY <2>2, <2>5
  <2>9. Sorted({}, e.data) /\ Before({}, 1 .. posted, HostIds(e.data)) /\ 1 .. posted' = (1 .. posted) \cup HostIds(e.data)
    BY <2>3, <2>7
  <2> QED
    BY <2>3, <2>7, <2>8, <2>9, PostStep
<1>4. CASE HostCloses
  <2>1. PICK e : e = Plain("close", 0)
    OBVIOUS
  <2>2. Post(e) /\ hostClosed' /\ posted' = posted
    BY <1>4, <2>1 DEF HostCloses
  <2>3. e \in Whole /\ e.kind = "close" /\ e.data = << >>
    BY <2>1, PlainWhole
  <2>4. HostIds(e.data) = {} /\ Sorted({}, e.data)
    BY <2>3, HostIdsOf
  <2>5. Before({}, 1 .. posted, HostIds(e.data)) /\ 1 .. posted' = (1 .. posted) \cup HostIds(e.data) /\ posted' \in 0 .. MaxPosts
    BY <1>1, <2>2, <2>4 DEF Before, Made
  <2> QED
    BY <2>2, <2>3, <2>4, <2>5, PostStep
<1> QED
  BY <1>2, <1>3, <1>4

LEMMA ReplayBegins ==
  ASSUME IInv, StartReplay PROVE IInv'
<1>1. Made /\ BoxOK(box)
  BY DEF IInv
<1>2. /\ pc = "ended" /\ replaying' /\ box' = NewBox(box.program, box.period) /\ next' = 1 /\ pc' = "top"
      /\ queue' = << >> /\ scripted' = << >> /\ posted' = 0 /\ UNCHANGED <<inhand, log>>
  BY DEF StartReplay
<1>3. BoxType(box')
  <2>1. box.program \in Seq(Operation) /\ box.period \in Nat
    BY <1>1 DEF BoxOK, BoxType
  <2> HIDE DEF Operation
  <2> QED
    BY <1>2, <2>1, NewMachine DEF BoxOK
<1>4. Made'
  <2>1. inhand = Nobody
    BY <1>1, <1>2 DEF Made
  <2>2. queue' \in Seq(Whole) /\ scripted' \in Seq(Scripted)
    BY <1>2
  <2>3. next' \in 1 .. Len(log') + 1 /\ posted' \in 0 .. MaxPosts
    <3>1. Len(log) \in Nat
      BY <1>1 DEF Made
    <3> QED
      BY <1>2, <3>1, SizeAssumption
  <2> QED
    BY <1>1, <1>2, <2>1, <2>2, <2>3 DEF Made
<1>5. BoxOK(box)' /\ Hub'
  BY <1>2, <1>3 DEF BoxOK, Hub
<1> QED
  BY <1>4, <1>5 DEF IInv

LEMMA AtFirst ==
  ASSUME Init PROVE IInv
<1>1. PICK s \in Setups : box = NewBox(s.program, s.period) /\ scripted = s.keys
  BY DEF Init
<1>2. s.program \in Seq(Operation) /\ s.period \in Nat /\ s.keys \in Seq(Scripted)
  BY SetupAssumption
<1>3. /\ queue = << >> /\ inhand = Nobody /\ log = << >> /\ next = 1 /\ ~replaying /\ pc = "top" /\ posted = 0
  BY DEF Init
<1>4. BoxOK(box) /\ Given(box) = {} /\ box.closed = FALSE /\ box.closing = FALSE
  <2> DEFINE p == s.program
             t == s.period
  <2>1. p \in Seq(Operation) /\ t \in Nat /\ box = NewBox(p, t)
    BY <1>1, <1>2
  <2> HIDE DEF p, t, Operation
  <2> QED
    BY <2>1, NewMachine
<1>5. Made
  <2>1. queue \in Seq(Whole) /\ log \in Seq(Whole) /\ Len(log) = 0
    BY <1>3
  <2>2. next \in 1 .. Len(log) + 1 /\ posted \in 0 .. MaxPosts
    BY <1>3, <2>1, SizeAssumption
  <2> QED
    BY <1>1, <1>2, <1>3, <2>1, <2>2, NobodyIs DEF Made
<1>6. Waiting(box, inhand, queue, posted)
  <2>1. \A X : Before({}, {}, X) /\ Before({}, X, {})
    BY DEF Before
  <2>2. 1 .. posted = {}
    BY <1>3
  <2> QED
    BY <1>3, <1>4, <2>1, <2>2, NobodyIs, QueueOf DEF Waiting
<1>7. ScriptKeepsOpen => EndWaits(box, inhand, queue, scripted, hostClosed)
  BY <1>1, <1>3, <1>4, NobodyIs DEF ScriptKeepsOpen, EndWaits
<1> QED
  BY <1>4, <1>5, <1>6, <1>7 DEF IInv, Hub

LEMMA WayIs ==
  ASSUME IInv
  PROVE  /\ Len(queue) \in Nat /\ DOMAIN Way = 1 .. 5 + Len(queue) /\ DOMAIN queue = 1 .. Len(queue)
         /\ Way[1] = box.saw /\ Way[2] = box.ring /\ Way[3] = box.line /\ Way[4] = box.ahead /\ Way[5] = inhand.data
         /\ \A j \in DOMAIN queue : Way[5 + j] = queue[j].data
<1> DEFINE Looks == [cycle : Nat, id : Int]
           T == Seq(Looks) \cup Seq(Keystroke)
           s == <<box.saw, box.ring, box.line, box.ahead, inhand.data>>
           t == [j \in 1 .. Len(queue) |-> queue[j].data]
<1>1. BoxType(box) /\ inhand \in Whole /\ queue \in Seq(Whole)
  BY DEF IInv, BoxOK, Made
<1>2. box.saw \in T /\ box.ring \in T /\ box.line \in T /\ box.ahead \in T /\ inhand.data \in T
  BY <1>1 DEF BoxType, Whole, Event
<1>3. \A e \in Whole : e.data \in T
  BY DEF Whole, Event
<1>4. Len(queue) \in Nat /\ DOMAIN queue = 1 .. Len(queue) /\ \A j \in 1 .. Len(queue) : queue[j] \in Whole
  <2> HIDE DEF Whole
  <2> QED
    BY <1>1
<1> HIDE DEF T
<1>5. s \in Seq(T) /\ Len(s) = 5 /\ s[1] = box.saw /\ s[2] = box.ring /\ s[3] = box.line /\ s[4] = box.ahead /\ s[5] = inhand.data
  BY <1>2
<1>6. t \in Seq(T) /\ Len(t) = Len(queue) /\ \A j \in 1 .. Len(queue) : t[j] = queue[j].data
  <2> DEFINE n == Len(queue)
  <2>1. t \in [1 .. n -> T]
    BY <1>3, <1>4
  <2>2. n \in Nat
    BY <1>4
  <2>3. \A j \in 1 .. n : t[j] = queue[j].data
    OBVIOUS
  <2> HIDE DEF n, t
  <2>4. t \in Seq(T) /\ Len(t) = n
    BY <2>1, <2>2
  <2> QED
    BY <2>3, <2>4 DEF n
<1>7. Way = s \o t
  BY DEF Way
<1> HIDE DEF s, t
<1> DEFINE w == s \o t
<1>8. /\ w \in Seq(T) /\ Len(w) = 5 + Len(queue)
      /\ (\A i \in 1 .. 5 : w[i] = s[i]) /\ \A j \in 1 .. Len(queue) : w[5 + j] = t[j]
  <2>1. s \in Seq(T) /\ t \in Seq(T)
    BY <1>5, <1>6
  <2>2. w \in Seq(T) /\ Len(w) = Len(s) + Len(t)
    BY <2>1, Joining, Zenon
  <2>3. \A i \in 1 .. Len(s) : w[i] = s[i]
    BY <2>1, Joining, Zenon
  <2>4. \A i \in 1 .. Len(t) : w[Len(s) + i] = t[i]
    BY <2>1
  <2> HIDE DEF w
  <2> QED
    BY <1>5, <1>6, <2>2, <2>3, <2>4
<1>9. (\A i \in 1 .. 5 : w[i] = s[i]) /\ \A j \in 1 .. Len(queue) : w[5 + j] = t[j]
  BY <1>8
<1> HIDE DEF w
<1>10. DOMAIN w = 1 .. 5 + Len(queue)
  BY <1>4, <1>8
<1>11. Way = w
  BY <1>7 DEF w
<1>12. 1 \in 1 .. 5 /\ 2 \in 1 .. 5 /\ 3 \in 1 .. 5 /\ 4 \in 1 .. 5 /\ 5 \in 1 .. 5
  OBVIOUS
<1> HIDE DEF Way
<1> QED
  BY <1>4, <1>5, <1>6, <1>9, <1>10, <1>11, <1>12

(* The whole way in the order of the host.                                  *)
LEMMA WayInOrder ==
  ASSUME IInv, ~replaying
  PROVE  /\ \A s \in DOMAIN Way : Sorted(LeftBehind, Way[s])
         /\ \A s, t \in DOMAIN Way : s < t => Before(LeftBehind, HostIds(Way[s]), HostIds(Way[t]))
<1> DEFINE l == LeftBehind
           S == HostIds(box.saw)
           R == HostIds(box.ring)
           L == HostIds(box.line)
           A == HostIds(box.ahead)
           H == HostIds(inhand.data)
           G == Given(box)
           Q == QueueIds(queue)
<1>1. Waiting(box, inhand, queue, posted) /\ BoxOrder(box)
  BY DEF IInv, Hub, BoxOK
<1>2. LeftBehind = IdsOf(box.left) /\ {} \subseteq l
  BY DEF LeftBehind
<1> HIDE DEF l
<1>3. /\ Sorted(l, box.saw) /\ Sorted(l, box.ring) /\ Sorted(l, box.line) /\ Sorted({}, box.ahead) /\ Sorted({}, inhand.data)
      /\ \A j \in DOMAIN queue : Sorted({}, queue[j].data)
  BY <1>1, <1>2 DEF BoxOrder, Waiting, QueueOrder, l
<1>4. \A i, j \in DOMAIN queue : i < j => Before({}, HostIds(queue[i].data), HostIds(queue[j].data))
  BY <1>1 DEF Waiting, QueueOrder
<1>5. Before(l, S, R) /\ Before(l, S, L) /\ Before(l, R, L)
  BY <1>1, <1>2 DEF BoxOrder, l
<1>6. Before({}, G \ A, A) /\ Before({}, G, H) /\ Before({}, G \cup H, Q)
  BY <1>1 DEF BoxOrder, Waiting
<1>7. S \cup R \cup L \subseteq G \ A /\ S \cup R \cup L \cup A \subseteq G
  BY <1>1 DEF BoxOrder, Given
<1>8. \A j \in DOMAIN queue : HostIds(queue[j].data) \subseteq Q
  BY DEF QueueIds
<1>9. /\ Len(queue) \in Nat /\ DOMAIN Way = 1 .. 5 + Len(queue) /\ DOMAIN queue = 1 .. Len(queue)
      /\ Way[1] = box.saw /\ Way[2] = box.ring /\ Way[3] = box.line /\ Way[4] = box.ahead /\ Way[5] = inhand.data
      /\ \A j \in DOMAIN queue : Way[5 + j] = queue[j].data
  BY WayIs
<1> HIDE DEF S, R, L, A, H, G, Q, Way
<1>10. /\ Before({}, S, A) /\ Before({}, R, A) /\ Before({}, L, A)
       /\ Before({}, S, H) /\ Before({}, R, H) /\ Before({}, L, H) /\ Before({}, A, H)
       /\ Before({}, S \cup R \cup L \cup A \cup H, Q)
  <2>1. Before({}, S, A) /\ Before({}, R, A) /\ Before({}, L, A)
    BY <1>6, <1>7, BeforeLess
  <2>2. Before({}, S, H) /\ Before({}, R, H) /\ Before({}, L, H) /\ Before({}, A, H)
    BY <1>6, <1>7, BeforeLess
  <2>3. S \cup R \cup L \cup A \cup H \subseteq G \cup H
    BY <1>7
  <2>4. Before({}, S \cup R \cup L \cup A \cup H, Q)
    BY <1>6, <2>3, BeforeLess
  <2> QED
    BY <2>1, <2>2, <2>4
<1>11. /\ Before(l, S, A) /\ Before(l, R, A) /\ Before(l, L, A)
       /\ Before(l, S, H) /\ Before(l, R, H) /\ Before(l, L, H) /\ Before(l, A, H)
  BY <1>2, <1>10, BeforeMore
<1>12. Sorted(l, box.ahead) /\ Sorted(l, inhand.data) /\ \A j \in DOMAIN queue : Sorted(l, queue[j].data)
  BY <1>2, <1>3, BeforeMore
<1>13. \A s \in DOMAIN Way : s \in 1 .. 5 \/ (s - 5 \in DOMAIN queue /\ Way[s] = queue[s - 5].data)
  <2> SUFFICES ASSUME NEW s \in DOMAIN Way, s \notin 1 .. 5 PROVE s - 5 \in DOMAIN queue /\ Way[s] = queue[s - 5].data
    OBVIOUS
  <2>1. s - 5 \in DOMAIN queue /\ 5 + (s - 5) = s
    BY <1>9
  <2> QED
    BY <1>9, <2>1
<1>14. \A s \in 1 .. 5 : s = 1 \/ s = 2 \/ s = 3 \/ s = 4 \/ s = 5
  OBVIOUS
<1>15. \A s \in DOMAIN Way : Sorted(l, Way[s])
  BY <1>3, <1>9, <1>12, <1>13, <1>14
<1>16. ASSUME NEW s \in DOMAIN Way, NEW t \in DOMAIN Way, s < t PROVE Before(l, HostIds(Way[s]), HostIds(Way[t]))
  <2>1. HostIds(Way[1]) = S /\ HostIds(Way[2]) = R /\ HostIds(Way[3]) = L /\ HostIds(Way[4]) = A /\ HostIds(Way[5]) = H
    BY <1>9 DEF S, R, L, A, H
  <2>2. CASE t \in 1 .. 5
    <3>1. s \in 1 .. 5
      BY <1>9, <1>16, <2>2
    <3>2. (s = 1 \/ s = 2 \/ s = 3 \/ s = 4 \/ s = 5) /\ (t = 1 \/ t = 2 \/ t = 3 \/ t = 4 \/ t = 5) /\ s < t
      BY <1>14, <1>16, <2>2, <3>1
    <3>3. CASE s = 1
      <4>1. t = 2 \/ t = 3 \/ t = 4 \/ t = 5
        BY <3>2, <3>3
      <4> QED
        BY <1>5, <1>11, <2>1, <3>3, <4>1
    <3>4. CASE s = 2
      <4>1. t = 3 \/ t = 4 \/ t = 5
        BY <3>2, <3>4
      <4> QED
        BY <1>5, <1>11, <2>1, <3>4, <4>1
    <3>5. CASE s = 3
      <4>1. t = 4 \/ t = 5
        BY <3>2, <3>5
      <4> QED
        BY <1>11, <2>1, <3>5, <4>1
    <3>6. CASE s = 4
      <4>1. t = 5
        BY <3>2, <3>6
      <4> QED
        BY <1>11, <2>1, <3>6, <4>1
    <3>7. s # 5
      BY <3>2
    <3> QED
      BY <3>2, <3>3, <3>4, <3>5, <3>6, <3>7
  <2>3. CASE t \notin 1 .. 5 /\ s \in 1 .. 5
    <3>1. HostIds(Way[t]) \subseteq Q
      BY <1>8, <1>13, <1>16, <2>3
    <3>2. HostIds(Way[s]) \subseteq S \cup R \cup L \cup A \cup H
      BY <1>14, <2>1, <2>3
    <3>3. Before({}, HostIds(Way[s]), HostIds(Way[t]))
      BY <1>10, <3>1, <3>2, BeforeLess
    <3> QED
      BY <1>2, <3>3, BeforeMore
  <2>4. CASE t \notin 1 .. 5 /\ s \notin 1 .. 5
    <3>1. /\ s - 5 \in DOMAIN queue /\ t - 5 \in DOMAIN queue /\ s - 5 < t - 5
          /\ Way[s] = queue[s - 5].data /\ Way[t] = queue[t - 5].data
      BY <1>9, <1>13, <1>16, <2>4
    <3>2. Before({}, HostIds(Way[s]), HostIds(Way[t]))
      BY <1>4, <3>1
    <3> QED
      BY <1>2, <3>2, BeforeMore
  <2> QED
    BY <1>9, <1>16, <2>2, <2>3, <2>4
<1> QED
  BY <1>15, <1>16 DEF l

LEMMA KeptInput ==
  ASSUME IInv PROVE InputIsKept
<1>1. BoxType(box) /\ Made /\ Hub
  BY DEF IInv, BoxOK
<1>2. InputTypeOK
  <2>1. Whole \subseteq Event /\ Scripted \subseteq Event
    BY ScriptedWhole DEF Whole
  <2>2. /\ queue \in Seq(Whole) /\ log \in Seq(Whole) /\ scripted \in Seq(Scripted) /\ inhand \in Whole
    BY <1>1 DEF Made
  <2>3. queue \in Seq(Event) /\ log \in Seq(Event) /\ scripted \in Seq(Event) /\ inhand \in Event
    <3>1. \A s \in Seq(Whole) : s \in Seq(Event)
      <4> HIDE DEF Whole, Event
      <4> QED
        BY <2>1
    <3>2. \A s \in Seq(Scripted) : s \in Seq(Event)
      <4> HIDE DEF Scripted, Event
      <4> QED
        BY <2>1
    <3> QED
      BY <2>1, <2>2, <3>1, <3>2
  <2> QED
    BY <1>1, <2>3 DEF InputTypeOK, BoxType, Made
<1>3. ASSUME ~replaying PROVE TypedInOrder /\ (ScriptKeepsOpen /\ EndIsTold => \A s \in DOMAIN Way \ {1} : HostIds(Way[s]) = {})
  <2> DEFINE S == HostIds(box.saw)
             R == HostIds(box.ring)
             L == HostIds(box.line)
             A == HostIds(box.ahead)
             X == LostIn(box)
             H == HostIds(inhand.data)
             Q == QueueIds(queue)
  <2>1. Waiting(box, inhand, queue, posted) /\ BoxOrder(box) /\ (ScriptKeepsOpen => BoxEnd(box) /\ EndWaits(box, inhand, queue, scripted, hostClosed))
    BY <1>1, <1>3 DEF Hub, IInv, BoxOK
  <2>2. /\ \A s \in DOMAIN Way : Sorted(LeftBehind, Way[s])
        /\ \A s, t \in DOMAIN Way : s < t => Before(LeftBehind, HostIds(Way[s]), HostIds(Way[t]))
    BY <1>3, WayInOrder
  <2>3. /\ Len(queue) \in Nat /\ DOMAIN Way = 1 .. 5 + Len(queue) /\ DOMAIN queue = 1 .. Len(queue)
        /\ Way[1] = box.saw /\ Way[2] = box.ring /\ Way[3] = box.line /\ Way[4] = box.ahead /\ Way[5] = inhand.data
        /\ \A j \in DOMAIN queue : Way[5 + j] = queue[j].data
    BY WayIs
  <2> HIDE DEF Way
  <2>4. \A s \in DOMAIN Way : s = 1 \/ s = 2 \/ s = 3 \/ s = 4 \/ s = 5 \/ (s - 5 \in DOMAIN queue /\ Way[s] = queue[s - 5].data)
    <3> SUFFICES ASSUME NEW s \in DOMAIN Way, s \notin 1 .. 5 PROVE s - 5 \in DOMAIN queue /\ Way[s] = queue[s - 5].data
      OBVIOUS
    <3>1. s - 5 \in DOMAIN queue /\ 5 + (s - 5) = s
      BY <2>3
    <3> QED
      BY <2>3, <3>1
  <2>5. UNION {HostIds(Way[s]) : s \in DOMAIN Way} = S \cup R \cup L \cup A \cup H \cup Q
    <3>1. ASSUME NEW s \in DOMAIN Way PROVE HostIds(Way[s]) \subseteq S \cup R \cup L \cup A \cup H \cup Q
      <4>1. s - 5 \in DOMAIN queue => HostIds(queue[s - 5].data) \subseteq Q
        BY DEF QueueIds
      <4> QED
        BY <2>3, <2>4, <3>1, <4>1
    <3>2. ASSUME NEW x \in S \cup R \cup L \cup A \cup H \cup Q PROVE \E s \in DOMAIN Way : x \in HostIds(Way[s])
      <4>1. 1 \in DOMAIN Way /\ 2 \in DOMAIN Way /\ 3 \in DOMAIN Way /\ 4 \in DOMAIN Way /\ 5 \in DOMAIN Way
        BY <2>3
      <4>2. x \in Q => \E j \in DOMAIN queue : x \in HostIds(queue[j].data)
        BY DEF QueueIds
      <4>3. \A j \in DOMAIN queue : 5 + j \in DOMAIN Way
        BY <2>3
      <4> QED
        BY <2>3, <3>2, <4>1, <4>2, <4>3
    <3> QED
      BY <3>1, <3>2
  <2>6. X = Lost \cap OfHost
    BY DEF LostIn, Lost
  <2>7. Given(box) \cup H \cup Q = 1 .. posted /\ 1 .. posted \subseteq OfHost
    BY <1>1, <2>1, SizeAssumption DEF Waiting, Made, OfHost
  <2>8. X \cap (S \cup R \cup L \cup A) = {}
    BY <2>1 DEF BoxOrder
  <2>9. X \cap H = {} /\ X \cap Q = {}
    <3> DEFINE G == Given(box)
    <3>1. Before({}, G, H) /\ Before({}, G \cup H, Q) /\ X \subseteq G /\ X \subseteq OfHost /\ H \subseteq OfHost /\ Q \subseteq OfHost
      BY <2>1, HostIdsOf, QueueOf DEF Waiting, Given, LostIn
    <3> HIDE DEF X, H, Q, G
    <3>2. Before({}, X, H) /\ Before({}, X, Q)
      <4>1. X \subseteq G \cup H
        BY <3>1
      <4> QED
        BY <3>1, <4>1, BeforeLess
    <3> QED
      BY <3>1, <3>2, BeforeApart
  <2>10. S \cup R \cup L \cup A \cup H \cup Q = (1 .. posted) \ Lost
    <3>1. Given(box) = S \cup R \cup L \cup A \cup X
      BY DEF Given
    <3> HIDE DEF S, R, L, A, X, H, Q
    <3> QED
      BY <2>6, <2>7, <2>8, <2>9, <3>1
  <2>11. ASSUME NEW s \in DOMAIN Way, NEW t \in DOMAIN Way, NEW i \in DOMAIN Way[s], NEW j \in DOMAIN Way[t],
                s < t \/ (s = t /\ i < j)
         PROVE  InOrder(Way[s][i].id, Way[t][j].id)
    <3> DEFINE x == Way[s][i].id
               y == Way[t][j].id
    <3> SUFFICES ASSUME {x, y} \subseteq OfHost PROVE x < y \/ (x # y /\ {x, y} \cap LeftBehind # {})
      BY DEF InOrder
    <3>1. x \in HostIds(Way[s]) /\ y \in HostIds(Way[t])
      BY DEF HostIds
    <3>2. Before(LeftBehind, {x}, {y})
      <4>1. CASE s < t
        <5>1. Before(LeftBehind, HostIds(Way[s]), HostIds(Way[t]))
          BY <2>2, <4>1
        <5> HIDE DEF x, y
        <5> QED
          BY <3>1, <5>1, BeforeLess
      <4>2. CASE s = t /\ i < j
        <5>1. Sorted(LeftBehind, Way[s])
          BY <2>2
        <5> HIDE DEF Before
        <5> QED
          BY <4>2, <5>1 DEF Sorted
      <4> QED
        BY <2>11, <4>1, <4>2
    <3> HIDE DEF x, y
    <3> QED
      BY <3>2 DEF Before
  <2>12. TypedInOrder
    BY <2>5, <2>10, <2>11 DEF TypedInOrder
  <2>13. ASSUME ScriptKeepsOpen, EndIsTold PROVE \A s \in DOMAIN Way \ {1} : HostIds(Way[s]) = {}
    <3>1. Told(box.saw)
      BY <2>13 DEF EndIsTold, Told
    <3>2. R = {} /\ L = {} /\ A = {} /\ H = {} /\ queue = << >>
      BY <2>1, <2>13, <3>1 DEF BoxEnd, EndWaits
    <3>3. DOMAIN queue = {}
      BY <3>2
    <3> QED
      BY <2>3, <2>4, <3>2, <3>3
  <2> QED
    BY <2>12, <2>13
<1>4. TypedInOrder /\ EndComesLast
  BY <1>3 DEF TypedInOrder, EndComesLast
<1> QED
  BY <1>2, <1>4 DEF InputIsKept

-----------------------------------------------------------------------------
(* The invariant is inductive: whatever the host posts and when, and        *)
(* wherever the machine's thread is between its looks at the queue.         *)
THEOREM InputInductive == Spec => []IInv
<1>1. Init => IInv
  BY AtFirst
<1>2. IInv /\ [Next]_vars => IInv'
  <2> SUFFICES ASSUME IInv, [Next]_vars PROVE IInv'
    OBVIOUS
  <2>1. CASE Runner
    <3>1. CASE RunEnds \/ HostStays \/ ScriptDone \/ InjectEnds \/ ReplayDone \/ PaceWaits \/ SliceStarts
      BY <3>1, SmallSteps
    <3> QED
      BY <2>1, <3>1, RestartStep, ScriptStep, TakeStep, ApplyStep, ReplayStep, MachineStep DEF Runner, Inject
  <2>2. CASE Host
    BY <2>2, HostStep, SmallSteps DEF Host
  <2>3. CASE StartReplay
    BY <2>3, ReplayBegins
  <2>4. CASE UNCHANGED vars
    BY <2>4 DEF vars, IInv, BoxOK, Made, Hub, Waiting, EndWaits
  <2> QED
    BY <2>1, <2>2, <2>3, <2>4 DEF Next
<1> QED
  BY <1>1, <1>2, PTL DEF Spec

(* Every keystroke of the host reaches the program once and in the order it *)
(* was posted, unless the ring, the line or a restart dropped it, and the   *)
(* end of the input is told last.                                           *)
THEOREM InputKept == Spec => []InputIsKept
<1>1. IInv => InputIsKept
  BY KeptInput
<1> QED
  BY <1>1, InputInductive, PTL

-----------------------------------------------------------------------------
(* A replay goes the way of the run it was recorded from.                   *)

(* What the terminal's calls may change of a machine.                       *)
Aside == {"raised", "ring", "line", "ahead", "closing", "closed", "dropped", "cut"}

LEMMA AsideAfterAside ==
  ASSUME NEW b, NEW c, NEW d, NEW F, Changes(b, c, F), Changes(c, d, F) PROVE Changes(b, d, F)
BY DEF Changes

LEMMA AsideSame ==
  ASSUME NEW b, BoxForm(b), NEW F PROVE Changes(b, b, F)
BY DEF Changes

LEMMA DeliverAside ==
  ASSUME NEW b, BoxForm(b), NEW ks PROVE Changes(b, Deliver(b, ks), Aside)
<1> DEFINE x == b.ring \o Take(ks, Capacity - Len(b.ring))
           y == b.dropped \cup ToSet(Rest(ks, Capacity - Len(b.ring)))
           z == b.raised \/ (b.notify /\ ks # << >> /\ Capacity - Len(b.ring) > 0)
<1>1. Deliver(b, ks) = [b EXCEPT !.ring = x, !.dropped = y, !.raised = z]
  BY DEF Deliver
<1> HIDE DEF x, y, z
<1>2. PICK c : c = [b EXCEPT !.ring = x, !.dropped = y, !.raised = z]
  OBVIOUS
<1>3. Changes(b, c, Aside)
  BY <1>2 DEF Changes, BoxForm, BoxFields, Aside
<1> QED
  BY <1>1, <1>2, <1>3

LEMMA InsertAside ==
  ASSUME NEW b, BoxForm(b), NEW ks PROVE Changes(b, Insert(b, ks), Aside)
<1> DEFINE x == b.line \o Take(ks, MaxLine - Len(b.line))
           y == b.cut \cup ToSet(Rest(ks, MaxLine - Len(b.line)))
<1>1. Insert(b, ks) = [b EXCEPT !.line = x, !.cut = y]
  BY DEF Insert
<1> HIDE DEF x, y
<1>2. PICK c : c = [b EXCEPT !.line = x, !.cut = y]
  OBVIOUS
<1>3. Changes(b, c, Aside)
  BY <1>2 DEF Changes, BoxForm, BoxFields, Aside
<1> QED
  BY <1>1, <1>2, <1>3

(* A field of the terminal is set.                                          *)
LEMMA SetAside ==
  ASSUME NEW b, BoxForm(b), NEW c, NEW v,
         c = [b EXCEPT !.line = v] \/ c = [b EXCEPT !.ahead = v] \/ c = [b EXCEPT !.raised = v] \/ c = [b EXCEPT !.closing = v]
  PROVE  Changes(b, c, Aside) /\ BoxForm(c)
BY DEF Changes, BoxForm, BoxFields, Aside

LEMMA ClosedAside ==
  ASSUME NEW b, BoxForm(b), NEW c, c = [b EXCEPT !.closed = TRUE, !.closing = FALSE, !.raised = TRUE]
  PROVE  Changes(b, c, Aside)
BY DEF Changes, BoxForm, BoxFields, Aside

LEMMA QueuedAside ==
  ASSUME NEW b, BoxForm(b), NEW c, NEW v, NEW w, c = [b EXCEPT !.ahead = v, !.raised = w]
  PROVE  Changes(b, c, Aside)
BY DEF Changes, BoxForm, BoxFields, Aside

LEMMA SubmitAside ==
  ASSUME NEW b, BoxForm(b), NEW k PROVE Changes(b, Submit(b, k), Aside)
<1>1. PICK d : d = [b EXCEPT !.line = << >>]
  OBVIOUS
<1>2. Changes(b, d, Aside) /\ BoxForm(d)
  BY <1>1, SetAside
<1>3. Submit(b, k) = Deliver(d, Append(b.line, k))
  BY <1>1 DEF Submit
<1> QED
  BY <1>2, <1>3, DeliverAside, AsideAfterAside

LEMMA ProcessAside ==
  ASSUME NEW b, BoxForm(b), NEW k PROVE Changes(b, Process(b, k), Aside)
<1>1. CASE b.raw
  BY <1>1, DeliverAside DEF Process
<1>2. CASE ~b.raw /\ k.enter
  BY <1>2, SubmitAside DEF Process
<1>3. CASE ~b.raw /\ ~k.enter
  BY <1>3, InsertAside DEF Process
<1> QED
  BY <1>1, <1>2, <1>3

LEMMA FinishAside ==
  ASSUME NEW b, BoxForm(b) PROVE Changes(b, FinishClose(b), Aside)
<1>1. PICK d : d = [b EXCEPT !.line = << >>]
  OBVIOUS
<1>2. Changes(b, d, Aside) /\ BoxForm(d)
  BY <1>1, SetAside
<1>3. PICK f : f = IF b.line = << >> THEN b ELSE Deliver(d, b.line)
  OBVIOUS
<1>4. Changes(b, f, Aside) /\ BoxForm(f)
  BY <1>2, <1>3, AsideSame, DeliverAside, AsideAfterAside DEF Changes
<1>5. FinishClose(b) = [f EXCEPT !.closed = TRUE, !.closing = FALSE, !.raised = TRUE]
  BY <1>1, <1>3 DEF FinishClose
<1> QED
  BY <1>4, <1>5, ClosedAside, AsideAfterAside

LEMMA ConsumedAside ==
  ASSUME NEW b, BoxForm(b) PROVE Changes(b, Consumed(b), Aside)
<1> DEFINE a == b.ahead
           n == FirstEnter(a)
<1>1. CASE b.raw
  <2>1. PICK v, d : v = Tail(a) /\ d = [b EXCEPT !.ahead = v]
    OBVIOUS
  <2>2. Changes(b, d, Aside) /\ BoxForm(d)
    BY <2>1, SetAside
  <2>3. Consumed(b) = Deliver(d, <<Head(a)>>)
    BY <1>1, <2>1 DEF Consumed
  <2> QED
    BY <2>2, <2>3, DeliverAside, AsideAfterAside
<1>2. CASE ~b.raw /\ Enters(a) = {}
  <2>1. PICK d : d = [b EXCEPT !.ahead = << >>]
    OBVIOUS
  <2>2. Changes(b, d, Aside) /\ BoxForm(d)
    BY <2>1, SetAside
  <2>3. Consumed(b) = Insert(d, a)
    BY <1>2, <2>1 DEF Consumed
  <2> QED
    BY <2>2, <2>3, InsertAside, AsideAfterAside
<1>3. CASE ~b.raw /\ Enters(a) # {}
  <2>1. PICK d : d = [b EXCEPT !.ahead = Rest(a, n)]
    OBVIOUS
  <2>2. Changes(b, d, Aside) /\ BoxForm(d)
    BY <2>1, SetAside
  <2>3. PICK f : f = Insert(d, SubSeq(a, 1, n - 1))
    OBVIOUS
  <2>4. Changes(b, f, Aside) /\ BoxForm(f)
    BY <2>2, <2>3, InsertAside, AsideAfterAside DEF Changes
  <2>5. Consumed(b) = Submit(f, a[n])
    BY <1>3, <2>1, <2>3 DEF Consumed
  <2> QED
    BY <2>4, <2>5, SubmitAside, AsideAfterAside
<1> QED
  BY <1>1, <1>2, <1>3

LEMMA RefillAside ==
  ASSUME NEW b, BoxForm(b) PROVE Changes(b, Refill(b), Aside)
<1>1. PICK c : c = IF b.ahead = << >> \/ b.ring # << >> THEN b ELSE Consumed(b)
  OBVIOUS
<1>2. Changes(b, c, Aside) /\ BoxForm(c)
  BY <1>1, ConsumedAside, AsideSame DEF Changes
<1>3. Refill(b) = IF c.ahead = << >> /\ c.closing THEN FinishClose(c) ELSE c
  BY <1>1 DEF Refill
<1>4. Changes(c, Refill(b), Aside)
  BY <1>2, <1>3, FinishAside, AsideSame
<1> QED
  BY <1>2, <1>4, AsideAfterAside

(* An event the hub applies leaves the clock and what was read alone.       *)
LEMMA ApplyAside ==
  ASSUME NEW b, BoxForm(b), NEW e PROVE Changes(b, Apply(b, e), Aside)
<1>1. CASE e.kind = "typed"
  <2> DEFINE x == b.ahead \o e.data
             z == b.raised \/ (b.notify /\ b.ahead \o e.data # << >>)
  <2>1. Apply(b, e) = [b EXCEPT !.ahead = x, !.raised = z]
    BY <1>1 DEF Apply, Type
  <2> HIDE DEF x, z
  <2> QED
    BY <2>1, QueuedAside
<1>2. CASE e.kind = "key"
  <2> DEFINE k == e.data[1]
             x == Append(b.ahead, k)
  <2>1. PICK d : d = IF b.ahead # << >> THEN [b EXCEPT !.ahead = x] ELSE Process(b, k)
    OBVIOUS
  <2>2. Apply(b, e) = [d EXCEPT !.raised = TRUE]
    BY <1>2, <2>1 DEF Apply, TypeKeystroke
  <2> HIDE DEF k, x
  <2>3. Changes(b, d, Aside) /\ BoxForm(d)
    BY <2>1, SetAside, ProcessAside DEF Changes
  <2> QED
    BY <2>2, <2>3, SetAside, AsideAfterAside
<1>3. CASE e.kind = "close"
  <2>1. Apply(b, e) = IF b.ahead # << >> THEN [b EXCEPT !.closing = TRUE] ELSE FinishClose(b)
    BY <1>3 DEF Apply, CloseInput
  <2> QED
    BY <2>1, SetAside, FinishAside
<1>4. CASE e.kind \notin {"typed", "key", "close"}
  BY <1>4, AsideSame DEF Apply
<1> QED
  BY <1>1, <1>2, <1>3, <1>4

-----------------------------------------------------------------------------
(* The clock of the machine, and what it has read: a step goes on in time,  *)
(* unless the machine is off or sleeps with nothing to come, and what was   *)
(* read stays read.                                                         *)
Reads == [cycle : Nat, id : Int]
Clocked(b) == b.period > 0 => b.cycle <= b.due
Ahead(b, c) ==
  /\ BoxForm(c) /\ c.program = b.program /\ c.period = b.period /\ c.due = b.due /\ c.op = b.op
  /\ c.cycle = b.cycle /\ c.saw \in Seq(Reads) /\ IsPrefix(b.saw, c.saw)

LEMMA PrefixFacts ==
  ASSUME NEW s \in Seq(Reads), NEW t \in Seq(Reads), NEW u \in Seq(Reads)
  PROVE  /\ IsPrefix(s, t) <=> Len(s) <= Len(t) /\ \A i \in 1 .. Len(s) : s[i] = t[i]
         /\ IsPrefix(s, s) /\ IsPrefix(<< >>, s)
         /\ IsPrefix(s, t) /\ IsPrefix(t, u) => IsPrefix(s, u)
         /\ \A x \in Reads : Append(s, x) \in Seq(Reads) /\ IsPrefix(s, Append(s, x))
<1> HIDE DEF Reads
<1>1. ASSUME NEW a \in Seq(Reads), NEW b \in Seq(Reads)
      PROVE  IsPrefix(a, b) <=> Len(a) <= Len(b) /\ \A i \in 1 .. Len(a) : a[i] = b[i]
  <2>1. SubSeq(a, 1, Len(a)) = a
    OBVIOUS
  <2>2. ASSUME Len(a) <= Len(b), SubSeq(b, 1, Len(a)) = a, NEW i \in 1 .. Len(a) PROVE a[i] = b[i]
    <3>1. SubSeq(b, 1, Len(a))[i] = b[1 + i - 1]
      BY <2>2
    <3> QED
      BY <2>2, <3>1
  <2>3. ASSUME Len(a) <= Len(b), \A i \in 1 .. Len(a) : a[i] = b[i] PROVE SubSeq(b, 1, Len(a)) = a
    <3> DEFINE q == SubSeq(b, 1, Len(a))
    <3>1. q \in Seq(Reads) /\ Len(q) = Len(a) /\ \A i \in 1 .. Len(a) : q[i] = b[i]
      BY <2>3
    <3> HIDE DEF q
    <3>2. q = a
      BY <2>3, <3>1
    <3> QED
      BY <3>2 DEF q
  <2> QED
    BY <2>1, <2>2, <2>3 DEF IsPrefix
<1>2. IsPrefix(s, s)
  BY <1>1
<1>3. IsPrefix(<< >>, s)
  BY DEF IsPrefix
<1>4. IsPrefix(s, t) /\ IsPrefix(t, u) => IsPrefix(s, u)
  <2>1. Len(s) \in Nat /\ Len(t) \in Nat /\ Len(u) \in Nat
    OBVIOUS
  <2> QED
    BY <1>1, <2>1
<1>5. ASSUME NEW x \in Reads PROVE Append(s, x) \in Seq(Reads) /\ IsPrefix(s, Append(s, x))
  <2> DEFINE q == Append(s, x)
  <2>1. q \in Seq(Reads) /\ Len(q) = Len(s) + 1 /\ \A i \in 1 .. Len(s) : q[i] = s[i]
    OBVIOUS
  <2> HIDE DEF q
  <2>2. IsPrefix(s, q)
    BY <1>1, <2>1
  <2> QED
    BY <2>1, <2>2 DEF q
<1> QED
  BY <1>1, <1>2, <1>3, <1>4, <1>5

(* A read appends what it gave, and moves neither the clock nor the program. *)
LEMMA ReadAhead ==
  ASSUME NEW b, BoxOK(b), NEW c, c = ReadInput(b)
  PROVE  Ahead(b, c)
<1>1. BoxForm(b) /\ b.saw \in Seq(Reads)
  BY DEF BoxOK, BoxType, Reads
<1>2. PICK d : d = Refill(b)
  OBVIOUS
<1>3. Changes(b, d, Aside)
  BY <1>1, <1>2, RefillAside
<1>4. /\ BoxForm(d) /\ d.program = b.program /\ d.period = b.period /\ d.due = b.due /\ d.op = b.op
      /\ d.cycle = b.cycle /\ d.saw = b.saw
  BY <1>3 DEF Changes, BoxFields, Aside
<1>5. PICK r, w : c = [d EXCEPT !.ring = w, !.saw = Append(d.saw, r)] \/ c = [d EXCEPT !.saw = Append(d.saw, r)]
  <2>1. CASE d.ring # << >>
    <3>1. c = [d EXCEPT !.ring = Tail(d.ring), !.saw = Append(d.saw, [cycle |-> d.cycle, id |-> Head(d.ring).id])]
      BY <1>2, <2>1 DEF ReadInput, Saw
    <3> QED
      BY <3>1
  <2>2. CASE d.ring = << >>
    <3>1. PICK id : id = IF d.closed THEN EndOfInput ELSE Nothing
      OBVIOUS
    <3>2. c = [d EXCEPT !.saw = Append(d.saw, [cycle |-> d.cycle, id |-> id])]
      BY <1>2, <2>2, <3>1 DEF ReadInput, Saw
    <3> QED
      BY <3>2
  <2> QED
    BY <2>1, <2>2
<1> DEFINE q == Append(d.saw, r)
<1>6. c = [d EXCEPT !.ring = w, !.saw = q] \/ c = [d EXCEPT !.saw = q]
  BY <1>5
<1> HIDE DEF q
<1>7. Changes(d, c, {"ring", "saw"}) /\ c.saw = q
  BY <1>4, <1>6 DEF Changes, BoxForm, BoxFields
<1>8. c.saw \in Seq(Reads)
  BY ReadOn DEF Goes, BoxOK, BoxType, Reads
<1>9. IsPrefix(b.saw, c.saw)
  <2> DEFINE m == Len(b.saw)
  <2>1. Len(q) = m + 1 /\ m \in Nat /\ \A i \in 1 .. m : q[i] = b.saw[i]
    BY <1>1, <1>4 DEF q
  <2>2. Len(b.saw) <= Len(q)
    BY <2>1
  <2> QED
    BY <1>1, <1>7, <1>8, <2>1, <2>2, PrefixFacts
<1> QED
  BY <1>4, <1>7, <1>8, <1>9 DEF Changes, BoxFields, Ahead

LEMMA OperatedAhead ==
  ASSUME NEW b, BoxOK(b), NEW op \in Operation, NEW c, c = Operate(b, op)
  PROVE  Ahead(b, c)
<1>1. BoxForm(b) /\ b.saw \in Seq(Reads) /\ IsPrefix(b.saw, b.saw)
  BY PrefixFacts DEF BoxOK, BoxType, Reads
<1>2. CASE op = "read"
  BY <1>2, ReadAhead DEF Operate
<1>3. CASE op # "read"
  <2> DEFINE l == b.left \cup ToSet(b.line)
  <2>1. \/ c = b \/ c = [b EXCEPT !.raised = FALSE] \/ c = [b EXCEPT !.halted = TRUE]
        \/ c = [b EXCEPT !.raw = TRUE, !.notify = TRUE, !.left = l] \/ c = [b EXCEPT !.raw = FALSE, !.notify = TRUE]
        \/ c = [b EXCEPT !.on = FALSE, !.again = TRUE]
    BY <1>3 DEF Operate, Operation
  <2> HIDE DEF l
  <2>2. Changes(b, c, {"raised", "halted", "raw", "notify", "left", "on", "again"})
    BY <1>1, <2>1 DEF Changes, BoxForm, BoxFields
  <2> QED
    BY <1>1, <2>2 DEF Changes, BoxFields, Ahead
<1> QED
  BY <1>2, <1>3

(* An instruction takes a cycle, or ends the program.                       *)
Later(b, c) ==
  /\ BoxForm(c) /\ c.program = b.program /\ c.period = b.period /\ c.saw \in Seq(Reads) /\ IsPrefix(b.saw, c.saw)
LEMMA ExecutedLater ==
  ASSUME NEW b, BoxOK(b), NEW c, c = Execute(b)
  PROVE  Later(b, c) /\ c.due = b.due /\ (c.cycle = b.cycle + 1 \/ (c.cycle = b.cycle /\ ~c.on))
<1>1. BoxForm(b) /\ b.saw \in Seq(Reads) /\ IsPrefix(b.saw, b.saw) /\ BoxType(b)
  BY PrefixFacts DEF BoxOK, BoxType, Reads
<1>2. CASE b.op > Len(b.program)
  <2>1. c = [b EXCEPT !.on = FALSE]
    BY <1>2 DEF Execute
  <2>2. Changes(b, c, {"on"}) /\ ~c.on
    BY <1>1, <2>1 DEF Changes, BoxForm, BoxFields
  <2> QED
    BY <1>1, <2>2 DEF Changes, BoxFields, Later
<1>3. CASE ~(b.op > Len(b.program))
  <2> DEFINE o == b.program[b.op]
             n == b.op + 1
             k == b.cycle + 1
  <2>1. o \in Operation
    BY <1>1, <1>3 DEF BoxType
  <2>2. PICK d : d = Operate(b, o)
    OBVIOUS
  <2>3. c = [d EXCEPT !.op = n, !.cycle = k]
    BY <1>3, <2>2 DEF Execute
  <2> HIDE DEF o, n, k
  <2>4. Ahead(b, d)
    BY <2>1, <2>2, OperatedAhead
  <2>5. Changes(d, c, {"op", "cycle"}) /\ c.cycle = k
    BY <2>3, <2>4 DEF Changes, BoxForm, BoxFields, Ahead
  <2> QED
    BY <2>4, <2>5 DEF Changes, BoxFields, Ahead, Later, k
<1> QED
  BY <1>2, <1>3

LEMMA StepLater ==
  ASSUME NEW b, BoxOK(b), Clocked(b), NEW c, c = Step(b)
  PROVE  /\ Later(b, c) /\ Clocked(c) /\ c.cycle >= b.cycle
         /\ c.cycle > b.cycle \/ ~c.on \/ (c = b /\ c.halted)
<1> DEFINE x == b.due + b.period
<1>1. PICK d : d = IF b.period > 0 /\ b.cycle >= b.due THEN Service(b) ELSE b
  OBVIOUS
<1>2. BoxForm(b) /\ b.saw \in Seq(Reads) /\ IsPrefix(b.saw, b.saw) /\ b.cycle \in Nat /\ b.due \in Nat /\ b.period \in Nat
  BY PrefixFacts DEF BoxOK, BoxType, Reads
<1>3. d = b \/ d = [b EXCEPT !.raised = TRUE, !.due = x]
  BY <1>1 DEF Service
<1>4. d.due = b.due \/ d.due = x
  BY <1>2, <1>3 DEF BoxForm, BoxFields
<1>5. BoxOK(d) /\ (b.period > 0 => b.cycle < d.due) /\ (~(b.period > 0 /\ b.cycle >= b.due) => d = b)
  <2>1. CASE b.period > 0 /\ b.cycle >= b.due
    <3>1. d = [b EXCEPT !.raised = TRUE, !.due = x]
      BY <1>1, <2>1 DEF Service
    <3>2. d.due = x
      BY <1>2, <3>1 DEF BoxForm, BoxFields
    <3>3. BoxOK(d)
      BY <1>1, <2>1, Serviced DEF Goes
    <3>4. b.cycle < d.due
      BY <1>2, <2>1, <3>2 DEF Clocked
    <3> QED
      BY <2>1, <3>3, <3>4
  <2>2. CASE ~(b.period > 0 /\ b.cycle >= b.due)
    BY <1>1, <1>2, <2>2
  <2> QED
    BY <2>1, <2>2
<1>6. Changes(b, d, {"raised", "due"})
  <2> HIDE DEF x
  <2> QED
    BY <1>2, <1>3 DEF Changes, BoxForm, BoxFields
<1>7. /\ BoxForm(d) /\ d.program = b.program /\ d.period = b.period /\ d.cycle = b.cycle /\ d.saw = b.saw
      /\ d.halted = b.halted /\ d.on = b.on /\ d.due \in Nat
  BY <1>2, <1>4, <1>6 DEF Changes, BoxFields
<1>8. ASSUME NEW e, BoxOK(e), Changes(d, e, {"halted", "raised"}), c = Execute(e)
      PROVE  Later(b, c) /\ Clocked(c) /\ c.cycle >= b.cycle /\ (c.cycle > b.cycle \/ ~c.on)
  <2>1. e.program = d.program /\ e.period = d.period /\ e.cycle = d.cycle /\ e.saw = d.saw /\ e.due = d.due
    BY <1>8 DEF Changes, BoxFields
  <2>2. Later(e, c) /\ c.due = e.due /\ (c.cycle = e.cycle + 1 \/ (c.cycle = e.cycle /\ ~c.on))
    BY <1>8, ExecutedLater
  <2>3. Later(b, c)
    BY <1>7, <2>1, <2>2 DEF Later
  <2>4. Clocked(c)
    BY <1>2, <1>5, <1>7, <2>1, <2>2 DEF Later, Clocked
  <2> QED
    BY <1>2, <1>7, <2>1, <2>2, <2>3, <2>4
<1>9. CASE ~d.halted
  <2>1. c = Execute(d) /\ Changes(d, d, {"halted", "raised"})
    BY <1>1, <1>7, <1>9 DEF Step, Changes
  <2> QED
    BY <1>5, <1>8, <2>1
<1>10. CASE d.halted /\ d.raised
  <2>1. PICK e : e = [d EXCEPT !.halted = FALSE, !.raised = FALSE]
    OBVIOUS
  <2>2. c = Execute(e)
    BY <1>1, <1>10, <2>1 DEF Step
  <2>3. Changes(d, e, {"halted", "raised"})
    BY <1>7, <2>1 DEF Changes, BoxForm, BoxFields
  <2>4. BoxOK(e)
    <3>1. Changes(d, e, Clockwork \cup {"raw", "notify"}) /\ e.raw = d.raw /\ e.op = d.op /\ e.cycle = d.cycle /\ e.due = d.due
      BY <2>3 DEF Changes, BoxFields, Clockwork
    <3> QED
      BY <1>5, <3>1, ClockOnly DEF BoxOK, BoxType, Goes
  <2> QED
    BY <1>8, <2>2, <2>3, <2>4
<1>11. CASE d.halted /\ ~d.raised
  <2>1. c = IF d.period = 0 THEN d ELSE Service([d EXCEPT !.cycle = d.due])
    BY <1>1, <1>11 DEF Step
  <2>2. CASE d.period = 0
    <3>1. c = b /\ c.halted
      BY <1>2, <1>5, <1>7, <1>11, <2>1, <2>2
    <3> QED
      BY <1>2, <3>1 DEF Later
  <2>3. CASE d.period # 0
    <3> DEFINE y == d.due + d.period
               u == d.due
    <3>1. PICK e : e = [d EXCEPT !.cycle = u]
      OBVIOUS
    <3>2. e.due + e.period = y
      BY <1>7, <3>1 DEF BoxForm, BoxFields
    <3>3. c = [e EXCEPT !.raised = TRUE, !.due = y]
      BY <2>1, <2>3, <3>1, <3>2 DEF Service
    <3> HIDE DEF y, u
    <3>4. Changes(d, e, {"cycle"}) /\ e.cycle = u
      BY <1>7, <3>1 DEF Changes, BoxForm, BoxFields
    <3>5. Changes(e, c, {"raised", "due"}) /\ c.due = y
      BY <3>3, <3>4 DEF Changes, BoxForm, BoxFields
    <3>6. /\ BoxForm(c) /\ c.program = d.program /\ c.period = d.period /\ c.saw = d.saw /\ c.cycle = u /\ c.due = y
      BY <3>4, <3>5 DEF Changes, BoxFields
    <3>7. c.cycle > b.cycle /\ c.cycle <= c.due /\ c.cycle >= b.cycle
      BY <1>2, <1>5, <1>7, <2>3, <3>6 DEF u, y
    <3> QED
      BY <1>2, <1>7, <3>6, <3>7 DEF Later, Clocked
  <2> QED
    BY <2>2, <2>3
<1> QED
  BY <1>8, <1>9, <1>10, <1>11

LEMMA RestartLater ==
  ASSUME NEW b, BoxOK(b), NEW c, c = Restart(b)
  PROVE  Later(b, c) /\ Clocked(c) /\ c.on /\ c.cycle = 0
<1>1. BoxForm(b) /\ b.saw \in Seq(Reads) /\ IsPrefix(b.saw, b.saw) /\ b.period \in Nat
  BY PrefixFacts DEF BoxOK, BoxType, Reads
<1> DEFINE l == b.cut \cup ToSet(b.line)
           t == b.period
<1>2. PICK d : d = ResetTerminal(b)
  OBVIOUS
<1>3. d = [b EXCEPT !.raw = FALSE, !.notify = FALSE, !.line = << >>, !.cut = l]
  BY <1>2 DEF ResetTerminal
<1>4. c = [d EXCEPT !.on = TRUE, !.again = FALSE, !.cycle = 0, !.due = t, !.halted = FALSE, !.raised = FALSE]
  BY <1>2 DEF Restart
<1> HIDE DEF l, t
<1>5. Changes(b, d, {"raw", "notify", "line", "cut"})
  BY <1>1, <1>3 DEF Changes, BoxForm, BoxFields
<1>6. Changes(d, c, Clockwork) /\ c.on /\ c.cycle = 0 /\ c.due = t
  BY <1>4, <1>5 DEF Changes, BoxForm, BoxFields, Clockwork
<1> QED
  BY <1>1, <1>5, <1>6 DEF Changes, BoxFields, Clockwork, Later, Clocked, t

LEMMA ApplyLater ==
  ASSUME NEW b, BoxOK(b), Clocked(b), NEW e, NEW c, c = Apply(b, e)
  PROVE  Later(b, c) /\ Clocked(c) /\ c.on = b.on /\ c.again = b.again /\ c.cycle = b.cycle
<1>1. BoxForm(b) /\ b.saw \in Seq(Reads) /\ IsPrefix(b.saw, b.saw)
  BY PrefixFacts DEF BoxOK, BoxType, Reads
<1>2. Changes(b, c, Aside)
  BY <1>1, ApplyAside
<1> QED
  BY <1>1, <1>2 DEF Changes, BoxFields, Aside, Later, Clocked

-----------------------------------------------------------------------------
(* The way of a run: the machine before each thing that happened to it, how *)
(* much of the recording it had been given, and where a slice under way     *)
(* ends (0: none is).  Each point follows from the one before and the       *)
(* recording alone, which is why two runs with one recording go one way.    *)
Point(b, n, e) == [b |-> b, n |-> n, end |-> e]
DueAt(L, x) == x.n <= Len(L) /\ L[x.n].kind # "reset" /\ L[x.n].at <= x.b.cycle
EndOf(x) == IF x.end # 0 THEN x.end ELSE x.b.cycle + SliceCycles
OverAt(b, e) == ~b.on \/ b.cycle >= e \/ b.halted
Ran(x) == Point(Step(x.b), x.n, IF OverAt(Step(x.b), EndOf(x)) THEN 0 ELSE EndOf(x))
Moves(L, x, y) ==
  \/ /\ x.end = 0 /\ ~x.b.on /\ x.b.again /\ x.n <= Len(L) /\ L[x.n].kind = "reset"
     /\ y = Point(Restart(x.b), x.n + 1, 0)
  \/ /\ x.end = 0 /\ x.b.on /\ DueAt(L, x) /\ L[x.n].kind # "quit"
     /\ y = Point(Apply(x.b, L[x.n]), x.n + 1, 0)
  \/ /\ x.b.on /\ (x.end # 0 \/ ~DueAt(L, x))
     /\ y = Ran(x)

Placed(L, x, last) ==
  /\ x.n \in 1 .. Len(L) + 1 /\ x.end \in Nat /\ x.b.cycle \in Nat
  /\ x.b.saw \in Seq(Reads) /\ IsPrefix(x.b.saw, last.b.saw)
Trail(L, T, m) ==
  /\ m \in Nat \ {0}
  /\ \A i \in 1 .. m : Placed(L, T[i], T[m])
  /\ \A i \in 1 .. m - 1 : Moves(L, T[i], T[i + 1])
(* A machine that has been given the whole recording and went on has gone   *)
(* on in time: what is recorded from now on was not yet due.                *)
Settled(L, T, m) ==
  \A i \in 1 .. m - 1 : T[i].end = 0 /\ T[i].n = Len(L) + 1 /\ T[m].b.on => T[i].b.cycle < T[m].b.cycle
Final(L, x) ==
  /\ x.end = 0
  /\ x.b.on => DueAt(L, x) /\ L[x.n].kind = "quit"
  /\ ~x.b.on => ~x.b.again
Stands(x, p, e) ==
  /\ x.end # 0 => p = "slice" /\ ~x.b.halted
  /\ p = "slice" => e = EndOf(x)

Recorded(T, m, b, L, p, e) ==
  /\ Trail(L, T, m) /\ T[1] = Point(NewBox(b.program, b.period), 1, 0) /\ T[m].b = b
  /\ p # "ended" => T[m].n = Len(L) + 1 /\ Stands(T[m], p, e) /\ Settled(L, T, m)
  /\ p = "ended" => Final(L, T[m])
Replayed(T, m, i, b, o, L, n, p, e) ==
  /\ Trail(L, T, m) /\ T[m].b = o /\ Final(L, T[m])
  /\ i \in 1 .. m /\ T[i].b = b /\ T[i].n = n /\ Stands(T[i], p, e)
  /\ p \in {"pace", "slice"} => T[i].end # 0 \/ ~DueAt(L, T[i])
  /\ p = "ended" => b = o

Speaks(e) == e.kind \notin {"reset", "quit"}
Places ==
  /\ pc \notin {"top", "ended"} => box.on
  /\ replaying => pc \in {"top", "replay", "pace", "slice", "ended"}
  /\ Clocked(box) /\ Speaks(inhand) /\ \A j \in DOMAIN queue : Speaks(queue[j])
OneWay ==
  /\ Places
  /\ ~replaying => \E m, T : Recorded(T, m, box, log, pc, end)
  /\ replaying => \E m, T, i : Replayed(T, m, i, box, original, log, next, pc, end)

(* The way goes on by one point.                                            *)
LEMMA TrailGoesOn ==
  ASSUME NEW L, Len(L) \in Nat, NEW m, NEW T, Trail(L, T, m), NEW y, Moves(L, T[m], y), Placed(L, y, y),
         IsPrefix(T[m].b.saw, y.b.saw)
  PROVE  \E U : Trail(L, U, m + 1) /\ U[m + 1] = y /\ \A i \in 1 .. m : U[i] = T[i]
<1> DEFINE U == [i \in 1 .. m + 1 |-> IF i = m + 1 THEN y ELSE T[i]]
<1>1. m \in Nat \ {0} /\ U[m + 1] = y /\ \A i \in 1 .. m : U[i] = T[i]
  BY DEF Trail
<1> HIDE DEF U
<1>2. ASSUME NEW i \in 1 .. m + 1 PROVE Placed(L, U[i], U[m + 1])
  <2>1. CASE i = m + 1
    BY <1>1, <2>1
  <2>2. CASE i \in 1 .. m
    <3>0. \A j \in 1 .. m : Placed(L, T[j], T[m])
      BY DEF Trail
    <3>1. Placed(L, T[i], T[m]) /\ Placed(L, T[m], T[m])
      BY <1>1, <2>2, <3>0
    <3>2. PICK r, q, z : r = T[i].b.saw /\ q = T[m].b.saw /\ z = y.b.saw
      OBVIOUS
    <3>3. r \in Seq(Reads) /\ q \in Seq(Reads) /\ z \in Seq(Reads) /\ IsPrefix(r, q) /\ IsPrefix(q, z)
      BY <3>1, <3>2 DEF Placed
    <3>4. IsPrefix(r, z)
      BY <3>3, PrefixFacts
    <3>5. IsPrefix(T[i].b.saw, y.b.saw)
      BY <3>2, <3>4
    <3> QED
      BY <1>1, <2>2, <3>1, <3>5 DEF Placed
  <2> QED
    BY <1>1, <2>1, <2>2
<1>3. ASSUME NEW i \in 1 .. (m + 1) - 1 PROVE Moves(L, U[i], U[i + 1])
  <2>1. CASE i = m
    BY <1>1, <2>1
  <2>2. CASE i \in 1 .. m - 1
    <3>1. i \in 1 .. m /\ i + 1 \in 1 .. m
      BY <1>1, <2>2
    <3> QED
      BY <1>1, <2>2, <3>1 DEF Trail
  <2> QED
    BY <1>1, <2>1, <2>2
<1>4. Trail(L, U, m + 1)
  BY <1>1, <1>2, <1>3 DEF Trail
<1> QED
  BY <1>1, <1>4

(* What is recorded after a machine went on does not change its way.        *)
LEMMA TrailIsKept ==
  ASSUME NEW L \in Seq(Whole), NEW m, NEW T, Trail(L, T, m), NEW e \in Whole, NEW M, M = Append(L, e),
         \A i \in 1 .. m - 1 : T[i].end = 0 /\ T[i].n = Len(L) + 1 /\ T[i].b.on => e.kind = "reset" \/ T[i].b.cycle < e.at
  PROVE  Trail(M, T, m)
<1>1. Len(L) \in Nat /\ Len(M) = Len(L) + 1 /\ M[Len(L) + 1] = e /\ \A i \in 1 .. Len(L) : M[i] = L[i]
  <2> HIDE DEF Whole
  <2> QED
    OBVIOUS
<1>2. m \in Nat \ {0} /\ (\A i \in 1 .. m : Placed(L, T[i], T[m])) /\ \A i \in 1 .. m - 1 : Moves(L, T[i], T[i + 1])
  BY DEF Trail
<1>3. \A i \in 1 .. m : Placed(M, T[i], T[m])
  BY <1>1, <1>2 DEF Placed
<1>4. e.at \in Nat
  BY DEF Whole, Event
<1>5. ASSUME NEW i \in 1 .. m - 1 PROVE Moves(M, T[i], T[i + 1])
  <2> DEFINE x == T[i]
  <2>1. i \in 1 .. m /\ Moves(L, x, T[i + 1])
    BY <1>2
  <2>2. Placed(L, x, T[m]) /\ (x.end = 0 /\ x.n = Len(L) + 1 /\ x.b.on => e.kind = "reset" \/ x.b.cycle < e.at)
    BY <1>2, <2>1
  <2> HIDE DEF x
  <2>3. x.n <= Len(L) => M[x.n] = L[x.n] /\ x.n <= Len(M)
    BY <1>1, <2>2 DEF Placed
  <2>4. ASSUME x.n <= Len(L) PROVE DueAt(M, x) <=> DueAt(L, x)
    <3>1. PICK r : r = L[x.n]
      OBVIOUS
    <3>2. M[x.n] = r /\ x.n <= Len(M)
      BY <2>3, <2>4, <3>1
    <3> QED
      BY <2>4, <3>1, <3>2 DEF DueAt
  <2>5. x.end = 0 /\ x.b.on /\ ~(x.n <= Len(L)) => ~DueAt(M, x) /\ ~DueAt(L, x)
    BY <1>1, <1>4, <2>2 DEF DueAt, Placed
  <2>6. DueAt(L, x) => x.n <= Len(L)
    BY DEF DueAt
  <2> QED
    BY <2>1, <2>3, <2>4, <2>5, <2>6 DEF Moves, x
<1> QED
  BY <1>2, <1>3, <1>5 DEF Trail

(* Where the recording grows, nothing that came before waited for its end.   *)
LEMMA GivenGoesOn ==
  ASSUME NEW M, Len(M) \in Nat, NEW m, NEW T, Trail(M, T, m), \A i \in 1 .. m : T[i].n # Len(M) + 1,
         NEW y, Moves(M, T[m], y), Placed(M, y, y), y.n = Len(M) + 1, y.end = 0, IsPrefix(T[m].b.saw, y.b.saw),
         NEW c, y.b = c, T[1] = Point(NewBox(c.program, c.period), 1, 0), NEW q, q \notin {"slice", "ended"}, NEW e
  PROVE  \E k, U : Recorded(U, k, c, M, q, e)
<1>1. PICK U : Trail(M, U, m + 1) /\ U[m + 1] = y /\ \A i \in 1 .. m : U[i] = T[i]
  BY TrailGoesOn
<1>2. m \in Nat \ {0}
  BY DEF Trail
<1>3. Settled(M, U, m + 1)
  <2>1. ASSUME NEW i \in 1 .. (m + 1) - 1 PROVE U[i].n # Len(M) + 1
    <3>1. i \in 1 .. m
      BY <1>2
    <3> QED
      BY <1>1, <3>1
  <2> QED
    BY <2>1 DEF Settled
<1>4. U[1] = Point(NewBox(c.program, c.period), 1, 0)
  BY <1>1, <1>2
<1>5. Recorded(U, m + 1, c, M, q, e)
  BY <1>1, <1>3, <1>4 DEF Recorded, Stands
<1> QED
  BY <1>5

(* Whether a slice goes on with the machine it has now.                     *)
Continues(c, e, p, f) == IF OverAt(c, e) THEN p = "top" /\ f = 0 ELSE p = "slice" /\ f = e

(* A step of a recorded machine is the next point, unless it sleeps.        *)
LEMMA RunGoes ==
  ASSUME NEW L \in Seq(Whole), NEW m, NEW T, NEW b, NEW e, Recorded(T, m, b, L, "slice", e), BoxOK(b), Clocked(b), b.on,
         NEW c, c = Step(b), NEW p, NEW f, Continues(c, e, p, f)
  PROVE  \E k, U : Recorded(U, k, c, L, p, f)
<1> DEFINE x == T[m]
<1>1. /\ Trail(L, T, m) /\ T[1] = Point(NewBox(b.program, b.period), 1, 0) /\ x.b = b /\ x.n = Len(L) + 1
      /\ Settled(L, T, m) /\ e = EndOf(x) /\ (x.end # 0 => ~b.halted) /\ p # "ended"
  BY DEF Recorded, Stands, Continues
<1>2. /\ Later(b, c) /\ Clocked(c) /\ c.cycle >= b.cycle /\ (c.cycle > b.cycle \/ ~c.on \/ (c = b /\ c.halted))
  BY StepLater
<1>3. c.cycle \in Nat /\ b.cycle \in Nat /\ b.saw \in Seq(Reads) /\ c.saw \in Seq(Reads) /\ IsPrefix(c.saw, c.saw)
  BY <1>2, Stepped, PrefixFacts DEF Goes, BoxOK, BoxType, Reads, Later
<1>4. Len(L) \in Nat /\ m \in Nat \ {0} /\ Placed(L, x, x) /\ \A i \in 1 .. m - 1 : Placed(L, T[i], x)
  <2> HIDE DEF Whole
  <2> QED
    BY <1>1 DEF Trail
<1> HIDE DEF x
<1>5. e \in Nat \ {0}
  BY <1>1, <1>3, <1>4, SizeAssumption DEF EndOf, Placed
<1>6. CASE c = b /\ c.halted
  <2>1. OverAt(c, e) /\ x.end = 0
    BY <1>1, <1>6 DEF OverAt
  <2>2. Stands(x, p, f)
    BY <2>1 DEF Stands, Continues
  <2>3. Recorded(T, m, c, L, p, f)
    BY <1>1, <1>6, <2>2 DEF Recorded, x
  <2> QED
    BY <2>3
<1>7. CASE c.cycle > b.cycle \/ ~c.on
  <2>1. PICK y : y = Point(c, x.n, IF OverAt(c, e) THEN 0 ELSE e)
    OBVIOUS
  <2>2. y.b = c /\ y.n = Len(L) + 1 /\ y.end = IF OverAt(c, e) THEN 0 ELSE e
    BY <1>1, <2>1 DEF Point
  <2>3. y = Ran(x)
    BY <1>1, <2>1 DEF Ran
  <2>4. ~DueAt(L, x)
    BY <1>1, <1>4 DEF DueAt
  <2>5. Moves(L, x, y)
    BY <1>1, <2>3, <2>4 DEF Moves
  <2>6. Placed(L, y, y)
    BY <1>3, <1>4, <1>5, <2>2 DEF Placed
  <2>7. PICK U : Trail(L, U, m + 1) /\ U[m + 1] = y /\ \A i \in 1 .. m : U[i] = T[i]
    BY <1>1, <1>2, <1>4, <2>2, <2>5, <2>6, TrailGoesOn DEF x, Later
  <2>8. U[1] = Point(NewBox(c.program, c.period), 1, 0)
    BY <1>1, <1>2, <1>4, <2>7 DEF Later
  <2>9. Stands(y, p, f)
    BY <1>5, <2>2 DEF Stands, EndOf, OverAt, Continues
  <2>10. Settled(L, U, m + 1)
    <3>1. ASSUME NEW i \in 1 .. (m + 1) - 1, U[i].end = 0, U[i].n = Len(L) + 1, c.on PROVE U[i].b.cycle < c.cycle
      <4>1. i \in 1 .. m /\ U[i] = T[i]
        BY <1>4, <2>7
      <4>2. CASE i = m
        BY <1>1, <1>7, <1>3, <3>1, <4>1, <4>2 DEF x
      <4>3. CASE i # m
        <5>1. i \in 1 .. m - 1 /\ T[i].b.cycle \in Nat
          BY <1>4, <4>1, <4>3 DEF Placed
        <5>2. T[i].b.cycle < b.cycle
          BY <1>1, <3>1, <4>1, <5>1 DEF Settled, x
        <5> QED
          BY <1>2, <1>3, <4>1, <5>1, <5>2
      <4> QED
        BY <4>2, <4>3
    <3> QED
      BY <2>2, <2>7, <3>1 DEF Settled
  <2>11. Recorded(U, m + 1, c, L, p, f)
    BY <1>1, <2>2, <2>7, <2>8, <2>9, <2>10 DEF Recorded
  <2> QED
    BY <2>11
<1> QED
  BY <1>2, <1>6, <1>7

(* The recording with one input more; the thread between two slices.      *)
Grown(M, L, v) == M = Append(L, v)
Between(p) == p \notin {"slice", "ended"}

(* What goes in between two slices is recorded, and is the next point.      *)
LEMMA InputGoes ==
  ASSUME NEW L \in Seq(Whole), NEW m, NEW T, NEW b, NEW p, NEW e, Recorded(T, m, b, L, p, e), Between(p),
         BoxOK(b), Clocked(b), b.on, NEW v \in Whole, Speaks(v), v.at = b.cycle, NEW c, c = Apply(b, v),
         NEW M, Grown(M, L, v), NEW q, Between(q)
  PROVE  \E k, U : Recorded(U, k, c, M, q, e)
<1> DEFINE x == T[m]
<1>1. /\ Trail(L, T, m) /\ T[1] = Point(NewBox(b.program, b.period), 1, 0) /\ x.b = b /\ x.n = Len(L) + 1
      /\ Settled(L, T, m) /\ x.end = 0 /\ q \notin {"slice", "ended"}
  BY DEF Recorded, Stands, Between
<1>2. Later(b, c) /\ c.on /\ c.cycle = b.cycle
  BY ApplyLater
<1>3. b.cycle \in Nat /\ c.saw \in Seq(Reads) /\ IsPrefix(c.saw, c.saw)
  BY <1>2, PrefixFacts DEF BoxOK, BoxType, Later
<1>4. m \in Nat \ {0} /\ \A i \in 1 .. m : Placed(L, T[i], x)
  BY <1>1 DEF Trail
<1>5. Len(L) \in Nat /\ Len(M) = Len(L) + 1 /\ M[Len(L) + 1] = v /\ M = Append(L, v)
  <2> HIDE DEF Whole
  <2> QED
    BY DEF Grown
<1> HIDE DEF x
<1>6. Trail(M, T, m)
  BY <1>1, <1>5, TrailIsKept DEF Settled, x
<1>7. PICK y : y = Point(c, x.n + 1, 0)
  OBVIOUS
<1>8. y.b = c /\ y.n = Len(M) + 1 /\ y.end = 0
  BY <1>1, <1>5, <1>7 DEF Point
<1>9. DueAt(M, x) /\ M[x.n] = v
  BY <1>1, <1>3, <1>5 DEF DueAt, Speaks
<1>10. Moves(M, x, y)
  BY <1>1, <1>7, <1>9 DEF Moves, Speaks
<1>11. Placed(M, y, y)
  BY <1>2, <1>3, <1>5, <1>8 DEF Placed
<1>12. Moves(M, T[m], y) /\ IsPrefix(T[m].b.saw, y.b.saw) /\ Len(M) \in Nat
  BY <1>1, <1>2, <1>5, <1>8, <1>10 DEF x, Later
<1>13. \A i \in 1 .. m : T[i].n # Len(M) + 1
  BY <1>4, <1>5 DEF Placed
<1>14. T[1] = Point(NewBox(c.program, c.period), 1, 0)
  BY <1>1, <1>2 DEF Later
<1> QED
  BY <1>6, <1>8, <1>11, <1>12, <1>13, <1>14, GivenGoesOn DEF Between

(* So is a restart.                                                         *)
LEMMA RestartGoes ==
  ASSUME NEW L \in Seq(Whole), NEW m, NEW T, NEW b, NEW e, Recorded(T, m, b, L, "top", e),
         BoxOK(b), ~b.on, b.again, NEW v \in Whole, v.kind = "reset", NEW c, c = Restart(b),
         NEW M, Grown(M, L, v)
  PROVE  \E k, U : Recorded(U, k, c, M, "top", e)
<1> DEFINE x == T[m]
<1>1. /\ Trail(L, T, m) /\ T[1] = Point(NewBox(b.program, b.period), 1, 0) /\ x.b = b /\ x.n = Len(L) + 1
      /\ Settled(L, T, m) /\ x.end = 0
  BY DEF Recorded, Stands
<1>2. Later(b, c) /\ c.cycle = 0
  BY RestartLater
<1>3. c.saw \in Seq(Reads) /\ IsPrefix(c.saw, c.saw)
  BY <1>2, PrefixFacts DEF Later
<1>4. m \in Nat \ {0} /\ \A i \in 1 .. m : Placed(L, T[i], x)
  BY <1>1 DEF Trail
<1>5. Len(L) \in Nat /\ Len(M) = Len(L) + 1 /\ M[Len(L) + 1] = v /\ M = Append(L, v)
  <2> HIDE DEF Whole
  <2> QED
    BY DEF Grown
<1> HIDE DEF x
<1>6. Trail(M, T, m)
  BY <1>1, <1>5, TrailIsKept
<1>7. PICK y : y = Point(c, x.n + 1, 0)
  OBVIOUS
<1>8. y.b = c /\ y.n = Len(M) + 1 /\ y.end = 0
  BY <1>1, <1>5, <1>7 DEF Point
<1>10. Moves(M, x, y)
  BY <1>1, <1>5, <1>7 DEF Moves
<1>11. Placed(M, y, y)
  BY <1>2, <1>3, <1>5, <1>8 DEF Placed
<1>12. Moves(M, T[m], y) /\ IsPrefix(T[m].b.saw, y.b.saw) /\ Len(M) \in Nat
  BY <1>1, <1>2, <1>5, <1>8, <1>10 DEF x, Later
<1>13. \A i \in 1 .. m : T[i].n # Len(M) + 1
  BY <1>4, <1>5 DEF Placed
<1>14. T[1] = Point(NewBox(c.program, c.period), 1, 0)
  BY <1>1, <1>2 DEF Later
<1> QED
  BY <1>6, <1>8, <1>11, <1>12, <1>13, <1>14, GivenGoesOn

(* The end of a run is the end of its way.                                  *)
LEMMA WayEnds ==
  ASSUME NEW L \in Seq(Whole), NEW m, NEW T, NEW b, NEW e, Recorded(T, m, b, L, "top", e), BoxOK(b), NEW f
  PROVE  /\ ~b.on /\ ~b.again => Recorded(T, m, b, L, "ended", f)
         /\ \A v \in Whole : \A M : b.on /\ v.kind = "quit" /\ v.at = b.cycle /\ M = Append(L, v) => Recorded(T, m, b, M, "ended", f)
<1> DEFINE x == T[m]
<1>1. /\ Trail(L, T, m) /\ T[1] = Point(NewBox(b.program, b.period), 1, 0) /\ x.b = b /\ x.n = Len(L) + 1
      /\ Settled(L, T, m) /\ x.end = 0
  BY DEF Recorded, Stands
<1>2. ~b.on /\ ~b.again => Final(L, x)
  BY <1>1 DEF Final
<1>3. ASSUME NEW v \in Whole, NEW M, b.on, v.kind = "quit", v.at = b.cycle, M = Append(L, v) PROVE Trail(M, T, m) /\ Final(M, x)
  <2>1. Trail(M, T, m)
    BY <1>1, <1>3, TrailIsKept DEF Settled
  <2>2. Len(L) \in Nat /\ Len(M) = Len(L) + 1 /\ M[Len(L) + 1] = v
    <3> HIDE DEF Whole
    <3> QED
      BY <1>3
  <2>3. b.cycle \in Nat
    BY DEF BoxOK, BoxType
  <2> HIDE DEF x
  <2>4. DueAt(M, x) /\ M[x.n].kind = "quit"
    BY <1>1, <1>3, <2>2, <2>3 DEF DueAt
  <2> QED
    BY <1>1, <1>3, <2>1, <2>4 DEF Final
<1> QED
  BY <1>1, <1>2, <1>3 DEF Recorded

(* A replay that is not at the end of the way is at a point that has a      *)
(* next; which one, the machine and the recording tell.                     *)
LEMMA ReplayIsOnTheWay ==
  ASSUME NEW L, NEW m, NEW T, NEW i, NEW b, NEW o, NEW n, NEW p, NEW e, Replayed(T, m, i, b, o, L, n, p, e),
         NEW x, x = T[i]
  PROVE  /\ x.b = b /\ x.n = n /\ (~Final(L, x) => i + 1 \in 1 .. m /\ Moves(L, x, T[i + 1]))
         /\ Final(L, x) => b = o
<1>1. Trail(L, T, m) /\ Final(L, T[m]) /\ i \in 1 .. m /\ T[i].b = b /\ T[i].n = n /\ T[m].b = o
  BY DEF Replayed
<1>2. m \in Nat \ {0}
  BY <1>1 DEF Trail
<1>3. i # m => i \in 1 .. m - 1 /\ i + 1 \in 1 .. m
  BY <1>1, <1>2
<1>4. i # m => Moves(L, x, T[i + 1])
  BY <1>1, <1>3 DEF Trail
<1>5. Moves(L, x, T[i + 1]) => ~Final(L, x)
  BY DEF Moves, Final
<1> QED
  BY <1>1, <1>3, <1>4, <1>5

LEMMA ReplayGoesOn ==
  ASSUME NEW L, NEW m, NEW T, NEW i, NEW b, NEW o, NEW n, NEW p, NEW e, Replayed(T, m, i, b, o, L, n, p, e),
         NEW x, x = T[i], NEW y, y = T[i + 1], i + 1 \in 1 .. m,
         NEW q, NEW f, q \notin {"pace", "ended"}, Stands(y, q, f), q = "slice" => y.end # 0
  PROVE  Replayed(T, m, i + 1, y.b, o, L, y.n, q, f)
BY DEF Replayed

LEMMA ReplayLooks ==
  ASSUME NEW L, NEW m, NEW T, NEW i, NEW b, NEW o, NEW n, NEW p, NEW e, Replayed(T, m, i, b, o, L, n, p, e),
         p \notin {"slice", "ended"}, NEW q, NEW f,
         \/ q \in {"top", "replay"}
         \/ q = "pace" /\ ~DueAt(L, T[i])
         \/ p = "pace" /\ q = "slice" /\ f = b.cycle + SliceCycles
         \/ q = "ended" /\ b = o
  PROVE  Replayed(T, m, i, b, o, L, n, q, f)
BY DEF Replayed, Stands, EndOf

-----------------------------------------------------------------------------
LEMMA WhatSpeaks ==
  /\ \A ks : Speaks(Typed(ks))
  /\ \A k : Speaks(Key(k))
  /\ \A c : Speaks(Plain("close", c)) /\ Speaks(Plain("none", c))
  /\ \A e \in Scripted : Speaks(e)
BY DEF Speaks, Typed, Key, Plain, Scripted

LEMMA PostSpeaks ==
  ASSUME Made, \A j \in DOMAIN queue : Speaks(queue[j]), NEW e \in Whole, Speaks(e), NEW u, u = Joined(e)
  PROVE  \A j \in DOMAIN u : Speaks(u[j])
<1>1. queue \in Seq(Whole)
  BY DEF Made
<1>2. CASE e.kind = "typed" /\ queue # << >> /\ queue[Len(queue)].kind = "typed"
  <2> DEFINE n == Len(queue)
             r == queue[n]
             d == r.data \o e.data
             s == [r EXCEPT !.data = d]
  <2>1. n \in DOMAIN queue /\ r \in Whole
    <3> HIDE DEF Whole
    <3> QED
      BY <1>1, <1>2
  <2>2. u = [queue EXCEPT ![n] = s]
    BY <1>2 DEF Joined
  <2> HIDE DEF d
  <2>3. s.kind = r.kind
    BY <2>1 DEF Whole, Event
  <2> HIDE DEF n, r, s
  <2>4. Speaks(s)
    BY <1>2, <2>3 DEF Speaks, r, n
  <2>5. DOMAIN u = DOMAIN queue /\ \A j \in DOMAIN queue : u[j] = queue[j] \/ u[j] = s
    BY <2>1, <2>2
  <2> QED
    BY <2>4, <2>5
<1>3. CASE ~(e.kind = "typed" /\ queue # << >> /\ queue[Len(queue)].kind = "typed")
  <2>1. u = Append(queue, e)
    BY <1>3 DEF Joined
  <2> HIDE DEF Whole
  <2>2. \A j \in DOMAIN u : (j \in DOMAIN queue /\ u[j] = queue[j]) \/ u[j] = e
    BY <1>1, <2>1
  <2> QED
    BY <2>2
<1> QED
  BY <1>2, <1>3

LEMMA HostOnWay ==
  ASSUME IInv, OneWay, HostTypes \/ HostPresses \/ HostCloses PROVE OneWay'
<1>1. PICK e : /\ Post(e) /\ e \in Whole /\ Speaks(e)
  <2>1. CASE HostTypes
    <3>1. PICK k \in Fresh : Post(Typed(<<k>>))
      BY <2>1 DEF HostTypes
    <3>2. <<k>> \in Seq(Keystroke)
      BY FreshKey, <2>1 DEF HostTypes, IInv
    <3> QED
      BY <3>1, <3>2, TypedWhole, WhatSpeaks
  <2>2. CASE HostPresses
    <3>1. PICK k \in Fresh : Post(Key(k))
      BY <2>2 DEF HostPresses
    <3> DEFINE ks == <<k>>
    <3>2. ks \in Seq(Keystroke) /\ Len(ks) = 1
      BY FreshKey, <2>2 DEF HostPresses, IInv
    <3>3. Key(k) = [kind |-> "key", data |-> ks, at |-> 0]
      BY DEF Key
    <3> HIDE DEF ks
    <3>4. Key(k) \in Whole
      BY <3>2, <3>3 DEF Whole, Event
    <3> QED
      BY <3>1, <3>4, WhatSpeaks
  <2>3. CASE HostCloses
    BY <2>3, PlainWhole, WhatSpeaks DEF HostCloses
  <2> QED
    BY <2>1, <2>2, <2>3
<1>2. ~replaying /\ queue' = Joined(e) /\ UNCHANGED <<box, inhand, scripted, log, next, replaying, pc, end, original>>
  BY <1>1 DEF Post
<1>3. \A j \in DOMAIN queue' : Speaks(queue'[j])
  BY <1>1, <1>2, PostSpeaks DEF IInv, OneWay, Places
<1> QED
  BY <1>2, <1>3 DEF OneWay, Places, Recorded, Replayed, Speaks

LEMMA LooksOnWay ==
  ASSUME IInv, OneWay, RunEnds \/ HostStays \/ ScriptDone \/ InjectEnds \/ ReplayDone \/ PaceWaits \/ SliceStarts \/ TakeFront \/ HostQuits
  PROVE  OneWay'
<1>1. Made /\ BoxOK(box) /\ Places
  BY DEF IInv, OneWay
<1>2. log \in Seq(Whole)
  BY <1>1 DEF Made
<1>3. CASE HostQuits
  <2>1. /\ pc = "top" /\ box.on /\ ~replaying /\ log' = Append(log, Plain("quit", box.cycle)) /\ pc' = "ended"
        /\ UNCHANGED <<box, queue, inhand, scripted, next, replaying, end, original>>
    BY <1>3 DEF HostQuits
  <2>2. PICK m, T : Recorded(T, m, box, log, "top", end)
    BY <2>1 DEF OneWay
  <2>3. PICK v : v = Plain("quit", box.cycle)
    OBVIOUS
  <2>4. v \in Whole /\ v.kind = "quit" /\ v.at = box.cycle
    BY <1>1, <2>3, PlainWhole DEF BoxOK, BoxType, Plain
  <2>5. Recorded(T, m, box, log', "ended", end)
    BY <1>1, <1>2, <2>1, <2>2, <2>3, <2>4, WayEnds
  <2> QED
    BY <1>1, <2>1, <2>5 DEF OneWay, Places
<1>4. ASSUME ~HostQuits PROVE OneWay'
  <2>1. UNCHANGED <<box, log, next, replaying, original>> /\ pc \notin {"slice", "ended"}
    BY <1>4 DEF RunEnds, HostStays, ScriptDone, InjectEnds, ReplayDone, PaceWaits, SliceStarts, TakeFront
  <2>2. /\ pc' \in {"top", "ended"} \/ box.on
        /\ pc' \in {"script", "queue", "apply"} => ~replaying
    BY <1>1, <1>4 DEF RunEnds, HostStays, ScriptDone, InjectEnds, ReplayDone, PaceWaits, SliceStarts, TakeFront, Places
  <2>3. pc' \in {"top", "script", "queue", "apply", "replay", "pace", "slice", "ended"}
    BY <1>4 DEF RunEnds, HostStays, ScriptDone, InjectEnds, ReplayDone, PaceWaits, SliceStarts, TakeFront
  <2>4. Speaks(inhand') /\ \A j \in DOMAIN queue' : Speaks(queue'[j])
    <3>1. CASE TakeFront
      <4> DEFINE n == Fitting(Head(queue))
                 a == Take(Head(queue).data, n)
                 r == Rest(Head(queue).data, n)
      <4>1. queue \in Seq(Whole) /\ queue # << >> /\ \A j \in DOMAIN queue : Speaks(queue[j])
        BY <1>1, <3>1 DEF Made, TakeFront, Places
      <4>2. Speaks(Head(queue)) /\ Tail(queue) \in Seq(Whole) /\ \A j \in DOMAIN Tail(queue) : Speaks(Tail(queue)[j])
        <5> HIDE DEF Whole
        <5>1. Head(queue) = queue[1] /\ 1 \in DOMAIN queue
          BY <4>1
        <5>2. \A j \in DOMAIN Tail(queue) : j + 1 \in DOMAIN queue /\ Tail(queue)[j] = queue[j + 1]
          BY <4>1
        <5>3. Tail(queue) \in Seq(Whole)
          BY <4>1
        <5> QED
          BY <4>1, <5>1, <5>2, <5>3
      <4>3. /\ inhand' = Head(queue) \/ inhand' = Typed(a)
            /\ queue' = Tail(queue) \/ queue' = <<Typed(r)>> \o Tail(queue)
        BY <3>1 DEF TakeFront
      <4> DEFINE t == Tail(queue)
                 z == Typed(r)
                 u == <<z>> \o t
      <4>4. Speaks(z) /\ Speaks(Typed(a))
        BY WhatSpeaks
      <4> HIDE DEF z, a
      <4>5. \A j \in DOMAIN u : u[j] = z \/ (j - 1 \in DOMAIN t /\ u[j] = t[j - 1])
        <5> HIDE DEF t, Whole
        <5>1. t \in Seq(Whole)
          BY <4>2 DEF t
        <5> QED
          BY <5>1
      <4>6. queue' = t \/ queue' = u
        BY <4>3 DEF z
      <4>7. \A j \in DOMAIN u : Speaks(u[j])
        BY <4>2, <4>4, <4>5
      <4> HIDE DEF u
      <4> QED
        BY <4>2, <4>3, <4>4, <4>6, <4>7
    <3>2. CASE ~TakeFront
      <4>1. UNCHANGED <<inhand, queue>>
        BY <1>4, <3>2 DEF RunEnds, HostStays, ScriptDone, InjectEnds, ReplayDone, PaceWaits, SliceStarts
      <4> QED
        BY <1>1, <4>1 DEF Places
    <3> QED
      BY <3>1, <3>2
  <2>5. Places'
    BY <1>1, <2>1, <2>2, <2>3, <2>4 DEF Places
  <2>6. ASSUME ~replaying PROVE \E m, T : Recorded(T, m, box, log, pc', end')
    <3>1. PICK m, T : Recorded(T, m, box, log, pc, end)
      BY <2>6 DEF OneWay
    <3>2. CASE RunEnds
      <4>1. pc = "top" /\ pc' = "ended" /\ ~box.on /\ ~box.again
        BY <3>2 DEF RunEnds
      <4> QED
        BY <1>1, <1>2, <3>1, <4>1, WayEnds
    <3>3. CASE ~RunEnds
      <4>1. pc' # "ended" /\ (pc' = "slice" => end' = box.cycle + SliceCycles)
        BY <1>4, <2>6, <3>3 DEF HostStays, ScriptDone, InjectEnds, ReplayDone, PaceWaits, SliceStarts, TakeFront
      <4>2. Recorded(T, m, box, log, pc', end')
        BY <2>1, <3>1, <4>1 DEF Recorded, Stands, EndOf
      <4> QED
        BY <4>2
    <3> QED
      BY <3>2, <3>3
  <2>7. ASSUME replaying PROVE \E m, T, i : Replayed(T, m, i, box, original, log, next, pc', end')
    <3>1. PICK m, T, i : Replayed(T, m, i, box, original, log, next, pc, end)
      BY <2>7 DEF OneWay
    <3> DEFINE x == T[i]
    <3>2. x.b = box /\ x.n = next /\ (Final(log, x) => box = original)
      BY <3>1, ReplayIsOnTheWay
    <3>3. x.end = 0
      BY <2>1, <3>1 DEF Replayed, Stands
    <3> HIDE DEF x
    <3>4. \/ pc' \in {"top", "replay"}
          \/ pc' = "pace" /\ ~DueAt(log, x)
          \/ pc = "pace" /\ pc' = "slice" /\ end' = box.cycle + SliceCycles
          \/ pc' = "ended" /\ box = original
      <4>1. CASE RunEnds
        <5>1. Final(log, x) /\ pc' = "ended"
          BY <3>2, <3>3, <4>1 DEF RunEnds, Final
        <5> QED
          BY <3>2, <5>1
      <4>2. CASE ReplayDone
        BY <3>2, <4>2 DEF ReplayDone, ReplayDue, DueAt
      <4>3. CASE HostStays \/ PaceWaits \/ SliceStarts
        BY <2>7, <4>3 DEF HostStays, PaceWaits, SliceStarts
      <4>4. ~(ScriptDone \/ InjectEnds \/ TakeFront)
        BY <1>1, <2>7 DEF ScriptDone, InjectEnds, TakeFront, Places
      <4> QED
        BY <1>4, <4>1, <4>2, <4>3, <4>4
    <3>5. Replayed(T, m, i, box, original, log, next, pc', end')
      BY <2>1, <3>1, <3>4, ReplayLooks DEF x
    <3> QED
      BY <3>5
  <2> QED
    BY <2>1, <2>5, <2>6, <2>7 DEF OneWay
<1> QED
  BY <1>3, <1>4

LEMMA InputOnWay ==
  ASSUME IInv, OneWay, ScriptDue \/ ApplyInHand PROVE OneWay'
<1>1. Made /\ BoxOK(box) /\ Places
  BY DEF IInv, OneWay
<1>2. log \in Seq(Whole) /\ inhand \in Whole /\ scripted \in Seq(Scripted)
  BY <1>1 DEF Made
<1>3. ~replaying /\ box.on /\ pc \in {"script", "apply"} /\ pc' \in {"script", "pace", "queue"}
  BY <1>1 DEF Places, ScriptDue, ApplyInHand
<1>4. PICK e : /\ e \in Whole /\ Speaks(e) /\ box' = Apply(box, e) /\ log' = Append(log, Stamped(e))
              /\ (inhand' = inhand \/ inhand' = Nobody)
              /\ UNCHANGED <<queue, next, replaying, end, original>>
  <2>1. CASE ScriptDue
    <3>1. scripted # << >> /\ box' = Apply(box, Head(scripted)) /\ log' = Append(log, Stamped(Head(scripted)))
          /\ UNCHANGED <<queue, inhand, next, replaying, end, original>>
      BY <2>1 DEF ScriptDue
    <3>2. Head(scripted) \in Scripted
      <4> HIDE DEF Scripted
      <4> QED
        BY <1>2, <3>1
    <3> QED
      BY <3>1, <3>2, ScriptedWhole, WhatSpeaks
  <2>2. CASE ApplyInHand
    BY <1>1, <1>2, <2>2 DEF ApplyInHand, Places
  <2> QED
    BY <2>1, <2>2
<1>5. PICK v : v = Stamped(e)
  OBVIOUS
<1>6. v \in Whole /\ v.kind = e.kind /\ v.data = e.data /\ v.at = box.cycle
  <2>1. v \in Whole
    BY <1>1, <1>4, <1>5, StampedWhole
  <2> QED
    BY <1>4, <1>5, <2>1 DEF Stamped, Whole, Event
<1>7. Speaks(v) /\ box' = Apply(box, v) /\ log' = Append(log, v)
  BY <1>4, <1>5, <1>6 DEF Speaks, Apply
<1>8. PICK m, T : Recorded(T, m, box, log, pc, end)
  BY <1>3 DEF OneWay
<1>9. \E k, U : Recorded(U, k, box', log', pc', end)
  <2>1. PICK c, M, q : c = box' /\ M = log' /\ q = pc'
    OBVIOUS
  <2>2. /\ BoxOK(box) /\ Clocked(box) /\ box.on /\ log \in Seq(Whole) /\ v \in Whole /\ Speaks(v) /\ v.at = box.cycle
        /\ c = Apply(box, v) /\ Grown(M, log, v) /\ Between(pc) /\ Between(q)
    BY <1>1, <1>2, <1>3, <1>6, <1>7, <2>1 DEF Places, Grown, Between
  <2> HIDE DEF Whole
  <2>3. \E k, U : Recorded(U, k, c, M, q, end)
    BY <1>8, <2>2, InputGoes
  <2> QED
    BY <2>1, <2>3
<1>10. Clocked(box') /\ box'.on
  BY <1>1, <1>3, <1>7, ApplyLater DEF Places
<1>11. Places'
  BY <1>1, <1>3, <1>4, <1>10, WhatSpeaks DEF Places, Nobody
<1> QED
  BY <1>3, <1>4, <1>9, <1>11 DEF OneWay

LEMMA RestartOnWay ==
  ASSUME IInv, OneWay, MachineRestarts PROVE OneWay'
<1>1. Made /\ BoxOK(box) /\ Places
  BY DEF IInv, OneWay
<1>2. /\ pc = "top" /\ ~box.on /\ box.again /\ box' = Restart(box) /\ Restarted
      /\ UNCHANGED <<pc, queue, inhand, scripted, replaying, end, original>>
  BY DEF MachineRestarts
<1>3. Clocked(box') /\ log \in Seq(Whole)
  BY <1>1, <1>2, RestartLater DEF Made
<1>4. Places'
  BY <1>1, <1>2, <1>3 DEF Places
<1>5. ASSUME ~replaying PROVE \E m, T : Recorded(T, m, box', log', pc', end')
  <2>1. PICK m, T : Recorded(T, m, box, log, "top", end)
    BY <1>2, <1>5 DEF OneWay
  <2>2. PICK v : v = Plain("reset", 0)
    OBVIOUS
  <2>3. v \in Whole /\ v.kind = "reset" /\ log' = Append(log, v)
    BY <1>2, <1>5, <2>2, PlainWhole DEF Plain, Restarted
  <2>4. PICK c, M : c = box' /\ M = log'
    OBVIOUS
  <2>5. BoxOK(box) /\ ~box.on /\ box.again /\ c = Restart(box) /\ Grown(M, log, v) /\ log \in Seq(Whole)
    BY <1>1, <1>2, <1>3, <2>3, <2>4 DEF Grown
  <2> HIDE DEF Whole
  <2>6. \E k, U : Recorded(U, k, c, M, "top", end)
    BY <2>1, <2>3, <2>5, RestartGoes
  <2> QED
    BY <1>2, <2>4, <2>6
<1>6. ASSUME replaying PROVE \E m, T, i : Replayed(T, m, i, box', original, log', next', pc', end')
  <2>1. PICK m, T, i : Replayed(T, m, i, box, original, log, next, pc, end)
    BY <1>6 DEF OneWay
  <2> DEFINE x == T[i]
             y == T[i + 1]
  <2>2. x.b = box /\ x.n = next /\ (~Final(log, x) => i + 1 \in 1 .. m /\ Moves(log, x, y))
    BY <2>1, ReplayIsOnTheWay
  <2> HIDE DEF x, y
  <2>3. i + 1 \in 1 .. m /\ next <= Len(log) /\ log[next].kind = "reset" /\ y = Point(Restart(box), next + 1, 0)
    BY <1>2, <2>2 DEF Final, Moves
  <2>4. y.b = box' /\ y.n = next' /\ y.end = 0 /\ log' = log
    BY <1>2, <1>6, <2>3 DEF Point, Restarted
  <2>5. Replayed(T, m, i + 1, y.b, original, log, y.n, "top", end)
    BY <1>2, <2>1, <2>3, <2>4, ReplayGoesOn DEF y, Stands
  <2> QED
    BY <1>2, <2>4, <2>5
<1> QED
  BY <1>2, <1>4, <1>5, <1>6 DEF OneWay

LEMMA RunOnWay ==
  ASSUME IInv, OneWay, MachineSteps PROVE OneWay'
<1>1. Made /\ BoxOK(box) /\ Places
  BY DEF IInv, OneWay
<1>2. /\ pc = "slice" /\ box.on /\ box' = Step(box)
      /\ IF OverAt(box', end) THEN pc' = "top" /\ end' = 0 ELSE pc' = "slice" /\ end' = end
      /\ UNCHANGED <<queue, inhand, scripted, log, next, replaying, original>>
  BY <1>1 DEF MachineSteps, Places, SliceOver, OverAt
<1>3. Clocked(box') /\ log \in Seq(Whole)
  BY <1>1, <1>2, StepLater DEF Made, Places
<1>4. Places'
  BY <1>1, <1>2, <1>3 DEF Places, OverAt
<1>5. ASSUME ~replaying PROVE \E m, T : Recorded(T, m, box', log, pc', end')
  <2>1. PICK m, T : Recorded(T, m, box, log, "slice", end)
    BY <1>2, <1>5 DEF OneWay
  <2>2. PICK c, p, f : c = box' /\ p = pc' /\ f = end'
    OBVIOUS
  <2>3. c = Step(box) /\ Continues(c, end, p, f)
    BY <1>2, <2>2 DEF Continues
  <2>4. BoxOK(box) /\ Clocked(box) /\ box.on /\ log \in Seq(Whole)
    BY <1>1, <1>2, <1>3 DEF Places
  <2> HIDE DEF Whole
  <2>5. \E k, U : Recorded(U, k, c, log, p, f)
    BY <2>1, <2>3, <2>4, RunGoes
  <2> QED
    BY <1>2, <2>2, <2>5
<1>6. ASSUME replaying PROVE \E m, T, i : Replayed(T, m, i, box', original, log, next, pc', end')
  <2>1. PICK m, T, i : Replayed(T, m, i, box, original, log, next, pc, end)
    BY <1>6 DEF OneWay
  <2> DEFINE x == T[i]
             y == T[i + 1]
  <2>2. x.b = box /\ x.n = next /\ (~Final(log, x) => i + 1 \in 1 .. m /\ Moves(log, x, y))
    BY <2>1, ReplayIsOnTheWay
  <2>3. (x.end # 0 \/ ~DueAt(log, x)) /\ end = EndOf(x)
    BY <1>2, <2>1 DEF Replayed, Stands
  <2> HIDE DEF x, y
  <2>4. i + 1 \in 1 .. m /\ y = Ran(x)
    BY <1>2, <2>2, <2>3 DEF Final, Moves
  <2>5. y.b = box' /\ y.n = next /\ y.end = IF OverAt(box', end) THEN 0 ELSE end
    BY <1>2, <2>2, <2>3, <2>4 DEF Point, Ran
  <2>6. Placed(log, x, T[m]) /\ box.cycle \in Nat
    <3>1. Trail(log, T, m) /\ i \in 1 .. m
      BY <2>1 DEF Replayed
    <3> QED
      BY <1>1, <3>1 DEF Trail, x, BoxOK, BoxType
  <2>7. end # 0
    BY <2>2, <2>3, <2>6, SizeAssumption DEF EndOf, Placed
  <2>8. Stands(y, pc', end') /\ pc' \in {"top", "slice"} /\ (pc' = "slice" => y.end # 0)
    BY <1>2, <2>5, <2>7 DEF Stands, EndOf, OverAt
  <2>9. Replayed(T, m, i + 1, y.b, original, log, y.n, pc', end')
    BY <2>1, <2>4, <2>8, ReplayGoesOn DEF y
  <2> QED
    BY <2>5, <2>9
<1> QED
  BY <1>2, <1>4, <1>5, <1>6 DEF OneWay

LEMMA ReplayOnWay ==
  ASSUME IInv, OneWay, ReplayOne PROVE OneWay'
<1>1. Made /\ BoxOK(box) /\ Places /\ replaying
  BY DEF IInv, OneWay, Made, ReplayOne
<1>2. /\ pc = "replay" /\ box.on /\ ReplayDue /\ UNCHANGED <<queue, inhand, scripted, log, replaying, end, original>>
  BY <1>1 DEF ReplayOne, Places
<1>3. PICK m, T, i : Replayed(T, m, i, box, original, log, next, pc, end)
  BY <1>1 DEF OneWay
<1> DEFINE x == T[i]
           y == T[i + 1]
<1>4. x.b = box /\ x.n = next /\ (~Final(log, x) => i + 1 \in 1 .. m /\ Moves(log, x, y)) /\ (Final(log, x) => box = original)
  BY <1>3, ReplayIsOnTheWay
<1>5. x.end = 0
  BY <1>2, <1>3 DEF Replayed, Stands
<1> HIDE DEF x, y
<1>6. DueAt(log, x)
  BY <1>2, <1>4 DEF ReplayDue, DueAt
<1>7. CASE log[next].kind = "quit"
  <2>1. pc' = "ended" /\ UNCHANGED <<box, next>>
    BY <1>7 DEF ReplayOne
  <2>2. Final(log, x)
    BY <1>2, <1>4, <1>5, <1>6, <1>7 DEF Final
  <2>3. Replayed(T, m, i, box, original, log, next, "ended", end)
    BY <1>2, <1>3, <1>4, <2>2, ReplayLooks
  <2>4. Places'
    BY <1>1, <1>2, <2>1 DEF Places
  <2> QED
    BY <1>1, <1>2, <2>1, <2>3, <2>4 DEF OneWay
<1>8. CASE log[next].kind # "quit"
  <2>1. pc' = pc /\ box' = Apply(box, log[next]) /\ next' = next + 1
    BY <1>8 DEF ReplayOne
  <2>2. i + 1 \in 1 .. m /\ y = Point(Apply(box, log[next]), next + 1, 0)
    BY <1>2, <1>4, <1>5, <1>6, <1>8 DEF Final, Moves
  <2>3. y.b = box' /\ y.n = next' /\ y.end = 0
    BY <2>1, <2>2 DEF Point
  <2>4. Replayed(T, m, i + 1, y.b, original, log, y.n, "replay", end)
    BY <1>2, <1>3, <2>2, <2>3, ReplayGoesOn DEF y, Stands
  <2>5. Clocked(box') /\ box'.on
    BY <1>1, <1>2, <2>1, ApplyLater DEF Places
  <2>6. Places'
    BY <1>1, <1>2, <2>1, <2>5 DEF Places
  <2> QED
    BY <1>1, <1>2, <2>1, <2>3, <2>4, <2>6 DEF OneWay
<1> QED
  BY <1>7, <1>8

LEMMA ReplaySetsOut ==
  ASSUME IInv, OneWay, StartReplay PROVE OneWay'
<1>1. Made /\ BoxOK(box) /\ Places
  BY DEF IInv, OneWay
<1>2. /\ pc = "ended" /\ ~replaying /\ replaying' /\ original' = box /\ box' = NewBox(box.program, box.period)
      /\ next' = 1 /\ pc' = "top" /\ end' = 0 /\ queue' = << >> /\ UNCHANGED <<inhand, log>>
  BY DEF StartReplay
<1>3. PICK m, T : Recorded(T, m, box, log, "ended", end)
  BY <1>2 DEF OneWay
<1>4. Trail(log, T, m) /\ T[1] = Point(box', 1, 0) /\ T[m].b = box /\ Final(log, T[m]) /\ 1 \in 1 .. m
  BY <1>2, <1>3 DEF Recorded, Trail
<1>5. T[1].b = box' /\ T[1].n = 1 /\ T[1].end = 0
  BY <1>4 DEF Point
<1>6. Replayed(T, m, 1, box', box, log, 1, "top", 0)
  BY <1>4, <1>5 DEF Replayed, Stands
<1>7. Clocked(box')
  BY <1>1, <1>2 DEF Clocked, NewBox, BoxOK, BoxType
<1>8. Places'
  BY <1>1, <1>2, <1>7 DEF Places
<1> QED
  BY <1>2, <1>6, <1>8 DEF OneWay

LEMMA WayStarts ==
  ASSUME Init PROVE OneWay
<1>1. PICK s \in Setups : box = NewBox(s.program, s.period)
  BY DEF Init
<1>2. /\ queue = << >> /\ inhand = Nobody /\ log = << >> /\ ~replaying /\ pc = "top" /\ end = 0
  BY DEF Init
<1>3. s.program \in Seq(Operation) /\ s.period \in Nat
  BY SetupAssumption
<1>4. box.program = s.program /\ box.period = s.period /\ box.cycle = 0 /\ box.due = s.period /\ box.saw = << >>
  BY <1>1 DEF NewBox
<1>5. Places
  BY <1>2, <1>3, <1>4, WhatSpeaks DEF Places, Clocked, Nobody
<1> DEFINE T == [i \in {1} |-> Point(box, 1, 0)]
<1>6. Point(box, 1, 0).b = box /\ Point(box, 1, 0).n = 1 /\ Point(box, 1, 0).end = 0
  BY DEF Point
<1>7. T[1] = Point(box, 1, 0)
  OBVIOUS
<1> HIDE DEF T
<1>8. Placed(log, T[1], T[1])
  <2>1. << >> \in Seq(Reads) /\ IsPrefix(<< >>, << >>)
    <3>1. PICK r : r = << >>
      OBVIOUS
    <3> HIDE DEF Reads
    <3>2. r \in Seq(Reads)
      BY <3>1
    <3>3. IsPrefix(r, r)
      BY <3>2, PrefixFacts
    <3> QED
      BY <3>1, <3>2, <3>3
  <2>2. Len(log) + 1 = 1
    BY <1>2
  <2>3. T[1].b = box /\ T[1].n = 1 /\ T[1].end = 0
    BY <1>6, <1>7
  <2>4. T[1].n \in 1 .. Len(log) + 1 /\ T[1].end \in Nat /\ T[1].b.cycle \in Nat
    BY <1>4, <2>2, <2>3
  <2>5. T[1].b.saw \in Seq(Reads) /\ IsPrefix(T[1].b.saw, T[1].b.saw)
    BY <1>4, <2>1, <2>3
  <2> QED
    BY <2>4, <2>5 DEF Placed
<1>9. Trail(log, T, 1)
  BY <1>8 DEF Trail
<1>10. Stands(T[1], pc, end) /\ Settled(log, T, 1) /\ T[1].n = Len(log) + 1
  BY <1>2, <1>6, <1>7 DEF Stands, Settled
<1>11. Recorded(T, 1, box, log, pc, end)
  BY <1>1, <1>2, <1>4, <1>6, <1>7, <1>9, <1>10 DEF Recorded
<1> QED
  BY <1>2, <1>5, <1>11 DEF OneWay

(* A recorded run and its replay go one way: every point of it follows from *)
(* the point before and the recording, and the replay is always at one of   *)
(* them, however the two were cut into slices and paced.                    *)
THEOREM ReplayInductive == Spec => []OneWay
<1>1. Init => OneWay
  BY WayStarts
<1>2. IInv /\ OneWay /\ [Next]_vars => OneWay'
  <2> SUFFICES ASSUME IInv, OneWay, [Next]_vars PROVE OneWay'
    OBVIOUS
  <2>1. CASE UNCHANGED vars
    BY <2>1 DEF vars, OneWay, Places, Recorded, Replayed, Speaks
  <2>2. CASE Next
    BY <2>2, LooksOnWay, InputOnWay, RestartOnWay, RunOnWay, ReplayOnWay, ReplaySetsOut, HostOnWay
       DEF Next, Runner, Inject, Host
  <2> QED
    BY <2>1, <2>2
<1> QED
  BY <1>1, <1>2, InputInductive, PTL DEF Spec

(* A replay gives the program what the recorded run gave it, at the same    *)
(* cycles, and ends with the same machine and the same terminal.            *)
THEOREM ReplayKept == Spec => []ReplayIsTheRun
<1>1. OneWay => ReplayIsTheRun
  <2> SUFFICES ASSUME OneWay, replaying PROVE IsPrefix(box.saw, original.saw) /\ (pc = "ended" => box = original)
    BY DEF ReplayIsTheRun
  <2>1. PICK m, T, i : Replayed(T, m, i, box, original, log, next, pc, end)
    BY DEF OneWay
  <2>2. Placed(log, T[i], T[m])
    BY <2>1 DEF Replayed, Trail
  <2> QED
    BY <2>1, <2>2 DEF Replayed, Placed
<1> QED
  BY <1>1, ReplayInductive, PTL

=============================================================================
