------------------------ MODULE ExecutionEngineProofs ------------------------
(* Theorems about ExecutionEngine and their proofs.                         *)
EXTENDS ExecutionEngine, SequenceTheorems, TLAPS

-----------------------------------------------------------------------------
(* What the operators on the machine do to its type.                        *)

MachineOK(m) == m \in Machine /\ Len(m.ctx) = m.depth

LEMMA ReservedInUse ==
  /\ Reset \in Numbers /\ MemoryFault \in Numbers
  /\ StackOverflow \in Numbers /\ PageFault \in Numbers
BY VectorAssumption DEF Reset, MemoryFault, StackOverflow, PageFault

LEMMA WordTypes ==
  /\ DataWord \in Word
  /\ \A p \in Pcs : PcWord(p) \in Word
  /\ \A f \in SUBSET Flag : FlagsWord(f) \in Word
BY TextAssumption DEF DataWord, PcWord, FlagsWord, Word, Pcs

LEMMA NextPc == \A p \in Pcs : (p % PcCount) + 1 \in Pcs
BY TextAssumption DEF Pcs

LEMMA AdvanceOK ==
  ASSUME NEW m, MachineOK(m)
  PROVE  MachineOK(AdvancePC(m))
<1>1. m.pc \in Pcs
  BY DEF MachineOK, Machine
<1> DEFINE p == (m.pc % PcCount) + 1
<1>2. p \in Pcs
  BY <1>1, NextPc
<1> HIDE DEF p
<1>3. MachineOK([m EXCEPT !.pc = p])
  BY <1>2 DEF MachineOK, Machine
<1> QED
  BY <1>3 DEF AdvancePC, p

LEMMA SwitchOK ==
  ASSUME NEW m \in Machine
  PROVE  /\ Switch(m) \in Machine
         /\ Switch(m).depth = m.depth + 1
         /\ Switch(m).ctx = m.ctx
         /\ Switch(m).sp = IF m.depth = 0 THEN MemTop ELSE m.sp
<1>1. CASE m.depth = 0
  <2> DEFINE r == [m EXCEPT !.depth = 1, !.saved = m.sp, !.sp = MemTop]
  <2>1. r \in Machine /\ r.depth = 1 /\ r.ctx = m.ctx /\ r.sp = MemTop
    BY StackAssumption DEF Machine
  <2>2. Switch(m) = r
    BY <1>1 DEF Switch
  <2> HIDE DEF r
  <2> QED
    BY <1>1, <2>1, <2>2
<1>2. CASE m.depth # 0
  <2> DEFINE d == m.depth + 1
             r == [m EXCEPT !.depth = d]
  <2>0. d \in Nat
    BY DEF Machine
  <2> HIDE DEF d
  <2>1. r \in Machine /\ r.depth = d /\ r.ctx = m.ctx /\ r.sp = m.sp
    BY <2>0 DEF Machine
  <2>2. Switch(m) = r
    BY <1>2 DEF Switch, d
  <2> HIDE DEF r
  <2> QED
    BY <1>2, <2>1, <2>2 DEF d
<1> QED
  BY <1>1, <1>2

LEMMA PutWordOK ==
  ASSUME NEW m \in Machine, NEW w \in Word, m.sp > 0
  PROVE  /\ PutWord(m, w) \in Machine
         /\ PutWord(m, w).sp >= m.sp - 1
         /\ PutWord(m, w).ctx = m.ctx
         /\ PutWord(m, w).depth = m.depth
<1> DEFINE st == [a \in SystemStack |-> IF a = m.sp - 1 THEN w ELSE m.stack[a]]
           top == IF m.faulted THEN m.sp ELSE m.sp - 1
<1>1. st \in [SystemStack -> Word]
  BY DEF Machine
<1>2. top \in Nat /\ top >= m.sp - 1
  BY DEF Machine
<1>3. PutWord(m, w) = [m EXCEPT !.stack = st, !.sp = top]
  BY DEF PutWord
<1> HIDE DEF st, top
<1> QED
  BY <1>1, <1>2, <1>3 DEF Machine

LEMMA LeaveOK ==
  ASSUME NEW m \in Machine
  PROVE  /\ LeaveInterrupt(m) \in Machine
         /\ m.depth > 0 => LeaveInterrupt(m).depth = m.depth - 1
         /\ m.depth = 0 => LeaveInterrupt(m) = m
         /\ LeaveInterrupt(m).ctx = m.ctx
<1>0. m.depth \in Nat
  BY DEF Machine
<1>1. CASE m.depth = 0
  BY <1>1 DEF LeaveInterrupt, Machine
<1>2. CASE m.depth = 1
  <2> DEFINE r == [m EXCEPT !.depth = 0, !.sp = m.saved]
  <2>1. r \in Machine /\ r.depth = 0 /\ r.ctx = m.ctx
    BY DEF Machine
  <2>2. LeaveInterrupt(m) = r
    BY <1>2 DEF LeaveInterrupt
  <2> HIDE DEF r
  <2> QED
    BY <1>2, <2>1, <2>2
<1>3. CASE m.depth > 1
  <2> DEFINE d == m.depth - 1
             r == [m EXCEPT !.depth = d]
  <2>0. d \in Nat
    BY <1>0, <1>3
  <2>2. LeaveInterrupt(m) = r
    BY <1>3, <1>0 DEF LeaveInterrupt
  <2> HIDE DEF d
  <2>1. r \in Machine /\ r.depth = d /\ r.ctx = m.ctx
    BY <2>0 DEF Machine
  <2> HIDE DEF r
  <2> QED
    BY <1>0, <1>3, <2>1, <2>2 DEF d
<1> QED
  BY <1>0, <1>1, <1>2, <1>3

LEMMA EnterOK ==
  ASSUME NEW m, MachineOK(m), NEW n \in Numbers, Entered(m, n)
  PROVE  MachineOK(EnterHandler(m, n))
<1> DEFINE s == Switch(m)
           f == SaveFrame(m)
           c == [pc |-> m.pc, flags |-> SavedFlags(m), sp |-> m.sp, own |-> m.own]
           x == Append(m.ctx, c)
           h == Handler[n]
           g == m.flags \ {"Interrupt", "Halting"}
<1>1. m \in Machine /\ Len(m.ctx) = m.depth /\ m.depth \in Nat /\ m.ctx \in Seq(Context)
  BY DEF MachineOK, Machine
<1>2. s \in Machine /\ s.depth = m.depth + 1
  BY <1>1, SwitchOK
<1>3. s.sp >= 2
  BY <1>1, <1>2, StackAssumption DEF Entered, Fits, HasStackRoom, Machine
<1>4. f \in Machine /\ f.depth = m.depth + 1
  <2>1. m.pc \in Pcs /\ SavedFlags(m) \in SUBSET Flag
    BY <1>1 DEF Machine, SavedFlags
  <2>2. PcWord(m.pc) \in Word /\ FlagsWord(SavedFlags(m)) \in Word
    BY <2>1, WordTypes
  <2> DEFINE q == PutWord(s, FlagsWord(SavedFlags(m)))
  <2> HIDE DEF s
  <2>3. q \in Machine /\ q.depth = s.depth /\ q.sp >= s.sp - 1
    BY <1>2, <1>3, <2>2, PutWordOK, s.sp > 0 DEF Machine
  <2>4. q.sp > 0
    BY <1>2, <1>3, <2>3 DEF Machine
  <2> HIDE DEF q
  <2>5. PutWord(q, PcWord(m.pc)) \in Machine /\ PutWord(q, PcWord(m.pc)).depth = q.depth
    BY <2>2, <2>3, <2>4, PutWordOK
  <2> QED
    BY <1>2, <2>3, <2>5 DEF SaveFrame, q, s
<1>5. c \in Context /\ x \in Seq(Context) /\ Len(x) = m.depth + 1
  BY <1>1 DEF Context, Machine, SavedFlags
<1>6. h \in Pcs /\ g \in SUBSET Flag
  BY <1>1, VectorAssumption, TextAssumption DEF Entered, Accepts, Pcs, Machine
<1> HIDE DEF c, f, s, h, g, x
<1>7. [f EXCEPT !.flags = g, !.pc = h, !.faulted = TRUE, !.ctx = x, !.own = 0] \in Machine
  <2> DEFINE r == [f EXCEPT !.flags = g, !.pc = h, !.faulted = TRUE]
  <2>1. r \in Machine
    BY <1>4, <1>6 DEF Machine
  <2>2. [f EXCEPT !.flags = g, !.pc = h, !.faulted = TRUE, !.ctx = x, !.own = 0] =
        [r EXCEPT !.ctx = x, !.own = 0]
    OBVIOUS
  <2> HIDE DEF r
  <2>3. x \in Seq(Context)
    BY <1>5
  <2> DEFINE zero == 0
  <2>4. zero \in Int
    OBVIOUS
  <2> HIDE DEF zero
  <2>5. [r EXCEPT !.ctx = x, !.own = zero] \in Machine
    BY <2>1, <2>3, <2>4 DEF Machine
  <2> QED
    BY <2>2, <2>5 DEF zero
<1>8. EnterHandler(m, n) = [f EXCEPT !.flags = g, !.pc = h, !.faulted = TRUE, !.ctx = x, !.own = 0]
  BY DEF EnterHandler, f, g, h, x, c
<1>9. EnterHandler(m, n).ctx = x /\ EnterHandler(m, n).depth = f.depth
  BY <1>4, <1>8 DEF Machine
<1> QED
  BY <1>4, <1>5, <1>7, <1>8, <1>9 DEF MachineOK

LEMMA StopOK ==
  ASSUME NEW m, MachineOK(m)
  PROVE  MachineOK(StopForGood(m))
<1> DEFINE s == Switch(m)
           g == m.flags \cup {"Halting"}
           r == [s EXCEPT !.flags = g, !.stopped = TRUE]
<1>1. m \in Machine /\ Len(m.ctx) = m.depth /\ m.depth \in Nat
  BY DEF MachineOK, Machine
<1>2. s \in Machine /\ s.depth = m.depth + 1 /\ s.ctx = m.ctx
  BY <1>1, SwitchOK
<1>3. g \in SUBSET Flag
  BY <1>1 DEF Machine, Flag
<1> HIDE DEF s, g
<1>4. r \in Machine /\ r.depth = m.depth + 1 /\ r.ctx = m.ctx
  BY <1>2, <1>3 DEF Machine
<1>5. StopForGood(m) = LeaveInterrupt(r)
  BY DEF StopForGood, r, s, g
<1> HIDE DEF r
<1> QED
  BY <1>1, <1>4, <1>5, LeaveOK DEF MachineOK

LEMMA TriggerOK ==
  ASSUME NEW m, MachineOK(m), NEW n \in Numbers
  PROVE  MachineOK(TriggerInterrupt(m, n))
BY EnterOK, StopOK DEF TriggerInterrupt, Entered

LEMMA PutWordsOK ==
  ASSUME NEW m, MachineOK(m), NEW words \in Nat, NEW w \in Word, m.sp >= words
  PROVE  MachineOK(PutWords(m, words, w))
<1> DEFINE st == [a \in SystemStack |->
                    IF a = m.sp - 1 THEN w
                    ELSE IF a \in m.sp - words .. m.sp - 2 THEN DataWord ELSE m.stack[a]]
           top == m.sp - words
           o == Owned(m, words)
<1>1. st \in [SystemStack -> Word]
  BY WordTypes DEF MachineOK, Machine
<1>2. top \in Nat /\ o \in Int
  BY DEF MachineOK, Machine, Owned
<1>3. PutWords(m, words, w) = [m EXCEPT !.stack = st, !.sp = top, !.own = o]
  BY DEF PutWords
<1> HIDE DEF st, top, o
<1> QED
  BY <1>1, <1>2, <1>3 DEF MachineOK, Machine

LEMMA DropOK ==
  ASSUME NEW m, MachineOK(m), NEW words \in Nat
  PROVE  MachineOK(Drop(m, words))
<1> DEFINE st == [a \in SystemStack |->
                    IF a \in m.sp .. m.sp + words - 1 THEN DataWord ELSE m.stack[a]]
           top == m.sp + words
           o == Owned(m, -words)
<1>1. st \in [SystemStack -> Word]
  BY WordTypes DEF MachineOK, Machine
<1>2. top \in Nat /\ o \in Int
  BY DEF MachineOK, Machine, Owned
<1>3. Drop(m, words) = [m EXCEPT !.stack = st, !.sp = top, !.own = o]
  BY DEF Drop
<1> HIDE DEF st, top, o
<1> QED
  BY <1>1, <1>2, <1>3 DEF MachineOK, Machine

LEMMA ReadOK ==
  ASSUME NEW m \in Machine
  PROVE  PcsAtTop(m) \subseteq Pcs /\ FlagsAtTop(m) \subseteq SUBSET Flag
BY DEF PcsAtTop, FlagsAtTop, Machine, Word

LEMMA ResumeOK ==
  ASSUME NEW m, MachineOK(m), NEW p \in Pcs, NEW f \in SUBSET Flag
  PROVE  MachineOK(Resume(m, p, f))
<1> DEFINE r == [m EXCEPT !.pc = p, !.flags = f]
           back == LeaveInterrupt(r)
           st == IF m.depth = 1 THEN [a \in SystemStack |-> DataWord] ELSE back.stack
           x == SubSeq(m.ctx, 1, m.depth - 1)
           o == m.ctx[m.depth].own
<1>1. m \in Machine /\ m.depth \in Nat /\ m.ctx \in Seq(Context) /\ Len(m.ctx) = m.depth
  BY DEF MachineOK, Machine
<1>2. r \in Machine /\ r.depth = m.depth /\ r.ctx = m.ctx
  BY <1>1 DEF Machine
<1> HIDE DEF r
<1>3. CASE m.depth = 0
  BY <1>1, <1>2, <1>3, LeaveOK DEF Resume, MachineOK, r
<1>4. CASE m.depth > 0
  <2>1. back \in Machine /\ back.depth = m.depth - 1
    BY <1>2, <1>4, LeaveOK
  <2>2. st \in [SystemStack -> Word]
    BY <2>1, WordTypes DEF Machine
  <2>3. x \in Seq(Context) /\ Len(x) = m.depth - 1
    BY <1>1, <1>4
  <2>4. o \in Int
    <3>1. m.ctx[m.depth] \in Context
      BY <1>1, <1>4
    <3> QED
      BY <3>1 DEF Context
  <2>5. Resume(m, p, f) = [back EXCEPT !.stack = st, !.ctx = x, !.own = o]
    BY <1>4 DEF Resume, r
  <2> HIDE DEF back, st, x, o
  <2>6. [back EXCEPT !.stack = st, !.ctx = x, !.own = o] \in Machine
    BY <2>1, <2>2, <2>3, <2>4 DEF Machine
  <2>7. Resume(m, p, f).ctx = x /\ Resume(m, p, f).depth = back.depth
    BY <2>1, <2>5 DEF Machine
  <2> QED
    BY <2>1, <2>3, <2>5, <2>6, <2>7 DEF MachineOK
<1> QED
  BY <1>1, <1>3, <1>4

-----------------------------------------------------------------------------
(* What a dispatch, a refused dispatch and a return do, field by field.     *)

LEMMA EnterFields ==
  ASSUME NEW m \in Machine, NEW n \in Numbers, NEW r, r = EnterHandler(m, n)
  PROVE  /\ r.depth = Switch(m).depth /\ r.saved = Switch(m).saved
         /\ r.limit = m.limit /\ r.stopped = m.stopped /\ r.shadow = m.shadow
         /\ r.pc = Handler[n]
<1>1. /\ Switch(m) \in Machine /\ Switch(m).limit = m.limit /\ Switch(m).stopped = m.stopped
      /\ Switch(m).faulted = m.faulted /\ Switch(m).shadow = m.shadow
  BY SwitchOK DEF Switch, Machine
<1> DEFINE s == Switch(m)
           w == FlagsWord(SavedFlags(m))
           v == PcWord(m.pc)
           q == PutWord(s, w)
           f == PutWord(q, v)
<1> HIDE DEF s, w, v
<1>2. /\ q.depth = s.depth /\ q.saved = s.saved /\ q.limit = s.limit /\ q.stopped = s.stopped
      /\ q.shadow = s.shadow /\ q.faulted = s.faulted /\ q.sp = (IF s.faulted THEN s.sp ELSE s.sp - 1)
      /\ q = [q EXCEPT !.sp = q.sp]
  BY <1>1 DEF PutWord, Machine, s
<1> QED
  BY <1>1, <1>2 DEF EnterHandler, SaveFrame, PutWord, s, w, v

LEMMA FrameDomain ==
  ASSUME NEW m \in Machine
  PROVE  {"flags", "ctx", "own"} \subseteq DOMAIN SaveFrame(m)
<1> DEFINE q == PutWord(Switch(m), FlagsWord(SavedFlags(m)))
<1>1. {"flags", "ctx", "own"} \subseteq DOMAIN PutWord(q, PcWord(m.pc))
  <2>1. Switch(m) \in Machine
    BY SwitchOK
  <2>2. {"flags", "ctx", "own"} \subseteq DOMAIN q
    BY <2>1 DEF PutWord, Machine
  <2> HIDE DEF q
  <2> QED
    BY <2>2 DEF PutWord
<1> QED
  BY <1>1 DEF SaveFrame

LEMMA EnterMasks ==
  ASSUME NEW m \in Machine, NEW n \in Numbers, NEW r, r = EnterHandler(m, n)
  PROVE  "Interrupt" \notin r.flags
<1>1. "flags" \in DOMAIN SaveFrame(m)
  BY FrameDomain
<1>2. r.flags = m.flags \ {"Interrupt", "Halting"}
  BY <1>1 DEF EnterHandler
<1> QED
  BY <1>2

LEMMA EnterOwn ==
  ASSUME NEW m \in Machine, NEW n \in Numbers, NEW r, r = EnterHandler(m, n)
  PROVE  r.own = 0
<1>1. "own" \in DOMAIN SaveFrame(m)
  BY FrameDomain
<1> QED
  BY <1>1 DEF EnterHandler

LEMMA EnterContext ==
  ASSUME NEW m \in Machine, NEW n \in Numbers, NEW r, r = EnterHandler(m, n)
  PROVE  r.ctx = Append(m.ctx, [pc |-> m.pc, flags |-> SavedFlags(m), sp |-> m.sp, own |-> m.own])
<1>1. "ctx" \in DOMAIN SaveFrame(m)
  BY FrameDomain
<1> QED
  BY <1>1 DEF EnterHandler

LEMMA EnterSp ==
  ASSUME NEW m \in Machine, NEW n \in Numbers, NEW r, r = EnterHandler(m, n)
  PROVE  /\ m.faulted = FALSE => r.sp = Switch(m).sp - 2
         /\ m.faulted = TRUE => r.sp = Switch(m).sp
<1>1. /\ Switch(m) \in Machine /\ Switch(m).limit = m.limit /\ Switch(m).stopped = m.stopped
      /\ Switch(m).faulted = m.faulted /\ Switch(m).shadow = m.shadow
  BY SwitchOK DEF Switch, Machine
<1> DEFINE s == Switch(m)
           w == FlagsWord(SavedFlags(m))
           v == PcWord(m.pc)
           q == PutWord(s, w)
           f == PutWord(q, v)
<1> HIDE DEF s, w, v
<1>2. /\ q.depth = s.depth /\ q.saved = s.saved /\ q.limit = s.limit /\ q.stopped = s.stopped
      /\ q.shadow = s.shadow /\ q.faulted = s.faulted /\ q.sp = (IF s.faulted THEN s.sp ELSE s.sp - 1)
      /\ q = [q EXCEPT !.sp = q.sp]
  BY <1>1 DEF PutWord, Machine, s
<1>3. r.sp = (IF q.faulted THEN q.sp ELSE q.sp - 1)
  BY <1>1, <1>2 DEF EnterHandler, SaveFrame, PutWord, s, w, v
<1>4. s.sp \in Nat
  BY <1>1 DEF s, Machine
<1> QED
  BY <1>1, <1>2, <1>3, <1>4 DEF s

LEMMA EnterStack ==
  ASSUME NEW m \in Machine, NEW n \in Numbers, NEW r, r = EnterHandler(m, n), ~m.faulted,
         NEW a \in SystemStack
  PROVE  r.stack[a] = IF a = Switch(m).sp - 2 THEN PcWord(m.pc)
                      ELSE IF a = Switch(m).sp - 1 THEN FlagsWord(SavedFlags(m))
                      ELSE m.stack[a]
<1> DEFINE s == Switch(m)
           w == FlagsWord(SavedFlags(m))
           v == PcWord(m.pc)
           q == PutWord(s, w)
           f == PutWord(q, v)
<1>1. s \in Machine /\ s.stack = m.stack /\ s.faulted = m.faulted /\ s.sp \in Nat
  BY SwitchOK DEF Switch, Machine
<1> HIDE DEF s, w, v
<1>2. q.stack[a] = (IF a = s.sp - 1 THEN w ELSE m.stack[a]) /\ q.sp = s.sp - 1
  BY <1>1 DEF PutWord, Machine
<1>3. r.stack = f.stack
  BY DEF EnterHandler, SaveFrame, PutWord, s, w, v
<1>4. "stack" \in DOMAIN q
  BY <1>1 DEF PutWord, Machine
<1> HIDE DEF q
<1>5. f.stack[a] = IF a = q.sp - 1 THEN v ELSE q.stack[a]
  BY <1>4 DEF PutWord
<1> QED
  BY <1>1, <1>2, <1>3, <1>5 DEF s, w, v

LEMMA StopIs ==
  ASSUME NEW m, MachineOK(m), ~Fits(m)
  PROVE  /\ m.depth > 0
         /\ m.sp < SystemFloor + 2
         /\ StopForGood(m) = [m EXCEPT !.flags = m.flags \cup {"Halting"}, !.stopped = TRUE]
<1> DEFINE d == m.depth + 1
           g == m.flags \cup {"Halting"}
<1>1. m \in Machine /\ m.depth \in Nat /\ m.sp \in Nat
  BY DEF MachineOK, Machine
<1>2. m.depth > 0
  <2>1. m.depth = 0 => Switch(m).sp = MemTop /\ Switch(m).depth = 1
    BY <1>1, SwitchOK
  <2> QED
    BY <1>1, <2>1, StackAssumption DEF Fits, HasStackRoom
<1>3. Switch(m) = [m EXCEPT !.depth = d]
  BY <1>2 DEF Switch
<1>4. m.sp < SystemFloor + 2
  BY <1>1, <1>2, <1>3, StackAssumption, SwitchOK DEF Fits, HasStackRoom
<1>5. d - 1 = m.depth /\ d > 1 /\ d \in Nat
  BY <1>1, <1>2
<1> HIDE DEF d, g
<1> DEFINE t == [m EXCEPT !.depth = d, !.flags = g, !.stopped = TRUE]
<1>6. t.depth = d
  BY <1>1 DEF Machine
<1>7. StopForGood(m) = LeaveInterrupt(t)
  BY <1>3 DEF StopForGood, g
<1>8. [t EXCEPT !.depth = m.depth] = [m EXCEPT !.flags = g, !.stopped = TRUE]
  BY <1>1 DEF Machine
<1> HIDE DEF t
<1>9. LeaveInterrupt(t) = [t EXCEPT !.depth = m.depth]
  <2>1. t.depth # 0 /\ t.depth # 1 /\ t.depth - 1 = m.depth
    BY <1>5, <1>6
  <2> QED
    BY <2>1, Zenon DEF LeaveInterrupt
<1> QED
  BY <1>2, <1>4, <1>7, <1>8, <1>9 DEF g

LEMMA ResumeFields ==
  ASSUME NEW m, MachineOK(m), NEW p \in Pcs, NEW f \in SUBSET Flag, m.depth > 0,
         NEW r, r = Resume(m, p, f)
  PROVE  /\ r.pc = p /\ r.flags = f /\ r.depth = m.depth - 1
         /\ r.limit = m.limit /\ r.stopped = m.stopped /\ r.faulted = m.faulted
         /\ r.shadow = m.shadow /\ r.saved = m.saved
         /\ r.sp = (IF m.depth = 1 THEN m.saved ELSE m.sp)
         /\ r.ctx = SubSeq(m.ctx, 1, m.depth - 1) /\ r.own = m.ctx[m.depth].own
         /\ m.depth > 1 => r.stack = m.stack
<1>1. m \in Machine /\ m.depth \in Nat
  BY DEF MachineOK, Machine
<1>2. CASE m.depth = 1
  BY <1>1, <1>2 DEF Resume, LeaveInterrupt, Machine
<1>3. CASE m.depth > 1
  BY <1>1, <1>3 DEF Resume, LeaveInterrupt, Machine
<1> QED
  BY <1>1, <1>2, <1>3

-----------------------------------------------------------------------------
(* The frames.  Beside FramesOn: the frames lie one below the other with    *)
(* each level's own words between them, so nothing written below sp, and    *)
(* nothing a handler takes back of its own words, touches one.              *)

FramesOK(m) ==
  /\ FramesOn(m)
  /\ m.depth > 0 => m.own >= 0
  /\ \A k \in 2 .. m.depth :
       m.ctx[k].own >= 0 /\ m.ctx[k].sp = FrameAt(m, k - 1) - m.ctx[k].own
  /\ \A k \in 1 .. m.depth : \A j \in 1 .. k - 1 : FrameAt(m, k) + 2 <= FrameAt(m, j)

LEMMA FrameTypes ==
  ASSUME NEW m, MachineOK(m), NEW k \in 1 .. m.depth
  PROVE  m.ctx[k] \in Context /\ m.ctx[k].sp \in Nat /\ m.ctx[k].own \in Int /\ FrameAt(m, k) \in Int
<1>1. m.ctx[k] \in Context
  BY DEF MachineOK, Machine
<1> QED
  BY <1>1, StackAssumption DEF Context, FrameAt

(* A machine whose stack is the same from the innermost frame up, and whose *)
(* sp stands its own words below it, has its frames still.                  *)
LEMMA FramesStable ==
  ASSUME NEW m, MachineOK(m), FramesOK(m), NEW r,
         r.ctx = m.ctx, r.depth = m.depth,
         m.depth > 0 => r.own >= 0 /\ r.sp = FrameAt(m, m.depth) - r.own,
         \A a \in SystemStack : m.depth > 0 /\ a >= FrameAt(m, m.depth) => r.stack[a] = m.stack[a]
  PROVE  FramesOK(r)
<1>1. m.depth \in Nat
  BY DEF MachineOK, Machine
<1>2. \A k : FrameAt(r, k) = FrameAt(m, k)
  BY DEF FrameAt
<1>3. \A k \in 1 .. m.depth : FrameAt(m, k) >= FrameAt(m, m.depth)
  <2> SUFFICES ASSUME NEW k \in 1 .. m.depth PROVE FrameAt(m, k) >= FrameAt(m, m.depth)
    OBVIOUS
  <2>1. CASE k = m.depth
    BY <1>1, <2>1, FrameTypes
  <2>2. CASE k < m.depth
    <3>1. m.depth \in 1 .. m.depth /\ k \in 1 .. m.depth - 1
      BY <1>1, <2>2
    <3>2. FrameAt(m, m.depth) + 2 <= FrameAt(m, k)
      BY <3>1 DEF FramesOK
    <3> QED
      BY <3>1, <3>2, FrameTypes
  <2> QED
    BY <1>1, <2>1, <2>2
<1>4. \A k \in 1 .. m.depth :
        /\ {FrameAt(m, k), FrameAt(m, k) + 1} \subseteq SystemStack
        /\ r.stack[FrameAt(m, k)] = m.stack[FrameAt(m, k)]
        /\ r.stack[FrameAt(m, k) + 1] = m.stack[FrameAt(m, k) + 1]
  <2> SUFFICES ASSUME NEW k \in 1 .. m.depth
               PROVE  /\ {FrameAt(m, k), FrameAt(m, k) + 1} \subseteq SystemStack
                      /\ r.stack[FrameAt(m, k)] = m.stack[FrameAt(m, k)]
                      /\ r.stack[FrameAt(m, k) + 1] = m.stack[FrameAt(m, k) + 1]
    OBVIOUS
  <2>1. FrameAt(m, k) \in SystemStack /\ FrameAt(m, k) + 1 \in SystemStack
    BY DEF FramesOK, FramesOn
  <2>2. FrameAt(m, k) >= FrameAt(m, m.depth) /\ FrameAt(m, k) + 1 >= FrameAt(m, m.depth) /\ m.depth > 0
    <3>1. m.depth \in 1 .. m.depth
      BY <1>1
    <3> QED
      BY <1>1, <1>3, <3>1, FrameTypes
  <2> QED
    BY <2>1, <2>2
<1>5. FramesOn(r)
  BY <1>1, <1>2, <1>4 DEF FramesOn, FramesOK
<1> QED
  BY <1>1, <1>2, <1>5 DEF FramesOK

LEMMA FramesEnter ==
  ASSUME NEW m, MachineOK(m), FramesOK(m), ~m.faulted, NEW n \in Numbers, Entered(m, n)
  PROVE  FramesOK(EnterHandler(m, n))
<1> DEFINE r == EnterHandler(m, n)
           d == m.depth + 1
           c == [pc |-> m.pc, flags |-> SavedFlags(m), sp |-> m.sp, own |-> m.own]
           top == Switch(m).sp - 2
<1>1. m \in Machine /\ m.depth \in Nat /\ m.sp \in Nat /\ m.ctx \in Seq(Context) /\ Len(m.ctx) = m.depth
      /\ m.own \in Int
  BY DEF MachineOK, Machine
<1>2. Switch(m).sp = (IF m.depth = 0 THEN MemTop ELSE m.sp) /\ Switch(m).depth = d
  BY <1>1, SwitchOK
<1>3. /\ r.depth = d /\ r.own = 0 /\ r.sp = top /\ r.ctx = Append(m.ctx, c)
  <2>0. r = EnterHandler(m, n)
    OBVIOUS
  <2> HIDE DEF r, c, d
  <2>1. /\ r.depth = Switch(m).depth /\ r.own = 0 /\ r.sp = Switch(m).sp - 2
    <3>1. r.depth = Switch(m).depth
      BY <1>1, <2>0, EnterFields
    <3>4. r.own = 0
      BY <1>1, <2>0, EnterOwn
    <3>2. m.faulted = FALSE
      BY <1>1 DEF Machine
    <3>3. r.sp = Switch(m).sp - 2
      BY <1>1, <2>0, <3>2, EnterSp
    <3> QED
      BY <3>1, <3>3, <3>4
  <2>2. r.ctx = Append(m.ctx, c)
    BY <1>1, <2>0, EnterContext DEF c
  <2> QED
    BY <1>1, <1>2, <2>1, <2>2, StackAssumption
<1>4. \A a \in SystemStack : r.stack[a] = IF a = top THEN PcWord(m.pc)
                                         ELSE IF a = top + 1 THEN FlagsWord(SavedFlags(m))
                                         ELSE m.stack[a]
  BY <1>1, <1>2, EnterStack, StackAssumption
<1>5. top \in Int /\ top >= SystemFloor /\ top + 2 = Switch(m).sp
  BY <1>1, <1>2, StackAssumption DEF Entered, Fits, HasStackRoom
<1> HIDE DEF r, top
<1>6. /\ Len(r.ctx) = d /\ r.ctx[d] = c /\ \A k \in 1 .. m.depth : r.ctx[k] = m.ctx[k]
  BY <1>1, <1>3
<1>7. \A k \in 1 .. m.depth : FrameAt(r, k) = FrameAt(m, k)
  BY <1>6 DEF FrameAt
<1>8. FrameAt(r, d) = top
  BY <1>1, <1>2, <1>5, <1>6, StackAssumption DEF FrameAt
<1>9. \A k \in 1 .. m.depth : FrameAt(m, k) >= top + 2 /\ top + 2 = m.sp
  <2> SUFFICES ASSUME NEW k \in 1 .. m.depth PROVE FrameAt(m, k) >= top + 2 /\ top + 2 = m.sp
    OBVIOUS
  <2>1. m.depth \in 1 .. m.depth /\ m.depth > 0
    BY <1>1
  <2>2. FrameAt(m, m.depth) \in Int /\ FrameAt(m, k) \in Int
    BY <2>1, FrameTypes
  <2>3. m.sp = FrameAt(m, m.depth) - m.own /\ m.own >= 0
    BY <2>1 DEF FramesOK, FramesOn
  <2>4. FrameAt(m, m.depth) <= FrameAt(m, k)
    <3>1. CASE k = m.depth
      BY <2>2, <3>1
    <3>2. CASE k # m.depth
      BY <1>1, <2>1, <2>2, <3>2 DEF FramesOK
    <3> QED
      BY <3>1, <3>2
  <2> QED
    BY <1>1, <1>2, <1>5, <2>1, <2>2, <2>3, <2>4
<1>10. FramesOn(r)
  <2>1. Len(r.ctx) = r.depth /\ (r.depth > 0 => r.sp = FrameAt(r, r.depth) - r.own)
    BY <1>3, <1>5, <1>6, <1>8
  <2>2. ASSUME NEW k \in 1 .. r.depth
        PROVE  /\ {FrameAt(r, k), FrameAt(r, k) + 1} \subseteq SystemStack
               /\ r.stack[FrameAt(r, k)] = PcWord(r.ctx[k].pc)
               /\ r.stack[FrameAt(r, k) + 1] = FlagsWord(r.ctx[k].flags)
    <3>1. CASE k = d
      <4>1. top \in SystemStack /\ top + 1 \in SystemStack
        <5>1. Switch(m).sp <= MemTop
          <6>1. CASE m.depth = 0
            BY <1>2, <6>1, StackAssumption
          <6>2. CASE m.depth > 0
            <7>1. m.depth \in 1 .. m.depth
              BY <1>1, <6>2
            <7>2. FrameAt(m, m.depth) \in SystemStack /\ m.sp + 2 <= FrameAt(m, m.depth) + 2
              BY <1>5, <1>9, <7>1, FrameTypes DEF FramesOK, FramesOn
            <7> QED
              BY <1>1, <1>2, <6>2, <7>2, StackAssumption DEF SystemStack
          <6> QED
            BY <1>1, <6>1, <6>2
        <5> QED
          BY <1>5, <5>1, StackAssumption DEF SystemStack
      <4> QED
        BY <1>4, <1>5, <1>6, <1>8, <3>1, <4>1
    <3>2. CASE k # d
      <4>1. k \in 1 .. m.depth
        BY <1>1, <1>3, <3>2
      <4>2. /\ FrameAt(m, k) \in SystemStack /\ FrameAt(m, k) + 1 \in SystemStack
            /\ m.stack[FrameAt(m, k)] = PcWord(m.ctx[k].pc)
            /\ m.stack[FrameAt(m, k) + 1] = FlagsWord(m.ctx[k].flags)
        BY <4>1 DEF FramesOK, FramesOn
      <4>3. FrameAt(m, k) >= top + 2 /\ FrameAt(m, k) \in Int
        BY <1>9, <4>1, FrameTypes
      <4>4. /\ r.stack[FrameAt(m, k)] = m.stack[FrameAt(m, k)]
            /\ r.stack[FrameAt(m, k) + 1] = m.stack[FrameAt(m, k) + 1]
        BY <1>4, <1>5, <4>2, <4>3
      <4> QED
        BY <1>6, <1>7, <4>1, <4>2, <4>4
    <3> QED
      BY <3>1, <3>2
  <2> QED
    BY <2>1, <2>2 DEF FramesOn
<1>11. \A k \in 2 .. d : r.ctx[k].own >= 0 /\ r.ctx[k].sp = FrameAt(r, k - 1) - r.ctx[k].own
  <2> SUFFICES ASSUME NEW k \in 2 .. d
               PROVE  r.ctx[k].own >= 0 /\ r.ctx[k].sp = FrameAt(r, k - 1) - r.ctx[k].own
    OBVIOUS
  <2>1. CASE k = d
    <3>1. m.depth > 0 /\ m.depth \in 1 .. m.depth /\ k - 1 = m.depth
      BY <1>1, <2>1
    <3>2. m.sp = FrameAt(m, m.depth) - m.own /\ m.own >= 0
      BY <3>1 DEF FramesOK, FramesOn
    <3> QED
      BY <1>6, <1>7, <2>1, <3>1, <3>2
  <2>2. CASE k # d
    <3>1. k \in 2 .. m.depth /\ k \in 1 .. m.depth /\ k - 1 \in 1 .. m.depth
      BY <1>1, <2>2
    <3>2. m.ctx[k].own >= 0 /\ m.ctx[k].sp = FrameAt(m, k - 1) - m.ctx[k].own
      BY <3>1 DEF FramesOK
    <3> QED
      BY <1>6, <1>7, <3>1, <3>2
  <2> QED
    BY <2>1, <2>2
<1>12. \A k \in 1 .. d : \A j \in 1 .. k - 1 : FrameAt(r, k) + 2 <= FrameAt(r, j)
  <2> SUFFICES ASSUME NEW k \in 1 .. d, NEW j \in 1 .. k - 1 PROVE FrameAt(r, k) + 2 <= FrameAt(r, j)
    OBVIOUS
  <2>1. j \in 1 .. m.depth /\ FrameAt(m, j) \in Int
    BY <1>1, FrameTypes
  <2>2. CASE k = d
    BY <1>5, <1>7, <1>8, <1>9, <2>1, <2>2
  <2>3. CASE k # d
    <3>1. k \in 1 .. m.depth
      BY <1>1, <2>3
    <3>2. FrameAt(m, k) + 2 <= FrameAt(m, j)
      BY <3>1 DEF FramesOK
    <3> QED
      BY <1>7, <2>1, <3>1, <3>2
  <2> QED
    BY <2>2, <2>3
<1>13. r.own >= 0
  BY <1>3
<1>14. FramesOK(r)
  BY <1>3, <1>10, <1>11, <1>12, <1>13 DEF FramesOK
<1> QED
  BY <1>14 DEF r

LEMMA Prefix ==
  ASSUME NEW S, NEW q \in Seq(S), NEW n \in 0 .. Len(q)
  PROVE  Len(SubSeq(q, 1, n)) = n /\ \A k \in 1 .. n : SubSeq(q, 1, n)[k] = q[k]
<1>1. \A k \in 1 .. n : q[k] \in S
  OBVIOUS
<1>2. Len(SubSeq(q, 1, n)) = n
  BY <1>1, SubSeqProperties
<1>3. \A k \in 1 .. n - 1 + 1 : SubSeq(q, 1, n)[k] = q[1 + k - 1]
  BY <1>1, SubSeqProperties
<1>4. \A k \in 1 .. n : k \in 1 .. n - 1 + 1 /\ 1 + k - 1 = k
  OBVIOUS
<1> QED
  BY <1>2, <1>3, <1>4

(* IRET from a handler that has taken back all it pushed: its frame is what *)
(* it pops, and the level below is as it was interrupted.                   *)
LEMMA FramesPop ==
  ASSUME NEW m, MachineOK(m), FramesOK(m), m.depth > 0, m.own = 0,
         NEW r, r.ctx = SubSeq(m.ctx, 1, m.depth - 1), r.depth = m.depth - 1,
         r.own = m.ctx[m.depth].own,
         m.depth > 1 => r.sp = m.sp + 2,
         m.depth > 1 => \A a \in SystemStack : a >= m.sp + 2 => r.stack[a] = m.stack[a]
  PROVE  FramesOK(r)
<1> DEFINE d == m.depth - 1
<1>1. m.depth \in Nat /\ m.ctx \in Seq(Context) /\ Len(m.ctx) = m.depth /\ m.sp \in Nat /\ d \in Nat
  BY DEF MachineOK, Machine
<1>2. Len(r.ctx) = d /\ \A k \in 1 .. d : r.ctx[k] = m.ctx[k]
  <2> DEFINE x == SubSeq(m.ctx, 1, m.depth - 1)
  <2>1. Len(x) = d /\ \A k \in 1 .. d : x[k] = m.ctx[k]
    <3>1. d \in 0 .. Len(m.ctx)
      BY <1>1
    <3> QED
      BY <1>1, <3>1, Prefix
  <2> QED
    BY <2>1
<1>3. \A k \in 1 .. d : FrameAt(r, k) = FrameAt(m, k)
  BY <1>2 DEF FrameAt
<1>4. m.depth \in 1 .. m.depth /\ m.sp = FrameAt(m, m.depth) - 0
  BY <1>1 DEF FramesOK, FramesOn
<1>5. ASSUME NEW k \in 1 .. d
      PROVE  FrameAt(m, k) \in Int /\ FrameAt(m, k) >= m.sp + 2
  <2>1. k \in 1 .. m.depth - 1 /\ k \in 1 .. m.depth
    BY <1>1
  <2>2. FrameAt(m, m.depth) + 2 <= FrameAt(m, k)
    BY <1>4, <2>1 DEF FramesOK
  <2> QED
    BY <1>1, <1>4, <2>1, <2>2, FrameTypes
<1>6. FramesOn(r)
  <2>1. r.depth > 0 => r.sp = FrameAt(r, r.depth) - r.own
    <3> SUFFICES ASSUME r.depth > 0 PROVE r.sp = FrameAt(r, d) - r.own
      OBVIOUS
    <3>1. m.depth > 1 /\ m.depth \in 2 .. m.depth /\ d \in 1 .. d
      BY <1>1
    <3>2. m.ctx[m.depth].sp = FrameAt(m, d) - m.ctx[m.depth].own
      BY <3>1 DEF FramesOK
    <3>3. FrameAt(m, m.depth) = m.ctx[m.depth].sp - 2 /\ m.ctx[m.depth].sp \in Nat
      BY <1>1, <1>4, <3>1, FrameTypes DEF FrameAt
    <3> QED
      BY <1>1, <1>3, <1>4, <3>1, <3>2, <3>3
  <2>2. ASSUME NEW k \in 1 .. r.depth
        PROVE  /\ {FrameAt(r, k), FrameAt(r, k) + 1} \subseteq SystemStack
               /\ r.stack[FrameAt(r, k)] = PcWord(r.ctx[k].pc)
               /\ r.stack[FrameAt(r, k) + 1] = FlagsWord(r.ctx[k].flags)
    <3>1. k \in 1 .. d /\ k \in 1 .. m.depth /\ m.depth > 1
      BY <1>1
    <3>2. /\ FrameAt(m, k) \in SystemStack /\ FrameAt(m, k) + 1 \in SystemStack
          /\ m.stack[FrameAt(m, k)] = PcWord(m.ctx[k].pc)
          /\ m.stack[FrameAt(m, k) + 1] = FlagsWord(m.ctx[k].flags)
      BY <3>1 DEF FramesOK, FramesOn
    <3>3. FrameAt(m, k) \in Int /\ FrameAt(m, k) >= m.sp + 2
      BY <1>5, <3>1
    <3>4. /\ r.stack[FrameAt(m, k)] = m.stack[FrameAt(m, k)]
          /\ r.stack[FrameAt(m, k) + 1] = m.stack[FrameAt(m, k) + 1]
      BY <1>1, <3>1, <3>2, <3>3
    <3> QED
      BY <1>2, <1>3, <3>1, <3>2, <3>4
  <2> QED
    BY <1>2, <2>1, <2>2 DEF FramesOn
<1>7. r.depth > 0 => r.own >= 0
  <2> SUFFICES ASSUME r.depth > 0 PROVE r.own >= 0
    OBVIOUS
  <2>1. m.depth \in 2 .. m.depth
    BY <1>1
  <2> QED
    BY <2>1 DEF FramesOK
<1>8. \A k \in 2 .. d : r.ctx[k].own >= 0 /\ r.ctx[k].sp = FrameAt(r, k - 1) - r.ctx[k].own
  <2> SUFFICES ASSUME NEW k \in 2 .. d
               PROVE  r.ctx[k].own >= 0 /\ r.ctx[k].sp = FrameAt(r, k - 1) - r.ctx[k].own
    OBVIOUS
  <2>1. k \in 2 .. m.depth /\ k \in 1 .. d /\ k - 1 \in 1 .. d
    BY <1>1
  <2>2. m.ctx[k].own >= 0 /\ m.ctx[k].sp = FrameAt(m, k - 1) - m.ctx[k].own
    BY <2>1 DEF FramesOK
  <2> QED
    BY <1>2, <1>3, <2>1, <2>2
<1>9. \A k \in 1 .. d : \A j \in 1 .. k - 1 : FrameAt(r, k) + 2 <= FrameAt(r, j)
  <2> SUFFICES ASSUME NEW k \in 1 .. d, NEW j \in 1 .. k - 1 PROVE FrameAt(r, k) + 2 <= FrameAt(r, j)
    OBVIOUS
  <2>1. k \in 1 .. m.depth /\ j \in 1 .. d
    BY <1>1
  <2>2. FrameAt(m, k) + 2 <= FrameAt(m, j)
    BY <2>1 DEF FramesOK
  <2> QED
    BY <1>3, <2>1, <2>2
<1> QED
  BY <1>6, <1>7, <1>8, <1>9 DEF FramesOK

-----------------------------------------------------------------------------
(* The two stacks.                                                          *)

Separate(m) ==
  /\ m.limit >= StackFloor
  /\ m.depth = 0 => m.sp \in StackFloor .. SystemFloor
  /\ m.depth > 0 => /\ m.sp \in SystemFloor .. MemTop
                    /\ m.saved = m.ctx[1].sp
                    /\ m.saved \in StackFloor .. SystemFloor

LEMMA SeparateEnter ==
  ASSUME NEW m, MachineOK(m), Separate(m), NEW n \in Numbers, Entered(m, n)
  PROVE  Separate(EnterHandler(m, n))
<1> DEFINE c == [pc |-> m.pc, flags |-> SavedFlags(m), sp |-> m.sp, own |-> m.own]
<1>1. m \in Machine /\ m.depth \in Nat /\ m.sp \in Nat /\ m.ctx \in Seq(Context) /\ Len(m.ctx) = m.depth
      /\ m.faulted \in BOOLEAN
  BY DEF MachineOK, Machine
<1>2. Switch(m).sp = (IF m.depth = 0 THEN MemTop ELSE m.sp) /\ Switch(m).depth = m.depth + 1
  BY <1>1, SwitchOK
<1>3. Switch(m).sp >= SystemFloor + 2
  BY <1>1, <1>2 DEF Entered, Fits, HasStackRoom
<1>4. Switch(m).saved = IF m.depth = 0 THEN m.sp ELSE m.saved
  BY <1>1 DEF Switch, Machine
<1>5. PICK r : r = EnterHandler(m, n)
  OBVIOUS
<1>6. r.depth = m.depth + 1 /\ r.limit = m.limit /\ r.saved = Switch(m).saved
  BY <1>1, <1>2, <1>5, EnterFields
<1>7. r.ctx = Append(m.ctx, c)
  BY <1>1, <1>5, EnterContext
<1>8. r.sp = Switch(m).sp \/ r.sp = Switch(m).sp - 2
  BY <1>1, <1>5, EnterSp
<1>9. r.sp \in SystemFloor .. MemTop
  BY <1>1, <1>2, <1>3, <1>8, StackAssumption DEF Separate
<1>10. r.ctx[1] = IF m.depth = 0 THEN c ELSE m.ctx[1]
  BY <1>1, <1>7
<1>11. c.sp = m.sp
  OBVIOUS
<1>12. r.saved = r.ctx[1].sp /\ r.saved \in StackFloor .. SystemFloor
  <2>1. CASE m.depth = 0
    BY <1>4, <1>6, <1>10, <1>11, <2>1 DEF Separate
  <2>2. CASE m.depth > 0
    BY <1>4, <1>6, <1>10, <2>2 DEF Separate
  <2> QED
    BY <1>1, <2>1, <2>2
<1> QED
  BY <1>1, <1>5, <1>6, <1>9, <1>12 DEF Separate

LEMMA SeparateResume ==
  ASSUME NEW m, MachineOK(m), Separate(m), m.depth > 0, NEW p \in Pcs, NEW f \in SUBSET Flag
  PROVE  Separate(Resume(m, p, f))
<1>1. m \in Machine /\ m.depth \in Nat /\ m.ctx \in Seq(Context) /\ Len(m.ctx) = m.depth
  BY DEF MachineOK, Machine
<1>2. PICK r : r = Resume(m, p, f)
  OBVIOUS
<1>3. /\ r.depth = m.depth - 1 /\ r.limit = m.limit /\ r.saved = m.saved
      /\ r.sp = (IF m.depth = 1 THEN m.saved ELSE m.sp)
      /\ r.ctx = SubSeq(m.ctx, 1, m.depth - 1)
  BY <1>2, ResumeFields
<1>4. m.depth > 1 => r.ctx[1] = m.ctx[1]
  BY <1>1, <1>3
<1> QED
  BY <1>1, <1>2, <1>3, <1>4 DEF Separate

-----------------------------------------------------------------------------
(* The inductive invariant.  Frames are claimed of handlers that keep their *)
(* pushes and pops balanced, and where neither of the two double faults can *)
(* happen; separation, where the program's stack is not paged out.          *)

Undisturbed == Balanced /\ ~UnmappedStack /\ ~UnbackedCompare

Good(m) ==
  /\ MachineOK(m)
  /\ ~UnmappedStack => Separate(m)
  /\ Undisturbed => FramesOK(m)
  /\ m.faulted = TRUE => "Interrupt" \notin m.flags
  /\ m.stopped = TRUE => m.depth > 0 /\ "Halting" \in m.flags /\ m.sp < SystemFloor + 2

IInv ==
  /\ TypeOK
  /\ Good(cpu)
  /\ phase = "run" => cpu.stopped = FALSE
  /\ \A n \in pending : User(n)

(* A step that leaves the stacks alone.                                     *)
LEMMA GoodSameStack ==
  ASSUME NEW m, Good(m), NEW r, r \in Machine,
         r.ctx = m.ctx, r.depth = m.depth, r.sp = m.sp, r.saved = m.saved, r.own = m.own,
         r.stack = m.stack, r.limit >= StackFloor \/ r.limit = m.limit,
         r.faulted = TRUE => "Interrupt" \notin r.flags,
         r.stopped = TRUE => r.depth > 0 /\ "Halting" \in r.flags /\ r.sp < SystemFloor + 2
  PROVE  Good(r)
<1>1. MachineOK(r)
  BY DEF Good, MachineOK
<1>2. ~UnmappedStack => Separate(r)
  BY DEF Good, Separate
<1>3. Undisturbed => FramesOK(r)
  <2> SUFFICES ASSUME Undisturbed PROVE FramesOK(r)
    OBVIOUS
  <2>1. FramesOK(m) /\ MachineOK(m)
    BY DEF Good
  <2>2. m.depth > 0 => r.own >= 0 /\ r.sp = FrameAt(m, m.depth) - r.own
    BY <2>1 DEF FramesOK, FramesOn
  <2> QED
    BY <2>1, <2>2, FramesStable
<1> QED
  BY <1>1, <1>2, <1>3 DEF Good

LEMMA GoodEnter ==
  ASSUME NEW m, Good(m), NEW n \in Numbers, Entered(m, n), Undisturbed => m.faulted = FALSE
  PROVE  Good(EnterHandler(m, n))
<1>1. PICK r : r = EnterHandler(m, n)
  OBVIOUS
<1>2. MachineOK(m) /\ m \in Machine /\ m.depth \in Nat /\ m.sp \in Nat
  BY DEF Good, MachineOK, Machine
<1>3. MachineOK(r)
  BY <1>1, <1>2, EnterOK
<1>4. ~UnmappedStack => Separate(r)
  BY <1>1, <1>2, SeparateEnter DEF Good
<1>5. Undisturbed => FramesOK(r)
  BY <1>1, <1>2, FramesEnter DEF Good
<1>6. "Interrupt" \notin r.flags
  BY <1>1, <1>2, EnterMasks
<1>7. r.stopped = m.stopped
  BY <1>1, <1>2, EnterFields
<1>8. m.stopped # TRUE
  <2> SUFFICES ASSUME m.stopped = TRUE PROVE FALSE
    OBVIOUS
  <2>1. m.depth > 0 /\ m.sp < SystemFloor + 2
    BY DEF Good
  <2>2. Switch(m).sp = m.sp /\ Switch(m).depth = m.depth + 1
    BY <1>2, <2>1, SwitchOK
  <2>3. m.sp >= SystemFloor + 2
    BY <1>2, <2>2 DEF Entered, Fits, HasStackRoom
  <2> QED
    BY <1>2, <2>1, <2>3, StackAssumption
<1> QED
  BY <1>1, <1>3, <1>4, <1>5, <1>6, <1>7, <1>8 DEF Good

LEMMA GoodStop ==
  ASSUME NEW m, Good(m), ~Fits(m)
  PROVE  Good(StopForGood(m))
<1> DEFINE g == m.flags \cup {"Halting"}
           r == [m EXCEPT !.flags = g, !.stopped = TRUE]
<1>1. MachineOK(m) /\ m \in Machine
  BY DEF Good, MachineOK
<1>2. StopForGood(m) = r /\ m.depth > 0 /\ m.sp < SystemFloor + 2
  BY <1>1, StopIs
<1>3. g \in SUBSET Flag /\ "Halting" \in g /\ ("Interrupt" \in g <=> "Interrupt" \in m.flags)
  BY <1>1 DEF Machine, Flag
<1> HIDE DEF g
<1>4. /\ r \in Machine /\ r.ctx = m.ctx /\ r.depth = m.depth /\ r.sp = m.sp /\ r.saved = m.saved
      /\ r.own = m.own /\ r.stack = m.stack /\ r.limit = m.limit /\ r.flags = g /\ r.faulted = m.faulted
  BY <1>1, <1>3 DEF Machine
<1> HIDE DEF r
<1>5. r.faulted = TRUE => "Interrupt" \notin r.flags
  BY <1>3, <1>4 DEF Good
<1>6. Good(r)
  BY <1>2, <1>3, <1>4, <1>5, GoodSameStack
<1> QED
  BY <1>2, <1>6

(* A dispatch, whether it is entered, refused, or finds no stack left.      *)
LEMMA GoodTrigger ==
  ASSUME NEW m, Good(m), NEW n \in Numbers,
         Undisturbed /\ m.faulted = TRUE => ~Accepts(m, n)
  PROVE  Good(TriggerInterrupt(m, n))
<1>1. CASE ~Accepts(m, n)
  BY <1>1 DEF TriggerInterrupt
<1>2. CASE Accepts(m, n) /\ Fits(m)
  <2>1. m.faulted \in BOOLEAN
    BY DEF Good, MachineOK, Machine
  <2> QED
    BY <1>2, <2>1, GoodEnter DEF TriggerInterrupt, Entered
<1>3. CASE Accepts(m, n) /\ ~Fits(m)
  BY <1>3, GoodStop DEF TriggerInterrupt
<1> QED
  BY <1>1, <1>2, <1>3

LEMMA GoodAdvance ==
  ASSUME NEW m, Good(m)
  PROVE  Good(AdvancePC(m))
<1>1. MachineOK(m) /\ m \in Machine
  BY DEF Good, MachineOK
<1>2. CASE m.faulted = TRUE
  BY <1>2 DEF AdvancePC
<1>3. CASE m.faulted = FALSE
  <2> DEFINE p == (m.pc % PcCount) + 1
             r == [m EXCEPT !.pc = p]
  <2>1. AdvancePC(m) = r
    BY <1>3 DEF AdvancePC
  <2>2. r \in Machine
    BY <1>1, <2>1, AdvanceOK DEF MachineOK
  <2> HIDE DEF p
  <2>3. /\ r.ctx = m.ctx /\ r.depth = m.depth /\ r.sp = m.sp /\ r.saved = m.saved /\ r.own = m.own
        /\ r.stack = m.stack /\ r.limit = m.limit /\ r.flags = m.flags /\ r.faulted = m.faulted
        /\ r.stopped = m.stopped
    BY <1>1 DEF Machine
  <2> HIDE DEF r
  <2>4. /\ r.faulted = TRUE => "Interrupt" \notin r.flags
        /\ r.stopped = TRUE => r.depth > 0 /\ "Halting" \in r.flags /\ r.sp < SystemFloor + 2
    BY <2>3 DEF Good
  <2>5. Good(r)
    BY <2>2, <2>3, <2>4, GoodSameStack
  <2> QED
    BY <2>1, <2>5
<1> QED
  BY <1>1, <1>2, <1>3 DEF Machine

LEMMA GoodPutWords ==
  ASSUME NEW m, Good(m), m.stopped = FALSE, NEW words \in Nat \ {0}, NEW w \in Word, HasStackRoom(m, words)
  PROVE  Good(PutWords(m, words, w))
<1> DEFINE st == [a \in SystemStack |->
                    IF a = m.sp - 1 THEN w
                    ELSE IF a \in m.sp - words .. m.sp - 2 THEN DataWord ELSE m.stack[a]]
           top == m.sp - words
           o == Owned(m, words)
           r == [m EXCEPT !.stack = st, !.sp = top, !.own = o]
<1>1. MachineOK(m) /\ m \in Machine /\ m.sp \in Nat /\ m.depth \in Nat /\ m.limit \in Nat /\ m.own \in Int
  BY DEF Good, MachineOK, Machine
<1>2. PutWords(m, words, w) = r
  BY DEF PutWords
<1>3. m.sp >= words
  BY <1>1, StackAssumption DEF HasStackRoom
<1>4. MachineOK(r)
  BY <1>1, <1>2, <1>3, PutWordsOK
<1> HIDE DEF st, top, o
<1>5. /\ r.ctx = m.ctx /\ r.depth = m.depth /\ r.sp = top /\ r.saved = m.saved /\ r.own = o
      /\ r.stack = st /\ r.limit = m.limit /\ r.flags = m.flags /\ r.faulted = m.faulted
      /\ r.stopped = m.stopped
  BY <1>1 DEF Machine
<1> HIDE DEF r
<1>6. ~UnmappedStack => Separate(r)
  BY <1>1, <1>5, StackAssumption DEF Good, Separate, HasStackRoom, top
<1>7. Undisturbed => FramesOK(r)
  <2> SUFFICES ASSUME Undisturbed PROVE FramesOK(r)
    OBVIOUS
  <2>1. FramesOK(m)
    BY DEF Good
  <2>2. m.depth > 0 => /\ r.own >= 0 /\ r.sp = FrameAt(m, m.depth) - r.own
                      /\ FrameAt(m, m.depth) >= m.sp /\ FrameAt(m, m.depth) \in Int
    <3> SUFFICES ASSUME m.depth > 0
                 PROVE  /\ r.own >= 0 /\ r.sp = FrameAt(m, m.depth) - r.own
                        /\ FrameAt(m, m.depth) >= m.sp /\ FrameAt(m, m.depth) \in Int
      OBVIOUS
    <3>1. m.own >= 0 /\ m.sp = FrameAt(m, m.depth) - m.own
      BY <2>1 DEF FramesOK, FramesOn
    <3>2. o = m.own + words
      BY DEF o, Owned, Undisturbed
    <3>3. m.depth \in 1 .. m.depth
      BY <1>1
    <3>4. FrameAt(m, m.depth) \in Int
      BY <1>1, <3>3, FrameTypes
    <3> QED
      BY <1>1, <1>5, <3>1, <3>2, <3>4 DEF top
  <2>3. \A a \in SystemStack : m.depth > 0 /\ a >= FrameAt(m, m.depth) => r.stack[a] = m.stack[a]
    <3> SUFFICES ASSUME NEW a \in SystemStack, m.depth > 0, a >= FrameAt(m, m.depth)
                 PROVE  r.stack[a] = m.stack[a]
      OBVIOUS
    <3>1. a \in Int /\ a >= m.sp
      BY <1>1, <2>2, StackAssumption DEF SystemStack
    <3>2. a # m.sp - 1 /\ a \notin m.sp - words .. m.sp - 2
      BY <1>1, <3>1
    <3> QED
      BY <1>5, <3>2 DEF st
  <2> QED
    BY <1>1, <1>5, <2>1, <2>2, <2>3, FramesStable
<1>8. /\ r.faulted = TRUE => "Interrupt" \notin r.flags
      /\ r.stopped # TRUE
  BY <1>5 DEF Good
<1> QED
  BY <1>2, <1>4, <1>6, <1>7, <1>8 DEF Good

LEMMA GoodDrop ==
  ASSUME NEW m, Good(m), m.stopped = FALSE, NEW words \in Nat \ {0}, HasStackData(m, words),
         Undisturbed => m.depth = 0 \/ m.own >= words
  PROVE  Good(Drop(m, words))
<1> DEFINE st == [a \in SystemStack |->
                    IF a \in m.sp .. m.sp + words - 1 THEN DataWord ELSE m.stack[a]]
           top == m.sp + words
           o == Owned(m, -words)
           r == [m EXCEPT !.stack = st, !.sp = top, !.own = o]
<1>1. MachineOK(m) /\ m \in Machine /\ m.sp \in Nat /\ m.depth \in Nat /\ m.limit \in Nat /\ m.own \in Int
  BY DEF Good, MachineOK, Machine
<1>2. Drop(m, words) = r
  BY DEF Drop
<1>4. MachineOK(r)
  BY <1>1, <1>2, DropOK
<1> HIDE DEF st, top, o
<1>5. /\ r.ctx = m.ctx /\ r.depth = m.depth /\ r.sp = top /\ r.saved = m.saved /\ r.own = o
      /\ r.stack = st /\ r.limit = m.limit /\ r.flags = m.flags /\ r.faulted = m.faulted
      /\ r.stopped = m.stopped
  BY <1>1 DEF Machine
<1> HIDE DEF r
<1>6. ~UnmappedStack => Separate(r)
  BY <1>1, <1>5, StackAssumption DEF Good, Separate, HasStackData, top
<1>7. Undisturbed => FramesOK(r)
  <2> SUFFICES ASSUME Undisturbed PROVE FramesOK(r)
    OBVIOUS
  <2>1. FramesOK(m)
    BY DEF Good
  <2>2. m.depth > 0 => /\ r.own >= 0 /\ r.sp = FrameAt(m, m.depth) - r.own
                      /\ FrameAt(m, m.depth) >= m.sp + words /\ FrameAt(m, m.depth) \in Int
    <3> SUFFICES ASSUME m.depth > 0
                 PROVE  /\ r.own >= 0 /\ r.sp = FrameAt(m, m.depth) - r.own
                        /\ FrameAt(m, m.depth) >= m.sp + words /\ FrameAt(m, m.depth) \in Int
      OBVIOUS
    <3>1. m.own >= words /\ m.sp = FrameAt(m, m.depth) - m.own
      BY <2>1 DEF FramesOK, FramesOn, Undisturbed
    <3>2. o = m.own + -words
      BY DEF o, Owned, Undisturbed
    <3>3. m.depth \in 1 .. m.depth
      BY <1>1
    <3>4. FrameAt(m, m.depth) \in Int
      BY <1>1, <3>3, FrameTypes
    <3> QED
      BY <1>1, <1>5, <3>1, <3>2, <3>4 DEF top
  <2>3. \A a \in SystemStack : m.depth > 0 /\ a >= FrameAt(m, m.depth) => r.stack[a] = m.stack[a]
    <3> SUFFICES ASSUME NEW a \in SystemStack, m.depth > 0, a >= FrameAt(m, m.depth)
                 PROVE  r.stack[a] = m.stack[a]
      OBVIOUS
    <3>1. a \in Int /\ a >= m.sp + words
      BY <1>1, <2>2, StackAssumption DEF SystemStack
    <3>2. a \notin m.sp .. m.sp + words - 1
      BY <1>1, <3>1
    <3> QED
      BY <1>5, <3>2 DEF st
  <2> QED
    BY <1>1, <1>5, <2>1, <2>2, <2>3, FramesStable
<1>8. /\ r.faulted = TRUE => "Interrupt" \notin r.flags
      /\ r.stopped # TRUE
  BY <1>5 DEF Good
<1> QED
  BY <1>2, <1>4, <1>6, <1>7, <1>8 DEF Good

LEMMA DropFields ==
  ASSUME NEW m \in Machine, NEW words \in Nat, NEW r, r = Drop(m, words)
  PROVE  /\ r.sp = m.sp + words /\ r.ctx = m.ctx /\ r.depth = m.depth /\ r.saved = m.saved
         /\ r.limit = m.limit /\ r.flags = m.flags /\ r.faulted = m.faulted /\ r.stopped = m.stopped
         /\ \A a \in SystemStack : a >= m.sp + words => r.stack[a] = m.stack[a]
BY StackAssumption DEF Drop, Machine, SystemStack

(* What IRET finds on the stack of a balanced handler is the context its    *)
(* dispatch saved.                                                          *)
LEMMA IretReadsFrame ==
  ASSUME NEW m, Good(m), Undisturbed, m.depth > 0, m.own = 0,
         NEW p \in PcsAtTop(m), NEW f \in FlagsAtTop([m EXCEPT !.sp = @ + 1])
  PROVE  p = m.ctx[m.depth].pc /\ f = m.ctx[m.depth].flags
<1> DEFINE t == [m EXCEPT !.sp = m.sp + 1]
           c == m.ctx[m.depth]
<1>1. MachineOK(m) /\ m \in Machine /\ m.sp \in Nat /\ m.depth \in Nat /\ m.depth \in 1 .. m.depth
  BY DEF Good, MachineOK, Machine
<1>2. FrameAt(m, m.depth) \in Int /\ m.sp = FrameAt(m, m.depth) - 0
  BY <1>1, FrameTypes DEF Good, FramesOK, FramesOn
<1>3. /\ m.sp \in SystemStack /\ m.sp + 1 \in SystemStack
      /\ m.stack[m.sp] = PcWord(c.pc) /\ m.stack[m.sp + 1] = FlagsWord(c.flags)
  <2>1. m.sp = FrameAt(m, m.depth)
    BY <1>1, <1>2
  <2> QED
    BY <1>1, <2>1 DEF Good, FramesOK, FramesOn
<1>4. p = PcWord(c.pc).pc
  BY <1>3 DEF PcsAtTop
<1>5. t.sp = m.sp + 1 /\ t.stack = m.stack
  BY <1>1 DEF Machine
<1> HIDE DEF c
<1>6. f = FlagsWord(c.flags).flags
  <2>1. f \in FlagsAtTop(t)
    OBVIOUS
  <2> HIDE DEF t
  <2> QED
    BY <1>3, <1>5, <2>1 DEF FlagsAtTop
<1> QED
  BY <1>4, <1>6 DEF PcWord, FlagsWord, c

LEMMA GoodReturn ==
  ASSUME NEW m, Good(m), m.stopped = FALSE, m.faulted = FALSE, HasStackData(m, 2),
         m.depth = 0 \/ m.own = 0, NEW p \in Pcs, NEW f \in SUBSET Flag
  PROVE  Good(Resume(Drop(m, 2), p, f))
<1>1. MachineOK(m) /\ m \in Machine /\ m.sp \in Nat /\ m.depth \in Nat
  BY DEF Good, MachineOK, Machine
<1>2. PICK x : x = Drop(m, 2)
  OBVIOUS
<1>3. MachineOK(x) /\ x \in Machine
  BY <1>1, <1>2, DropOK DEF MachineOK
<1>4. /\ x.sp = m.sp + 2 /\ x.ctx = m.ctx /\ x.depth = m.depth /\ x.saved = m.saved
      /\ x.limit = m.limit /\ x.faulted = FALSE /\ x.stopped = FALSE
      /\ \A a \in SystemStack : a >= m.sp + 2 => x.stack[a] = m.stack[a]
  BY <1>1, <1>2, DropFields
<1>5. CASE m.depth = 0
  <2> DEFINE r == [x EXCEPT !.pc = p, !.flags = f]
  <2>1. /\ r \in Machine /\ r.ctx = x.ctx /\ r.depth = 0 /\ r.sp = x.sp /\ r.saved = x.saved
        /\ r.own = x.own /\ r.stack = x.stack /\ r.limit = x.limit /\ r.faulted = FALSE /\ r.stopped = FALSE
    BY <1>3, <1>4, <1>5 DEF Machine
  <2>2. Resume(x, p, f) = r
    BY <1>4, <1>5, <2>1 DEF Resume, LeaveInterrupt
  <2> HIDE DEF r
  <2>3. Good(x)
    <3>1. 2 \in Nat \ {0}
      OBVIOUS
    <3>2. Undisturbed => m.depth = 0 \/ m.own >= 2
      BY <1>5
    <3>3. Good(Drop(m, 2))
      BY <3>1, <3>2, GoodDrop
    <3> QED
      BY <1>2, <3>3
  <2>4. Good(r)
    BY <1>4, <1>5, <2>1, <2>3, GoodSameStack
  <2> QED
    BY <1>2, <2>2, <2>4
<1>6. CASE m.depth > 0
  <2>1. PICK r : r = Resume(x, p, f)
    OBVIOUS
  <2>2. MachineOK(r)
    BY <1>3, <2>1, ResumeOK
  <2>3. ~UnmappedStack => Separate(r)
    <3> SUFFICES ASSUME ~UnmappedStack PROVE Separate(r)
      OBVIOUS
    <3>1. Separate(x)
      BY <1>1, <1>4, <1>6, StackAssumption DEF Good, Separate, HasStackData
    <3> QED
      BY <1>3, <1>4, <1>6, <2>1, <3>1, SeparateResume
  <2>4. /\ r.depth = m.depth - 1 /\ r.ctx = SubSeq(m.ctx, 1, m.depth - 1)
        /\ r.own = m.ctx[m.depth].own /\ r.faulted = FALSE /\ r.stopped = FALSE
        /\ m.depth > 1 => r.sp = m.sp + 2 /\ r.stack = x.stack
    BY <1>1, <1>3, <1>4, <1>6, <2>1, ResumeFields
  <2>5. Undisturbed => FramesOK(r)
    BY <1>1, <1>4, <1>6, <2>4, FramesPop DEF Good
  <2> QED
    BY <1>2, <2>1, <2>2, <2>3, <2>4, <2>5 DEF Good
<1> QED
  BY <1>1, <1>5, <1>6

-----------------------------------------------------------------------------
(* Every action keeps the invariant.                                        *)

LEMMA InitOK == Init => IInv
<1> SUFFICES ASSUME Init PROVE IInv
  OBVIOUS
<1> DEFINE st == [a \in SystemStack |-> DataWord]
<1>1. st \in [SystemStack -> Word] /\ 1 \in Pcs
  BY WordTypes, TextAssumption DEF Pcs
<1>2. << >> \in Seq(Context) /\ Len(<< >>) = 0
  OBVIOUS
<1>3. {} \in SUBSET Flag /\ SystemFloor \in Nat /\ StackFloor \in Nat
  BY StackAssumption
<1>4. /\ cpu.pc = 1 /\ cpu.flags = {} /\ cpu.sp = SystemFloor /\ cpu.limit = StackFloor /\ cpu.depth = 0
      /\ cpu.stopped = FALSE /\ cpu.faulted = FALSE /\ cpu.ctx = << >>
  BY DEF Init
<1>5. cpu \in Machine
  <2> HIDE DEF st
  <2> DEFINE e == << >>  one == 1  zero == 0
  <2>1. cpu = [pc |-> one, flags |-> {}, sp |-> SystemFloor, limit |-> StackFloor, depth |-> zero,
               saved |-> zero, shadow |-> FALSE, stopped |-> FALSE, faulted |-> FALSE,
               stack |-> st, ctx |-> e, own |-> zero]
    BY DEF Init, st
  <2>2. one \in Pcs /\ zero \in Nat /\ zero \in Int /\ e \in Seq(Context)
    BY <1>1, <1>2
  <2> HIDE DEF e, one, zero
  <2> QED
    BY <1>1, <1>3, <2>1, <2>2 DEF Machine
<1>6. MachineOK(cpu) /\ Separate(cpu)
  BY <1>2, <1>4, <1>5, StackAssumption DEF MachineOK, Separate
<1>7. FramesOK(cpu)
  BY <1>2, <1>4 DEF FramesOK, FramesOn
<1>8. Good(cpu)
  BY <1>4, <1>6, <1>7 DEF Good
<1>9. /\ pending = {} /\ since = {} /\ late = {} /\ raises = 0 /\ consumed = 0 /\ seen = 0
      /\ phase = "poll" /\ shadowed = FALSE /\ afterSti = FALSE
  BY DEF Init
<1>10. TypeOK
  <2>1. pending \subseteq Numbers /\ since \subseteq Numbers /\ late \subseteq Numbers
    BY <1>9
  <2>2. raises \in 0 .. MaxRaises /\ consumed \in 0 .. MaxRaises /\ seen \in 0 .. MaxRaises
    <3>1. MaxRaises \in Nat
      BY BoundAssumption
    <3>2. raises = 0 /\ consumed = 0 /\ seen = 0
      BY <1>9
    <3> QED
      BY <3>1, <3>2
  <2>3. phase = "poll" /\ shadowed \in BOOLEAN /\ afterSti \in BOOLEAN
    BY <1>9
  <2> QED
    BY <1>5, <2>1, <2>2, <2>3 DEF TypeOK
<1> QED
  BY <1>4, <1>8, <1>9, <1>10 DEF IInv

LEMMA FetchedGood ==
  ASSUME IInv, phase = "run"
  PROVE  /\ Good(Fetched) /\ Fetched \in Machine
         /\ Fetched.faulted = FALSE /\ Fetched.stopped = FALSE
         /\ Fetched.sp = cpu.sp /\ Fetched.depth = cpu.depth /\ Fetched.limit = cpu.limit
         /\ Fetched.own = cpu.own /\ Fetched.flags = cpu.flags /\ Fetched.ctx = cpu.ctx
         /\ Fetched.saved = cpu.saved /\ Fetched.stack = cpu.stack /\ Fetched.pc = cpu.pc
<1> DEFINE r == Fetched
<1>1. Good(cpu) /\ cpu \in Machine /\ cpu.stopped = FALSE
  BY DEF IInv, Good, MachineOK
<1>2. /\ r \in Machine /\ r.ctx = cpu.ctx /\ r.depth = cpu.depth /\ r.sp = cpu.sp /\ r.saved = cpu.saved
      /\ r.own = cpu.own /\ r.stack = cpu.stack /\ r.limit = cpu.limit /\ r.faulted = FALSE
      /\ r.stopped = FALSE /\ r.flags = cpu.flags /\ r.pc = cpu.pc
  BY <1>1 DEF Fetched, Machine
<1> HIDE DEF r
<1>3. Good(r)
  BY <1>1, <1>2, GoodSameStack
<1> QED
  BY <1>2, <1>3 DEF r

LEMMA Retired ==
  ASSUME IInv, NEW m, Good(m), Retire(m)
  PROVE  IInv'
<1>1. cpu' = m /\ phase' = "poll"
  BY DEF Retire
<1>2. m \in Machine
  BY DEF Good, MachineOK
<1>3. TypeOK'
  BY <1>1, <1>2 DEF IInv, TypeOK, Retire
<1>4. Good(cpu')
  BY <1>1
<1> QED
  BY <1>1, <1>3, <1>4 DEF IInv, Retire, User

LEMMA StepHeadOK ==
  ASSUME IInv, EngineStep \/ WaitEnds \/ \E n \in Numbers : Raise(n)
  PROVE  IInv'
<1>1. Good(cpu) /\ cpu \in Machine /\ TypeOK
  BY DEF IInv, Good, MachineOK
<1>2. CASE \E n \in Numbers : Raise(n)
  <2>1. PICK n \in Numbers : Raise(n)
    BY <1>2
  <2>2. cpu' = cpu /\ phase' = phase /\ pending' = pending \cup {n} /\ User(n)
    BY <2>1 DEF Raise
  <2>3. TypeOK'
    BY <2>1, <1>1, BoundAssumption DEF Raise, TypeOK
  <2>4. Good(cpu')
    BY <1>1, <2>2
  <2> QED
    BY <2>2, <2>3, <2>4 DEF IInv, User
<1>3. CASE Poll
  <2> DEFINE r == [cpu EXCEPT !.shadow = FALSE]
  <2>1. /\ r \in Machine /\ r.ctx = cpu.ctx /\ r.depth = cpu.depth /\ r.sp = cpu.sp /\ r.saved = cpu.saved
        /\ r.own = cpu.own /\ r.stack = cpu.stack /\ r.limit = cpu.limit /\ r.faulted = cpu.faulted
        /\ r.stopped = cpu.stopped /\ r.flags = cpu.flags
    BY <1>1 DEF Machine
  <2>2. cpu' = r /\ phase' = "deliver" /\ pending' = pending
    BY <1>3 DEF Poll
  <2> HIDE DEF r
  <2>3. /\ r.faulted = TRUE => "Interrupt" \notin r.flags
        /\ r.stopped = TRUE => r.depth > 0 /\ "Halting" \in r.flags /\ r.sp < SystemFloor + 2
    BY <1>1, <2>1 DEF Good
  <2>4. Good(r)
    BY <1>1, <2>1, <2>3, GoodSameStack
  <2>5. TypeOK'
    BY <1>1, <1>3, <2>1, <2>2 DEF Poll, TypeOK, Machine
  <2> QED
    BY <2>2, <2>4, <2>5 DEF IInv, User
<1>4. CASE \E n \in Numbers : Deliver(n)
  <2>1. PICK n \in Numbers : Deliver(n)
    BY <1>4
  <2>2. cpu' = TriggerInterrupt(cpu, n) /\ phase' = "wake" /\ pending' = pending \ {n} /\ User(n)
    BY <2>1 DEF Deliver, Lowest, IInv
  <2>3. cpu.faulted = TRUE => ~Accepts(cpu, n)
    BY <1>1, <2>2 DEF Good, Accepts
  <2>4. Good(cpu')
    BY <1>1, <2>2, <2>3, GoodTrigger
  <2>5. TypeOK'
    BY <1>1, <2>1, <2>2, <2>4 DEF Deliver, TypeOK, Good, MachineOK
  <2> QED
    BY <2>2, <2>4, <2>5 DEF IInv, User
<1>5. CASE Awake
  <2>1. cpu' = cpu /\ phase' = "run" /\ pending' = pending
    BY <1>5 DEF Awake
  <2>2. cpu.stopped = FALSE
    BY <1>1, <1>5 DEF Awake, Good, Machine
  <2>3. TypeOK'
    BY <1>1, <1>5 DEF Awake, TypeOK
  <2> QED
    BY <1>1, <2>1, <2>2, <2>3 DEF IInv, User
<1>6. CASE Wake
  <2> DEFINE g == cpu.flags \ {"Halting"}
             r == [cpu EXCEPT !.flags = g]
  <2>1. cpu' = r /\ phase' = "run" /\ pending' = pending /\ cpu.stopped = FALSE
    BY <1>1, <1>6 DEF Wake, Machine
  <2>2. g \in SUBSET Flag /\ ("Interrupt" \in g <=> "Interrupt" \in cpu.flags)
    BY <1>1 DEF Machine
  <2> HIDE DEF g
  <2>3. /\ r \in Machine /\ r.ctx = cpu.ctx /\ r.depth = cpu.depth /\ r.sp = cpu.sp /\ r.saved = cpu.saved
        /\ r.own = cpu.own /\ r.stack = cpu.stack /\ r.limit = cpu.limit /\ r.faulted = cpu.faulted
        /\ r.stopped = FALSE /\ r.flags = g
    BY <1>1, <2>1, <2>2 DEF Machine
  <2> HIDE DEF r
  <2>4. r.faulted = TRUE => "Interrupt" \notin r.flags
    BY <1>1, <2>2, <2>3 DEF Good
  <2>5. Good(r)
    BY <1>1, <2>3, <2>4, GoodSameStack
  <2>6. TypeOK'
    BY <1>1, <1>6, <2>1, <2>3 DEF Wake, TypeOK
  <2> QED
    BY <2>1, <2>3, <2>5, <2>6 DEF IInv, User
<1>7. CASE NothingToDeliver \/ HaltedStep \/ WokenByRaise \/ WaitEnds
  <2>1. cpu' = cpu /\ phase' \in {"wake", "halted", "poll"} /\ pending' = pending
    BY <1>7 DEF NothingToDeliver, HaltedStep, WokenByRaise, WaitEnds
  <2>2. TypeOK'
    BY <1>1, <1>7 DEF NothingToDeliver, HaltedStep, WokenByRaise, WaitEnds, TypeOK
  <2> QED
    BY <1>1, <2>1, <2>2 DEF IInv, User
<1> QED
  BY <1>2, <1>3, <1>4, <1>5, <1>6, <1>7 DEF EngineStep

(* The instructions that change pc or the flags alone.                      *)
LEMMA GoodFlags ==
  ASSUME NEW m, Good(m), m.faulted = FALSE, m.stopped = FALSE, NEW g \in SUBSET Flag
  PROVE  Good([m EXCEPT !.flags = g])
<1> DEFINE r == [m EXCEPT !.flags = g]
<1>1. m \in Machine
  BY DEF Good, MachineOK
<1>2. /\ r \in Machine /\ r.ctx = m.ctx /\ r.depth = m.depth /\ r.sp = m.sp /\ r.saved = m.saved
      /\ r.own = m.own /\ r.stack = m.stack /\ r.limit = m.limit /\ r.faulted = FALSE /\ r.stopped = FALSE
  BY <1>1 DEF Machine
<1> HIDE DEF r
<1>3. Good(r)
  BY <1>2, GoodSameStack
<1> QED
  BY <1>3 DEF r

LEMMA GoodPc ==
  ASSUME NEW m, Good(m), m.faulted = FALSE, m.stopped = FALSE, NEW p \in Pcs
  PROVE  Good([m EXCEPT !.pc = p])
<1> DEFINE r == [m EXCEPT !.pc = p]
<1>1. m \in Machine
  BY DEF Good, MachineOK
<1>2. /\ r \in Machine /\ r.ctx = m.ctx /\ r.depth = m.depth /\ r.sp = m.sp /\ r.saved = m.saved
      /\ r.own = m.own /\ r.stack = m.stack /\ r.limit = m.limit /\ r.faulted = FALSE /\ r.stopped = FALSE
  BY <1>1 DEF Machine
<1> HIDE DEF r
<1>3. Good(r)
  BY <1>2, GoodSameStack
<1> QED
  BY <1>3 DEF r

LEMMA AdvanceFields ==
  ASSUME NEW m \in Machine, NEW r, r = AdvancePC(m)
  PROVE  r.faulted = m.faulted /\ r.stopped = m.stopped
BY DEF AdvancePC, Machine

LEMMA ControlOK ==
  ASSUME IInv, ControlInstruction
  PROVE  IInv'
<1> DEFINE F == Fetched
<1>1. phase = "run"
  BY DEF ControlInstruction, Jump, Cli, Sti, HaltSleeps, HaltGoesOn, Software, Fault, ResetInstruction, Retire
<1>2. Good(F) /\ F \in Machine /\ F.faulted = FALSE /\ F.stopped = FALSE /\ F.flags = cpu.flags
  BY <1>1, FetchedGood
<1>3. F.flags \in SUBSET Flag /\ "Halting" \in Flag /\ "Interrupt" \in Flag
  BY <1>2 DEF Machine, Flag
<1>4. CASE \E t \in Pcs : Jump(t)
  <2>1. PICK t \in Pcs : Jump(t)
    BY <1>4
  <2>2. Good([F EXCEPT !.pc = t])
    BY <1>2, GoodPc
  <2> QED
    BY <2>1, <2>2, Retired DEF Jump
<1>5. CASE Cli
  <2> DEFINE g == F.flags \ {"Interrupt"}
  <2>1. Good([F EXCEPT !.flags = g])
    BY <1>2, <1>3, GoodFlags
  <2>2. Good(AdvancePC([F EXCEPT !.flags = g]))
    BY <2>1, GoodAdvance
  <2> QED
    BY <1>5, <2>2, Retired DEF Cli
<1>6. CASE Sti
  <2> DEFINE g == F.flags \cup {"Interrupt"}
             r == [F EXCEPT !.flags = g, !.shadow = TRUE]
  <2>1. g \in SUBSET Flag
    BY <1>3
  <2>2. cpu' = AdvancePC(r) /\ phase' = "poll" /\ pending' = pending
    BY <1>6 DEF Sti
  <2> HIDE DEF g
  <2>3. /\ r \in Machine /\ r.ctx = F.ctx /\ r.depth = F.depth /\ r.sp = F.sp /\ r.saved = F.saved
        /\ r.own = F.own /\ r.stack = F.stack /\ r.limit = F.limit /\ r.faulted = FALSE /\ r.stopped = FALSE
    BY <1>2, <2>1 DEF Machine
  <2> HIDE DEF r
  <2>4. Good(r)
    BY <1>2, <2>3, GoodSameStack
  <2>5. Good(cpu')
    BY <2>2, <2>4, GoodAdvance
  <2>6. TypeOK'
    BY <1>6, <2>2, <2>5 DEF Sti, TypeOK, IInv, Good, MachineOK
  <2> QED
    BY <2>2, <2>5, <2>6 DEF IInv, User
<1>7. CASE HaltSleeps
  <2> DEFINE g == F.flags \cup {"Halting"}
  <2>1. Good([F EXCEPT !.flags = g])
    BY <1>2, <1>3, GoodFlags
  <2>2. Good(AdvancePC([F EXCEPT !.flags = g]))
    BY <2>1, GoodAdvance
  <2> QED
    BY <1>7, <2>2, Retired DEF HaltSleeps
<1>8. CASE HaltGoesOn
  <2>1. cpu' = AdvancePC(F) /\ phase' = "poll" /\ pending' = pending
    BY <1>8 DEF HaltGoesOn
  <2>2. Good(cpu')
    BY <1>2, <2>1, GoodAdvance
  <2>3. TypeOK'
    BY <1>8, <2>1, <2>2 DEF HaltGoesOn, TypeOK, IInv, Good, MachineOK
  <2> QED
    BY <2>1, <2>2, <2>3 DEF IInv, User
<1>9. CASE \E n \in Numbers : Software(n)
  <2>1. PICK n \in Numbers : Software(n)
    BY <1>9
  <2>2. Good(AdvancePC(F)) /\ AdvancePC(F).faulted = FALSE
    BY <1>2, GoodAdvance, AdvanceFields
  <2>3. Good(TriggerInterrupt(AdvancePC(F), n))
    BY <2>2, GoodTrigger
  <2> QED
    BY <2>1, <2>3, Retired DEF Software
<1>10. CASE \E n \in Numbers : Fault(n)
  <2>1. PICK n \in Numbers : Fault(n)
    BY <1>10
  <2>2. Good(TriggerInterrupt(F, n))
    BY <1>2, GoodTrigger
  <2> QED
    BY <2>1, <2>2, Retired DEF Fault
<1>11. CASE ResetInstruction
  <2>1. Good(TriggerInterrupt(F, Reset))
    BY <1>2, GoodTrigger, ReservedInUse
  <2> QED
    BY <1>11, <2>1, Retired DEF ResetInstruction
<1> QED
  BY <1>4, <1>5, <1>6, <1>7, <1>8, <1>9, <1>10, <1>11 DEF ControlInstruction

LEMMA PutWordsFields ==
  ASSUME NEW m \in Machine, NEW words \in Nat, NEW w \in Word, NEW r, r = PutWords(m, words, w)
  PROVE  r.faulted = m.faulted /\ r.stopped = m.stopped
BY DEF PutWords, Machine

(* A handler that owns what it pops leaves its frame alone.                 *)
LEMMA GoodPop ==
  ASSUME IInv, phase = "run", NEW words \in Nat \ {0}, HasStackData(cpu, words), MayPop(words)
  PROVE  /\ Good(Drop(Fetched, words)) /\ Drop(Fetched, words) \in Machine
         /\ Drop(Fetched, words).faulted = FALSE /\ Drop(Fetched, words).stopped = FALSE
<1>1. PICK F : F = Fetched
  OBVIOUS
<1>2. /\ Good(F) /\ F \in Machine /\ F.faulted = FALSE /\ F.stopped = FALSE
      /\ F.sp = cpu.sp /\ F.depth = cpu.depth /\ F.own = cpu.own
  BY <1>1, FetchedGood
<1>3. HasStackData(F, words)
  BY <1>2 DEF HasStackData
<1>4. Undisturbed => F.depth = 0 \/ F.own >= words
  BY <1>2 DEF MayPop, Undisturbed
<1>5. Good(Drop(F, words))
  BY <1>2, <1>3, <1>4, GoodDrop
<1>6. Drop(F, words) \in Machine
  BY <1>5 DEF Good, MachineOK
<1>7. Drop(F, words).faulted = FALSE /\ Drop(F, words).stopped = FALSE
  BY <1>2, DropFields
<1> QED
  BY <1>1, <1>5, <1>6, <1>7

LEMMA GoodPush ==
  ASSUME IInv, phase = "run", NEW words \in Nat \ {0}, NEW w \in Word, HasStackRoom(cpu, words)
  PROVE  /\ Good(PutWords(Fetched, words, w)) /\ PutWords(Fetched, words, w) \in Machine
         /\ PutWords(Fetched, words, w).faulted = FALSE /\ PutWords(Fetched, words, w).stopped = FALSE
<1>1. PICK F : F = Fetched
  OBVIOUS
<1>2. /\ Good(F) /\ F \in Machine /\ F.faulted = FALSE /\ F.stopped = FALSE
      /\ F.sp = cpu.sp /\ F.depth = cpu.depth /\ F.limit = cpu.limit
  BY <1>1, FetchedGood
<1>3. HasStackRoom(F, words)
  BY <1>2 DEF HasStackRoom
<1>4. Good(PutWords(F, words, w))
  BY <1>2, <1>3, GoodPutWords
<1>5. PutWords(F, words, w) \in Machine
  BY <1>4 DEF Good, MachineOK
<1>6. PutWords(F, words, w).faulted = FALSE /\ PutWords(F, words, w).stopped = FALSE
  BY <1>2, PutWordsFields
<1> QED
  BY <1>1, <1>4, <1>5, <1>6

(* A handler in progress still has its frame, so that only the program can  *)
(* run out of words to return with.                                         *)
LEMMA FrameIsThere ==
  ASSUME NEW m, Good(m), Undisturbed, m.depth > 0
  PROVE  HasStackData(m, 2)
<1>1. MachineOK(m) /\ m \in Machine /\ m.sp \in Nat /\ m.depth \in Nat /\ m.own \in Int
      /\ m.depth \in 1 .. m.depth
  BY DEF Good, MachineOK, Machine
<1>2. FrameAt(m, m.depth) \in Int /\ m.sp = FrameAt(m, m.depth) - m.own /\ m.own >= 0
  BY <1>1, FrameTypes DEF Good, FramesOK, FramesOn
<1>3. FrameAt(m, m.depth) + 1 \in SystemStack
  BY <1>1 DEF Good, FramesOK, FramesOn
<1>4. FrameAt(m, m.depth) + 1 <= MemTop - 1
  BY <1>3, StackAssumption DEF SystemStack
<1>5. m.sp + 2 <= MemTop
  BY <1>1, <1>2, <1>4, StackAssumption
<1> QED
  BY <1>5 DEF HasStackData

LEMMA StackOK ==
  ASSUME IInv, StackInstruction
  PROVE  IInv'
<1>1. phase = "run"
  BY DEF StackInstruction, Push, PushOverflows, Pop, PopUnderflows, PopFlags, Call, Return, Iret,
         IretUnderflows, PushPageFaults, CompareFaultsTwice, MoveSp, SetProgramStackLimit, Retire
<1>2. PICK F : F = Fetched
  OBVIOUS
<1>3. /\ Good(F) /\ F \in Machine /\ F.faulted = FALSE /\ F.stopped = FALSE
      /\ F.sp = cpu.sp /\ F.depth = cpu.depth /\ F.limit = cpu.limit /\ F.own = cpu.own
      /\ F.flags = cpu.flags /\ F.ctx = cpu.ctx /\ F.saved = cpu.saved /\ F.stack = cpu.stack
      /\ F.pc = cpu.pc
  BY <1>1, <1>2, FetchedGood
<1>4. F.pc \in Pcs /\ F.flags \in SUBSET Flag /\ F.sp \in Nat /\ F.depth \in Nat
  BY <1>3 DEF Machine
<1>5. \A words \in Nat \ {0}, w \in Word : Push(words, w) => IInv'
  <2> SUFFICES ASSUME NEW words \in Nat \ {0}, NEW w \in Word, Push(words, w) PROVE IInv'
    OBVIOUS
  <2>1. Good(PutWords(Fetched, words, w))
    BY <1>1, GoodPush DEF Push
  <2>2. Good(AdvancePC(PutWords(Fetched, words, w)))
    BY <2>1, GoodAdvance
  <2> QED
    BY <2>2, Retired DEF Push
<1>6. \A words : PushOverflows(words) \/ PopUnderflows(words) => IInv'
  <2> SUFFICES ASSUME NEW words, PushOverflows(words) \/ PopUnderflows(words) PROVE IInv'
    OBVIOUS
  <2>1. Good(TriggerInterrupt(F, StackOverflow))
    BY <1>3, GoodTrigger, ReservedInUse
  <2> QED
    BY <1>2, <2>1, Retired DEF PushOverflows, PopUnderflows
<1>7. \A words \in Nat \ {0} : Pop(words) => IInv'
  <2> SUFFICES ASSUME NEW words \in Nat \ {0}, Pop(words) PROVE IInv'
    OBVIOUS
  <2>1. Good(AdvancePC(Drop(Fetched, words)))
    BY <1>1, GoodPop, GoodAdvance DEF Pop
  <2> QED
    BY <2>1, Retired DEF Pop
<1>8. CASE PopFlags
  <2>1. PICK f \in FlagsAtTop(cpu) : Retire(AdvancePC([Drop(Fetched, 1) EXCEPT !.flags = f]))
    BY <1>8 DEF PopFlags
  <2>2. f \in SUBSET Flag
    BY <2>1, ReadOK DEF IInv, Good, MachineOK
  <2> DEFINE x == Drop(Fetched, 1)
  <2>3. Good(x) /\ x.faulted = FALSE /\ x.stopped = FALSE
    <3>1. 1 \in Nat \ {0}
      OBVIOUS
    <3> QED
      BY <1>1, <1>8, <3>1, GoodPop DEF PopFlags
  <2> HIDE DEF x
  <2>4. Good(AdvancePC([x EXCEPT !.flags = f]))
    BY <2>2, <2>3, GoodFlags, GoodAdvance
  <2> QED
    BY <2>1, <2>4, Retired DEF x
<1>9. CASE Return
  <2>1. PICK p \in PcsAtTop(cpu) : Retire([Drop(Fetched, 1) EXCEPT !.pc = p])
    BY <1>9 DEF Return
  <2>2. p \in Pcs
    BY <2>1, ReadOK DEF IInv, Good, MachineOK
  <2> DEFINE x == Drop(Fetched, 1)
  <2>3. Good(x) /\ x.faulted = FALSE /\ x.stopped = FALSE
    <3>1. 1 \in Nat \ {0}
      OBVIOUS
    <3> QED
      BY <1>1, <1>9, <3>1, GoodPop DEF Return
  <2> HIDE DEF x
  <2>4. Good([x EXCEPT !.pc = p])
    BY <2>2, <2>3, GoodPc
  <2> QED
    BY <2>1, <2>4, Retired DEF x
<1>10. CASE \E t \in Pcs : Call(t)
  <2>1. PICK t \in Pcs : Call(t)
    BY <1>10
  <2> DEFINE v == AdvancePC(F).pc
             w == PcWord(v)
             x == PutWords(Fetched, 1, w)
  <2>2. v \in Pcs
    <3>1. Good(AdvancePC(F))
      BY <1>3, GoodAdvance
    <3> QED
      BY <3>1 DEF Good, MachineOK, Machine
  <2>3. w \in Word
    BY <2>2, WordTypes
  <2>4. HasStackRoom(cpu, 1) /\ Retire([x EXCEPT !.pc = t])
    BY <1>2, <2>1 DEF Call
  <2> HIDE DEF v, w
  <2>5. Good(x) /\ x.faulted = FALSE /\ x.stopped = FALSE
    <3>1. 1 \in Nat \ {0}
      OBVIOUS
    <3> QED
      BY <1>1, <2>3, <2>4, <3>1, GoodPush
  <2> HIDE DEF x
  <2>6. Good([x EXCEPT !.pc = t])
    BY <2>5, GoodPc
  <2> QED
    BY <2>4, <2>6, Retired
<1>11. CASE Iret
  <2>1. PICK p \in PcsAtTop(cpu), f \in FlagsAtTop([cpu EXCEPT !.sp = @ + 1]) :
          Retire(Resume(Drop(Fetched, 2), p, f))
    BY <1>11 DEF Iret
  <2>2. cpu \in Machine /\ [cpu EXCEPT !.sp = @ + 1] \in Machine
    BY DEF IInv, Good, MachineOK, Machine
  <2>3. p \in Pcs /\ f \in SUBSET Flag
    BY <2>1, <2>2, ReadOK
  <2>4. HasStackData(F, 2) /\ (F.depth = 0 \/ F.own = 0)
    BY <1>3, <1>11 DEF Iret, MayReturn, HasStackData
  <2>5. Good(Resume(Drop(F, 2), p, f))
    BY <1>3, <2>3, <2>4, GoodReturn
  <2> QED
    BY <1>2, <2>1, <2>5, Retired
<1>12. CASE IretUnderflows
  <2> DEFINE x == IF HasStackData(cpu, 1) THEN Drop(Fetched, 1) ELSE Fetched
  <2>1. Good(x) /\ x.faulted = FALSE
    <3>1. CASE HasStackData(cpu, 1)
      <4>1. Undisturbed => F.depth = 0
        <5> SUFFICES ASSUME Undisturbed, F.depth # 0 PROVE FALSE
          OBVIOUS
        <5>1. HasStackData(F, 2)
          BY <1>3, <1>4, FrameIsThere
        <5> QED
          BY <1>3, <1>12, <5>1 DEF IretUnderflows, HasStackData
      <4>2. HasStackData(F, 1) /\ 1 \in Nat \ {0}
        BY <1>3, <3>1 DEF HasStackData
      <4>3. Good(Drop(F, 1))
        BY <1>3, <4>1, <4>2, GoodDrop
      <4>4. Drop(F, 1).faulted = FALSE
        BY <1>3, DropFields, 1 \in Nat
      <4> QED
        BY <1>2, <3>1, <4>3, <4>4
    <3>2. CASE ~HasStackData(cpu, 1)
      BY <1>2, <1>3, <3>2
    <3> QED
      BY <3>1, <3>2
  <2>2. Retire(TriggerInterrupt(x, StackOverflow))
    BY <1>12 DEF IretUnderflows
  <2> HIDE DEF x
  <2>3. Good(TriggerInterrupt(x, StackOverflow))
    BY <2>1, GoodTrigger, ReservedInUse
  <2> QED
    BY <2>2, <2>3, Retired
<1>13. CASE PushPageFaults
  <2> DEFINE low == F.sp - 1
             x == [F EXCEPT !.sp = low]
  <2>1. UnmappedStack /\ cpu.depth = 0 /\ HasStackRoom(cpu, 1) /\ Entered(x, PageFault)
        /\ Retire([TriggerInterrupt(x, PageFault) EXCEPT !.sp = cpu.sp])
    BY <1>2, <1>13 DEF PushPageFaults
  <2>2. low \in Nat
    <3>1. F.limit \in Nat /\ F.sp >= F.limit + 1
      BY <1>3, <2>1 DEF HasStackRoom, Machine
    <3> QED
      BY <1>4, <3>1
  <2> HIDE DEF low
  <2>3. MachineOK(x) /\ x.faulted = FALSE /\ x.stopped = FALSE
    BY <1>3, <2>2 DEF Good, MachineOK, Machine
  <2> HIDE DEF x
  <2>4. Good(x)
    BY <1>3, <2>1, <2>3 DEF Good, Undisturbed
  <2>5. PICK y : y = TriggerInterrupt(x, PageFault)
    OBVIOUS
  <2>6. y = EnterHandler(x, PageFault)
    BY <2>1, <2>5 DEF TriggerInterrupt, Entered
  <2>7. MachineOK(y) /\ y.stopped = FALSE /\ "Interrupt" \notin y.flags
    <3>1. x \in Machine
      BY <2>3 DEF MachineOK
    <3>2. MachineOK(y)
      BY <2>1, <2>3, <2>6, EnterOK, ReservedInUse
    <3>3. PageFault \in Numbers
      BY ReservedInUse
    <3>4. y.stopped = x.stopped
      BY <2>6, <3>1, <3>3, EnterFields
    <3>6. "Interrupt" \notin y.flags
      BY <2>6, <3>1, <3>3, EnterMasks
    <3> QED
      BY <2>3, <3>2, <3>4, <3>6
  <2> DEFINE z == [y EXCEPT !.sp = cpu.sp]
  <2>8. MachineOK(z) /\ z.stopped = FALSE /\ z.flags = y.flags
    BY <1>3, <1>4, <2>7 DEF MachineOK, Machine
  <2> HIDE DEF z
  <2>9. Good(z)
    BY <2>1, <2>7, <2>8 DEF Good, Undisturbed
  <2> QED
    BY <2>1, <2>5, <2>9, Retired DEF z
<1>14. CASE CompareFaultsTwice
  <2> DEFINE x == TriggerInterrupt(F, MemoryFault)
  <2>1. Good(x)
    BY <1>3, GoodTrigger, ReservedInUse
  <2>2. UnbackedCompare /\ Retire(TriggerInterrupt(x, MemoryFault))
    BY <1>2, <1>14 DEF CompareFaultsTwice
  <2> HIDE DEF x
  <2>3. Good(TriggerInterrupt(x, MemoryFault))
    BY <2>1, <2>2, GoodTrigger, ReservedInUse DEF Undisturbed
  <2> QED
    BY <2>2, <2>3, Retired
<1>15. CASE \E v \in StackFloor .. SystemFloor : MoveSp(v)
  <2>1. PICK v \in StackFloor .. SystemFloor : MoveSp(v)
    BY <1>15
  <2> DEFINE r == [F EXCEPT !.sp = v]
  <2>2. F.depth = 0 /\ Retire(AdvancePC(r))
    BY <1>2, <1>3, <2>1 DEF MoveSp
  <2>3. v \in Nat
    BY StackAssumption
  <2>4. /\ MachineOK(r) /\ r.depth = 0 /\ r.sp = v /\ r.limit = F.limit /\ r.ctx = F.ctx
        /\ r.faulted = FALSE /\ r.stopped = FALSE
    BY <1>3, <2>2, <2>3 DEF Good, MachineOK, Machine
  <2> HIDE DEF r
  <2>5. ~UnmappedStack => Separate(r)
    BY <1>3, <2>4 DEF Good, Separate
  <2>6. FramesOK(r)
    BY <2>4 DEF MachineOK, FramesOK, FramesOn
  <2>7. Good(r)
    BY <2>4, <2>5, <2>6 DEF Good
  <2>8. Good(AdvancePC(r))
    BY <2>7, GoodAdvance
  <2> QED
    BY <2>2, <2>8, Retired
<1>16. CASE \E l \in Limits : SetProgramStackLimit(l)
  <2>1. PICK l \in Limits : SetProgramStackLimit(l)
    BY <1>16
  <2> DEFINE b == IF l > StackFloor THEN l ELSE StackFloor
             r == [F EXCEPT !.limit = b]
  <2>2. Retire(AdvancePC(r))
    BY <1>2, <2>1 DEF SetProgramStackLimit
  <2>3. b \in Nat /\ b >= StackFloor
    BY StackAssumption
  <2> HIDE DEF b
  <2>4. /\ r \in Machine /\ r.ctx = F.ctx /\ r.depth = F.depth /\ r.sp = F.sp /\ r.saved = F.saved
        /\ r.own = F.own /\ r.stack = F.stack /\ r.limit = b /\ r.faulted = FALSE /\ r.stopped = FALSE
    BY <1>3, <2>3 DEF Machine
  <2> HIDE DEF r
  <2>5. Good(r)
    BY <1>3, <2>3, <2>4, GoodSameStack
  <2>6. Good(AdvancePC(r))
    BY <2>5, GoodAdvance
  <2> QED
    BY <2>2, <2>6, Retired
<1>17. FlagsWord(cpu.flags) \in Word /\ DataWord \in Word /\ 1 \in Nat \ {0}
  BY <1>3, <1>4, WordTypes
<1>18. 1 .. MaxWords \subseteq Nat \ {0}
  BY BoundAssumption
<1> QED
  BY <1>5, <1>6, <1>7, <1>8, <1>9, <1>10, <1>11, <1>12, <1>13, <1>14, <1>15, <1>16, <1>17, <1>18
     DEF StackInstruction

LEMMA StutterOK ==
  ASSUME IInv, UNCHANGED vars
  PROVE  IInv'
<1>1. cpu' = cpu /\ phase' = phase /\ pending' = pending
  BY DEF vars
<1>2. TypeOK'
  BY DEF IInv, vars, TypeOK
<1> QED
  BY <1>1, <1>2 DEF IInv, User

LEMMA StepOK ==
  ASSUME IInv, [Next]_vars
  PROVE  IInv'
BY StepHeadOK, ControlOK, StackOK, StutterOK DEF Next

(* The inductive invariant: on top of the properties below, the stack       *)
(* pointer saved on the way in is the outermost interrupted one, each       *)
(* frame stands below the last by the words its handler pushed, a faulted   *)
(* instruction has left Interrupt off, so that no request is taken before   *)
(* the flag is cleared, and a stopped machine is halted inside a handler.   *)
THEOREM InductiveInvariant == Spec => []IInv
<1>1. Init => IInv
  BY InitOK
<1>2. IInv /\ [Next]_vars => IInv'
  BY StepOK
<1> QED
  BY <1>1, <1>2, PTL DEF Spec

(* The machine stays in its types whatever the program and its devices do.  *)
THEOREM TypeCorrect == Spec => []TypeOK
<1>1. IInv => TypeOK
  BY DEF IInv
<1> QED
  BY <1>1, InductiveInvariant, PTL

(* Handlers on the system stack, the program on its own, in every machine   *)
(* whose program's stack is mapped (triggerInterrupt, leaveInterrupt): for  *)
(* any nesting, and even when handlers pop or return what is not theirs.    *)
THEOREM StacksSeparated == ~UnmappedStack => (Spec => []StackSeparation)
<1> SUFFICES ASSUME ~UnmappedStack PROVE Spec => []StackSeparation
  OBVIOUS
<1>1. IInv => StackSeparation
  <2> SUFFICES ASSUME IInv PROVE StackSeparation
    OBVIOUS
  <2>1. Separate(cpu) /\ cpu.depth \in Nat
    BY DEF IInv, Good, MachineOK, Machine
  <2> QED
    BY <2>1 DEF Separate, StackSeparation
<1> QED
  BY <1>1, InductiveInvariant, PTL

(* No saved frame is overwritten while its handler is in progress, when     *)
(* handlers balance their stacks and no fault is dispatched out of another. *)
THEOREM FramesStayIntact == Undisturbed => (Spec => []FramesIntact)
<1> SUFFICES ASSUME Undisturbed PROVE Spec => []FramesIntact
  OBVIOUS
<1>1. IInv => FramesIntact
  BY DEF IInv, Good, FramesOK, FramesIntact
<1> QED
  BY <1>1, InductiveInvariant, PTL

(* _stoppedForGood is final: a request that arrives afterwards meets the    *)
(* same lack of room and changes nothing, and no wake-up is granted.        *)
THEOREM StoppedStaysStopped == Spec => StoppedIsFinal
<1> DEFINE A == cpu.stopped =>
                  /\ cpu'.stopped /\ phase' # "run"
                  /\ cpu'.pc = cpu.pc /\ cpu'.sp = cpu.sp /\ cpu'.depth = cpu.depth
<1>1. IInv /\ [Next]_vars => [A]_vars
  <2> SUFFICES ASSUME IInv, Next, cpu.stopped PROVE A
    OBVIOUS
  <2>1. cpu \in Machine /\ Good(cpu) /\ cpu.stopped = TRUE
    BY DEF IInv, Good, MachineOK, Machine
  <2>2. phase # "run" /\ cpu.depth > 0 /\ "Halting" \in cpu.flags /\ cpu.sp < SystemFloor + 2
    BY <2>1 DEF IInv, Good
  <2>3. ~StackInstruction /\ ~ControlInstruction
    BY <2>2 DEF StackInstruction, Push, PushOverflows, Pop, PopUnderflows, PopFlags, Call, Return, Iret,
         IretUnderflows, PushPageFaults, CompareFaultsTwice, MoveSp, SetProgramStackLimit, Retire,
         ControlInstruction, Jump, Cli, Sti, HaltSleeps, HaltGoesOn, Software, Fault, ResetInstruction
  <2>4. CASE \E n \in Numbers : Raise(n)
    BY <2>1, <2>2, <2>4 DEF Raise
  <2>5. CASE Poll
    <3> DEFINE r == [cpu EXCEPT !.shadow = FALSE]
    <3>1. cpu' = r /\ phase' = "deliver"
      BY <2>5 DEF Poll
    <3>2. r.stopped = TRUE /\ r.pc = cpu.pc /\ r.sp = cpu.sp /\ r.depth = cpu.depth
      BY <2>1 DEF Machine
    <3> HIDE DEF r
    <3> QED
      BY <3>1, <3>2
  <2>6. CASE \E n \in Numbers : Deliver(n)
    <3>1. PICK n \in Numbers : Deliver(n)
      BY <2>6
    <3>2. cpu' = TriggerInterrupt(cpu, n) /\ phase' = "wake"
      BY <3>1 DEF Deliver
    <3>3. ~Fits(cpu)
      <4>1. Switch(cpu).sp = cpu.sp /\ Switch(cpu).depth = cpu.depth + 1
        BY <2>1, <2>2, SwitchOK
      <4>2. cpu.depth \in Nat /\ cpu.sp \in Nat
        BY <2>1 DEF Machine
      <4> QED
        BY <2>2, <4>1, <4>2, StackAssumption DEF Fits, HasStackRoom
    <3>4. CASE ~Accepts(cpu, n)
      BY <2>1, <3>2, <3>4 DEF TriggerInterrupt
    <3>5. CASE Accepts(cpu, n)
      <4> DEFINE g == cpu.flags \cup {"Halting"}
                 r == [cpu EXCEPT !.flags = g, !.stopped = TRUE]
      <4>1. StopForGood(cpu) = r
        BY <2>1, <3>3, StopIs DEF Good
      <4>2. r.stopped = TRUE /\ r.pc = cpu.pc /\ r.sp = cpu.sp /\ r.depth = cpu.depth
        BY <2>1 DEF Machine
      <4> HIDE DEF r
      <4>3. cpu' = r
        BY <3>2, <3>3, <3>5, <4>1 DEF TriggerInterrupt
      <4> QED
        BY <3>2, <4>2, <4>3
    <3> QED
      BY <3>4, <3>5
  <2>7. CASE NothingToDeliver \/ HaltedStep \/ WokenByRaise \/ WaitEnds
    BY <2>1, <2>7 DEF NothingToDeliver, HaltedStep, WokenByRaise, WaitEnds
  <2>8. CASE Awake \/ Wake
    BY <2>1, <2>2, <2>8 DEF Awake, Wake
  <2> QED
    BY <2>3, <2>4, <2>5, <2>6, <2>7, <2>8 DEF Next, EngineStep
<1> QED
  BY <1>1, InductiveInvariant, PTL DEF Spec, StoppedIsFinal

-----------------------------------------------------------------------------
(* Leaving a handler.                                                       *)

LEMMA TriggerDepth ==
  ASSUME NEW m, Good(m), NEW n \in Numbers
  PROVE  TriggerInterrupt(m, n).depth >= m.depth
<1>1. MachineOK(m) /\ m \in Machine /\ m.depth \in Nat
  BY DEF Good, MachineOK, Machine
<1>2. PICK r : r = TriggerInterrupt(m, n)
  OBVIOUS
<1>3. CASE ~Accepts(m, n)
  BY <1>1, <1>3 DEF TriggerInterrupt
<1>4. CASE Accepts(m, n) /\ Fits(m)
  <2>1. r = EnterHandler(m, n)
    BY <1>2, <1>4 DEF TriggerInterrupt
  <2>2. r.depth = Switch(m).depth
    BY <1>1, <2>1, EnterFields
  <2>3. Switch(m).depth = m.depth + 1
    BY <1>1, SwitchOK
  <2> QED
    BY <1>1, <1>2, <2>2, <2>3
<1>5. CASE Accepts(m, n) /\ ~Fits(m)
  <2> DEFINE g == m.flags \cup {"Halting"}
  <2>1. r = [m EXCEPT !.flags = g, !.stopped = TRUE]
    BY <1>1, <1>2, <1>5, StopIs DEF TriggerInterrupt
  <2> HIDE DEF g
  <2>2. r.depth = m.depth
    BY <1>1, <2>1 DEF Machine
  <2> QED
    BY <1>1, <1>2, <2>2
<1> QED
  BY <1>3, <1>4, <1>5

LEMMA MovesDepth ==
  ASSUME NEW m \in Machine
  PROVE  /\ AdvancePC(m).depth = m.depth
         /\ \A words, w : PutWords(m, words, w).depth = m.depth
         /\ \A words : Drop(m, words).depth = m.depth
BY DEF AdvancePC, PutWords, Drop, Machine

(* No step but an IRET takes the machine out of a handler.                  *)
LEMMA OnlyIretLeaves ==
  ASSUME IInv, Next, ~Iret
  PROVE  cpu'.depth >= cpu.depth
<1>1. Good(cpu) /\ cpu \in Machine /\ cpu.depth \in Nat
  BY DEF IInv, Good, MachineOK, Machine
<1>2. CASE (\E n \in Numbers : Raise(n)) \/ EngineStep \/ WaitEnds
  <2>1. CASE cpu' = cpu
    BY <1>1, <2>1
  <2>2. CASE Poll
    BY <1>1, <2>2 DEF Poll, Machine
  <2>3. CASE \E n \in Numbers : Deliver(n)
    BY <1>1, <2>3, TriggerDepth DEF Deliver
  <2>4. CASE Wake
    BY <1>1, <2>4 DEF Wake, Machine
  <2> QED
    BY <1>2, <2>1, <2>2, <2>3, <2>4
       DEF EngineStep, Raise, NothingToDeliver, Awake, HaltedStep, WokenByRaise, WaitEnds
<1>3. CASE phase = "run" /\ (StackInstruction \/ ControlInstruction)
  <2>1. PICK F : F = Fetched
    OBVIOUS
  <2>2. Good(F) /\ F \in Machine /\ F.depth = cpu.depth
    BY <1>3, <2>1, FetchedGood
  <2>3. Good(AdvancePC(F)) /\ AdvancePC(F).depth = cpu.depth
    BY <2>2, GoodAdvance, MovesDepth
  <2>4. \A n \in Numbers : Software(n) \/ Fault(n) => cpu'.depth >= cpu.depth
    <3> SUFFICES ASSUME NEW n \in Numbers, Software(n) \/ Fault(n) PROVE cpu'.depth >= cpu.depth
      OBVIOUS
    <3>1. CASE Software(n)
      <4>1. cpu' = TriggerInterrupt(AdvancePC(F), n)
        BY <2>1, <3>1 DEF Software, Retire
      <4> QED
        BY <2>3, <4>1, TriggerDepth
    <3>2. CASE Fault(n)
      <4>1. cpu' = TriggerInterrupt(F, n)
        BY <2>1, <3>2 DEF Fault, Retire
      <4> QED
        BY <2>2, <4>1, TriggerDepth
    <3> QED
      BY <3>1, <3>2
  <2>5. CASE ResetInstruction \/ (\E k : PushOverflows(k) \/ PopUnderflows(k))
    <3>1. PICK n \in Numbers : cpu' = TriggerInterrupt(F, n)
      BY <2>1, <2>5, ReservedInUse DEF ResetInstruction, PushOverflows, PopUnderflows, Retire
    <3> QED
      BY <2>2, <3>1, TriggerDepth
  <2>6. CASE (\E t \in Pcs : Jump(t)) \/ Cli \/ Sti \/ HaltSleeps \/ HaltGoesOn
    <3>1. \A m \in Machine : AdvancePC(m).depth = m.depth
      BY MovesDepth
    <3>2. CASE \E t \in Pcs : Jump(t)
      BY <1>1, <2>1, <2>2, <3>2 DEF Jump, Retire, Machine
    <3>3. CASE Cli \/ HaltSleeps
      <4>1. PICK g \in SUBSET Flag : cpu' = AdvancePC([F EXCEPT !.flags = g])
        <5>1. F.flags \in SUBSET Flag
          BY <2>2 DEF Machine
        <5> QED
          BY <2>1, <3>3, <5>1 DEF Cli, HaltSleeps, Retire, Flag
      <4>2. [F EXCEPT !.flags = g] \in Machine /\ [F EXCEPT !.flags = g].depth = F.depth
        BY <2>2 DEF Machine
      <4>3. PICK y \in Machine : y = [F EXCEPT !.flags = g] /\ y.depth = F.depth
        BY <4>2
      <4>4. cpu' = AdvancePC(y)
        BY <4>1, <4>3
      <4>5. AdvancePC(y).depth = y.depth
        BY <3>1
      <4> QED
        BY <1>1, <2>2, <4>3, <4>4, <4>5
    <3>4. CASE Sti
      <4> DEFINE g == F.flags \cup {"Interrupt"}
                 r == [F EXCEPT !.flags = g, !.shadow = TRUE]
      <4>1. g \in SUBSET Flag
        BY <2>2 DEF Machine, Flag
      <4>2. cpu' = AdvancePC(r)
        BY <2>1, <3>4 DEF Sti
      <4> HIDE DEF g
      <4>3. r \in Machine /\ r.depth = F.depth
        BY <2>2, <4>1 DEF Machine
      <4> HIDE DEF r
      <4> QED
        BY <1>1, <2>2, <3>1, <4>2, <4>3
    <3>5. CASE HaltGoesOn
      BY <1>1, <2>1, <2>3, <3>5 DEF HaltGoesOn
    <3> QED
      BY <2>6, <3>2, <3>3, <3>4, <3>5
  <2>7. \A k \in Nat \ {0}, w \in Word : Push(k, w) => cpu'.depth >= cpu.depth
    <3> SUFFICES ASSUME NEW k \in Nat \ {0}, NEW w \in Word, Push(k, w) PROVE cpu'.depth >= cpu.depth
      OBVIOUS
    <3>1. PutWords(Fetched, k, w) \in Machine
      BY <1>3, GoodPush DEF Push
    <3> QED
      BY <1>1, <2>1, <2>2, <3>1, MovesDepth DEF Push, Retire
  <2>8. \A k \in Nat \ {0} : Pop(k) => cpu'.depth >= cpu.depth
    <3> SUFFICES ASSUME NEW k \in Nat \ {0}, Pop(k) PROVE cpu'.depth >= cpu.depth
      OBVIOUS
    <3>1. Drop(Fetched, k) \in Machine
      BY <1>3, GoodPop DEF Pop
    <3> QED
      BY <1>1, <2>1, <2>2, <3>1, MovesDepth DEF Pop, Retire
  <2>9. CASE PopFlags
    <3>1. PICK f \in SUBSET Flag : cpu' = AdvancePC([Drop(F, 1) EXCEPT !.flags = f])
      <4>1. FlagsAtTop(cpu) \subseteq SUBSET Flag
        BY <1>1, ReadOK
      <4> QED
        BY <2>1, <2>9, <4>1 DEF PopFlags, Retire
    <3>2. Drop(F, 1) \in Machine /\ Drop(F, 1).depth = cpu.depth
      <4>1. 1 \in Nat \ {0}
        OBVIOUS
      <4> QED
        BY <1>3, <2>1, <2>2, <2>9, <4>1, GoodPop, MovesDepth DEF PopFlags
    <3>3. PICK x : x = Drop(F, 1)
      OBVIOUS
    <3>4. [x EXCEPT !.flags = f] \in Machine /\ [x EXCEPT !.flags = f].depth = x.depth
      BY <3>2, <3>3 DEF Machine
    <3>5. cpu' = AdvancePC([x EXCEPT !.flags = f])
      BY <3>1, <3>3
    <3>6. PICK y \in Machine : y = [x EXCEPT !.flags = f] /\ y.depth = cpu.depth
      BY <3>2, <3>3, <3>4
    <3>7. cpu' = AdvancePC(y)
      BY <3>5, <3>6
    <3>8. AdvancePC(y).depth = y.depth
      BY MovesDepth
    <3> QED
      BY <1>1, <3>6, <3>7, <3>8
  <2>10. CASE Return
    <3>1. PICK p : cpu' = [Drop(F, 1) EXCEPT !.pc = p]
      BY <2>1, <2>10 DEF Return, Retire
    <3>2. PICK x : x = Drop(F, 1)
      OBVIOUS
    <3>3. x \in Machine /\ x.depth = cpu.depth
      <4>1. 1 \in Nat \ {0}
        OBVIOUS
      <4> QED
        BY <1>3, <2>1, <2>2, <2>10, <3>2, <4>1, GoodPop, MovesDepth DEF Return
    <3> QED
      BY <1>1, <3>1, <3>2, <3>3 DEF Machine
  <2>11. CASE \E t \in Pcs : Call(t)
    <3>1. PICK w, t : cpu' = [PutWords(F, 1, w) EXCEPT !.pc = t]
      BY <2>1, <2>11 DEF Call, Retire
    <3>2. "depth" \in DOMAIN PutWords(F, 1, w) /\ PutWords(F, 1, w).depth = cpu.depth
      BY <2>2 DEF PutWords, Machine
    <3>3. PICK x : x = PutWords(F, 1, w)
      OBVIOUS
    <3> QED
      BY <1>1, <3>1, <3>2, <3>3
  <2>12. CASE IretUnderflows
    <3>1. PICK x : x = (IF HasStackData(cpu, 1) THEN Drop(F, 1) ELSE F)
      OBVIOUS
    <3>2. cpu' = TriggerInterrupt(x, StackOverflow)
      BY <2>1, <2>12, <3>1 DEF IretUnderflows, Retire
    <3>3. Good(x) /\ x.depth = cpu.depth
      <4>1. CASE HasStackData(cpu, 1)
        <5>1. Undisturbed => F.depth = 0
          <6> SUFFICES ASSUME Undisturbed, F.depth # 0 PROVE FALSE
            OBVIOUS
          <6>1. HasStackData(F, 2)
            BY <1>1, <2>2, FrameIsThere
          <6> QED
            BY <1>3, <2>1, <2>2, <2>12, <6>1, FetchedGood DEF IretUnderflows, HasStackData
        <5>2. HasStackData(F, 1) /\ 1 \in Nat \ {0} /\ F.stopped = FALSE
          <6>1. F.sp = cpu.sp /\ F.depth = cpu.depth /\ F.stopped = FALSE
            BY <1>3, <2>1, FetchedGood
          <6> QED
            BY <4>1, <6>1 DEF HasStackData
        <5>3. Good(Drop(F, 1))
          BY <2>2, <5>1, <5>2, GoodDrop
        <5> QED
          BY <2>2, <3>1, <4>1, <5>3, MovesDepth
      <4>2. CASE ~HasStackData(cpu, 1)
        BY <2>2, <3>1, <4>2
      <4> QED
        BY <4>1, <4>2
    <3> QED
      BY <3>2, <3>3, TriggerDepth, ReservedInUse
  <2>13. CASE PushPageFaults
    <3>1. cpu.depth = 0
      BY <2>13 DEF PushPageFaults
    <3>2. cpu' \in Machine
      BY <1>3, StackOK, <2>13 DEF StackInstruction, IInv, TypeOK
    <3>3. cpu'.depth \in Nat
      BY <3>2 DEF Machine
    <3> QED
      BY <3>1, <3>3
  <2>14. CASE CompareFaultsTwice
    <3>1. PICK x : x = TriggerInterrupt(F, MemoryFault)
      OBVIOUS
    <3>2. cpu' = TriggerInterrupt(x, MemoryFault) /\ UnbackedCompare
      BY <2>1, <2>14, <3>1 DEF CompareFaultsTwice, Retire
    <3>3. Good(x) /\ F.faulted = FALSE
      BY <1>3, <2>1, <2>2, <3>1, FetchedGood, GoodTrigger, ReservedInUse
    <3>4. x.depth >= cpu.depth /\ cpu'.depth >= x.depth
      BY <2>2, <3>1, <3>2, <3>3, TriggerDepth, ReservedInUse
    <3>5. x.depth \in Nat /\ cpu'.depth \in Nat
      <4>1. Good(TriggerInterrupt(x, MemoryFault))
        BY <3>2, <3>3, GoodTrigger, ReservedInUse DEF Undisturbed
      <4> QED
        BY <3>2, <3>3, <4>1 DEF Good, MachineOK, Machine
    <3> QED
      BY <1>1, <3>4, <3>5
  <2>15. CASE (\E v \in StackFloor .. SystemFloor : MoveSp(v)) \/ (\E l \in Limits : SetProgramStackLimit(l))
    <3>1. PICK x \in Machine : cpu' = AdvancePC(x) /\ x.depth = cpu.depth
      <4>1. CASE \E v \in StackFloor .. SystemFloor : MoveSp(v)
        <5>1. PICK v \in StackFloor .. SystemFloor : cpu' = AdvancePC([F EXCEPT !.sp = v])
          BY <2>1, <4>1 DEF MoveSp, Retire
        <5>2. v \in Nat
          BY StackAssumption
        <5>3. [F EXCEPT !.sp = v] \in Machine /\ [F EXCEPT !.sp = v].depth = cpu.depth
          BY <2>2, <5>2 DEF Machine
        <5> QED
          BY <5>1, <5>3
      <4>2. CASE \E l \in Limits : SetProgramStackLimit(l)
        <5>1. PICK l \in Nat : cpu' = AdvancePC([F EXCEPT !.limit = l])
          BY <2>1, <4>2, StackAssumption DEF SetProgramStackLimit, Retire
        <5>3. [F EXCEPT !.limit = l] \in Machine /\ [F EXCEPT !.limit = l].depth = cpu.depth
          BY <2>2 DEF Machine
        <5> QED
          BY <5>1, <5>3
      <4> QED
        BY <2>15, <4>1, <4>2
    <3> QED
      BY <1>1, <3>1, MovesDepth
  <2>16. FlagsWord(cpu.flags) \in Word /\ DataWord \in Word /\ 1 \in Nat \ {0}
    BY <1>1, WordTypes DEF Machine
  <2>17. 1 .. MaxWords \subseteq Nat \ {0}
    BY BoundAssumption
  <2> QED
    BY <1>3, <2>4, <2>5, <2>6, <2>7, <2>8, <2>9, <2>10, <2>11, <2>12, <2>13, <2>14, <2>15, <2>16, <2>17
       DEF StackInstruction, ControlInstruction
<1>4. StackInstruction \/ ControlInstruction => phase = "run"
  BY DEF StackInstruction, Push, PushOverflows, Pop, PopUnderflows, PopFlags, Call, Return, Iret,
         IretUnderflows, PushPageFaults, CompareFaultsTwice, MoveSp, SetProgramStackLimit, Retire,
         ControlInstruction, Jump, Cli, Sti, HaltSleeps, HaltGoesOn, Software, Fault, ResetInstruction
<1> QED
  BY <1>2, <1>3, <1>4 DEF Next

(* What an IRET out of a handler is, with the words it finds.               *)
LEMMA IretOut ==
  ASSUME IInv, Iret, cpu.depth > 0
  PROVE  \E m \in Machine, x \in Machine, p \in Pcs, f \in SUBSET Flag :
           /\ m = Fetched /\ Good(m) /\ x = Drop(m, 2) /\ MachineOK(x)
           /\ m.ctx = cpu.ctx /\ m.depth = cpu.depth /\ m.own = 0 /\ m.sp = cpu.sp /\ m.saved = cpu.saved
           /\ x.ctx = cpu.ctx /\ x.depth = cpu.depth /\ x.sp = cpu.sp + 2 /\ x.saved = cpu.saved
           /\ p \in PcsAtTop(m) /\ f \in FlagsAtTop([m EXCEPT !.sp = @ + 1])
           /\ cpu' = Resume(x, p, f)
<1>1. phase = "run" /\ cpu.own = 0 /\ cpu.depth \in Nat /\ cpu.depth # 0
  BY DEF Iret, Retire, MayReturn, IInv, Good, MachineOK, Machine
<1>2. PICK m : m = Fetched
  OBVIOUS
<1>3. /\ Good(m) /\ m \in Machine /\ MachineOK(m) /\ m.ctx = cpu.ctx /\ m.depth = cpu.depth /\ m.own = 0
      /\ m.sp = cpu.sp /\ m.saved = cpu.saved /\ m.stack = cpu.stack
  BY <1>1, <1>2, FetchedGood DEF Good
<1>4. PICK p \in PcsAtTop(cpu), f \in FlagsAtTop([cpu EXCEPT !.sp = @ + 1]) :
        cpu' = Resume(Drop(m, 2), p, f)
  BY <1>2 DEF Iret, Retire
<1>5. PICK u, v : u = [cpu EXCEPT !.sp = @ + 1] /\ v = [m EXCEPT !.sp = @ + 1]
  OBVIOUS
<1>6. u \in Machine /\ u.sp = v.sp /\ u.stack = v.stack
  BY <1>3, <1>5 DEF IInv, Good, MachineOK, Machine
<1>7. p \in PcsAtTop(m) /\ f \in FlagsAtTop(v)
  BY <1>3, <1>4, <1>5, <1>6 DEF PcsAtTop, FlagsAtTop
<1>8. p \in Pcs /\ f \in SUBSET Flag
  <2>1. PcsAtTop(cpu) \subseteq Pcs
    BY ReadOK DEF IInv, Good, MachineOK
  <2>2. FlagsAtTop(u) \subseteq SUBSET Flag
    BY <1>6, ReadOK
  <2> QED
    BY <1>4, <1>5, <2>1, <2>2
<1>9. PICK x : x = Drop(m, 2)
  OBVIOUS
<1>10. MachineOK(x) /\ x \in Machine
  BY <1>3, <1>9, DropOK, 2 \in Nat DEF MachineOK
<1>11. x.ctx = cpu.ctx /\ x.depth = cpu.depth /\ x.sp = cpu.sp + 2 /\ x.saved = cpu.saved
  BY <1>3, <1>9, DropFields, 2 \in Nat
<1> QED
  BY <1>2, <1>3, <1>4, <1>5, <1>7, <1>8, <1>9, <1>10, <1>11

(* However a handler treats the system stack, the program's sp comes back   *)
(* as it was when the outermost interrupt took it.                          *)
THEOREM StackPointerComesBack == ~UnmappedStack => (Spec => ProgramStackRestored)
<1> SUFFICES ASSUME ~UnmappedStack PROVE Spec => ProgramStackRestored
  OBVIOUS
<1> DEFINE A == cpu.depth > 0 /\ cpu'.depth = 0 => cpu'.sp = cpu.ctx[1].sp
<1>1. IInv /\ [Next]_vars => [A]_vars
  <2> SUFFICES ASSUME IInv, Next, cpu.depth > 0, cpu'.depth = 0 PROVE cpu'.sp = cpu.ctx[1].sp
    OBVIOUS
  <2>1. cpu.depth \in Nat /\ cpu.saved = cpu.ctx[1].sp
    BY DEF IInv, Good, MachineOK, Machine, Separate
  <2>2. Iret /\ cpu.depth > 0
    BY <2>1, OnlyIretLeaves
  <2>3. PICK x \in Machine, p \in Pcs, f \in SUBSET Flag :
          /\ MachineOK(x) /\ x.depth = cpu.depth /\ x.saved = cpu.saved
          /\ cpu' = Resume(x, p, f)
    BY <2>2, IretOut
  <2>4. cpu'.depth = x.depth - 1 /\ cpu'.sp = (IF x.depth = 1 THEN x.saved ELSE x.sp)
    <3>1. x.depth > 0
      BY <2>2, <2>3
    <3>2. PICK r : r = Resume(x, p, f)
      OBVIOUS
    <3>3. r.depth = x.depth - 1 /\ r.sp = (IF x.depth = 1 THEN x.saved ELSE x.sp)
      BY <2>3, <3>1, <3>2, ResumeFields
    <3> QED
      BY <2>3, <3>2, <3>3
  <2> QED
    BY <2>1, <2>3, <2>4
<1> QED
  BY <1>1, InductiveInvariant, PTL DEF Spec, ProgramStackRestored

(* IRET gives back exactly the interrupted pc, flags and stack pointer, to  *)
(* any depth of nesting.                                                    *)
THEOREM IretIsExact == Undisturbed => (Spec => IretResumes)
<1> SUFFICES ASSUME Undisturbed PROVE Spec => IretResumes
  OBVIOUS
<1> DEFINE A == Len(cpu'.ctx) < Len(cpu.ctx) =>
                  LET c == cpu.ctx[Len(cpu.ctx)]
                  IN  /\ cpu'.pc = c.pc /\ cpu'.flags = c.flags /\ cpu'.sp = c.sp
                      /\ cpu'.depth = Len(cpu.ctx) - 1
<1>1. IInv /\ [Next]_vars => [A]_vars
  <2> SUFFICES ASSUME IInv, Next, Len(cpu'.ctx) < Len(cpu.ctx)
               PROVE  /\ cpu'.pc = cpu.ctx[Len(cpu.ctx)].pc /\ cpu'.flags = cpu.ctx[Len(cpu.ctx)].flags
                      /\ cpu'.sp = cpu.ctx[Len(cpu.ctx)].sp /\ cpu'.depth = Len(cpu.ctx) - 1
    OBVIOUS
  <2>1. cpu.depth \in Nat /\ Len(cpu.ctx) = cpu.depth /\ Good(cpu) /\ MachineOK(cpu)
    BY DEF IInv, Good, MachineOK, Machine
  <2>2. Len(cpu'.ctx) = cpu'.depth /\ cpu'.depth \in Nat
    BY StepOK DEF IInv, Good, MachineOK, Machine
  <2>3. Iret /\ cpu.depth > 0 /\ cpu.depth \in 1 .. cpu.depth
    BY <2>1, <2>2, OnlyIretLeaves
  <2>4. PICK m \in Machine, x \in Machine, p \in Pcs, f \in SUBSET Flag :
           /\ Good(m) /\ MachineOK(x)
           /\ m.ctx = cpu.ctx /\ m.depth = cpu.depth /\ m.own = 0 /\ m.sp = cpu.sp /\ m.saved = cpu.saved
           /\ x.depth = cpu.depth /\ x.sp = cpu.sp + 2 /\ x.saved = cpu.saved
           /\ p \in PcsAtTop(m) /\ f \in FlagsAtTop([m EXCEPT !.sp = @ + 1])
           /\ cpu' = Resume(x, p, f)
    BY <2>3, IretOut
  <2>5. p = cpu.ctx[cpu.depth].pc /\ f = cpu.ctx[cpu.depth].flags
    <3>1. m.depth > 0
      BY <2>3, <2>4
    <3> QED
      BY <2>4, <3>1, IretReadsFrame
  <2>6. cpu'.pc = p /\ cpu'.flags = f
    BY <2>3, <2>4, ResumeFields
  <2>7. cpu'.depth = cpu.depth - 1
    BY <2>3, <2>4, ResumeFields
  <2>8. cpu'.sp = (IF cpu.depth = 1 THEN cpu.saved ELSE cpu.sp + 2)
    <3>1. cpu'.sp = (IF x.depth = 1 THEN x.saved ELSE x.sp)
      BY <2>3, <2>4, ResumeFields
    <3> QED
      BY <2>4, <3>1
  <2>9. cpu'.sp = cpu.ctx[cpu.depth].sp
    <3>1. CASE cpu.depth = 1
      <4>1. cpu.saved = cpu.ctx[1].sp
        BY <2>1, <2>3 DEF Good, Separate, Undisturbed
      <4> QED
        BY <2>8, <3>1, <4>1
    <3>2. CASE cpu.depth > 1
      <4>1. cpu.own = 0
        BY <2>3 DEF Iret, MayReturn
      <4>2. cpu.sp = FrameAt(cpu, cpu.depth) - 0
        BY <2>1, <2>3, <4>1 DEF Good, FramesOK, FramesOn
      <4>3. cpu.ctx[cpu.depth].sp \in Nat
        BY <2>1, <2>3, FrameTypes
      <4>4. FrameAt(cpu, cpu.depth) = cpu.ctx[cpu.depth].sp - 2
        BY <2>1, <3>2 DEF FrameAt
      <4> QED
        BY <2>1, <2>8, <3>2, <4>2, <4>3, <4>4
    <3> QED
      BY <2>1, <2>3, <3>1, <3>2
  <2> QED
    BY <2>1, <2>5, <2>6, <2>7, <2>9
<1> QED
  BY <1>1, InductiveInvariant, PTL DEF Spec, IretResumes

-----------------------------------------------------------------------------
(* Requests, wake-ups and the shadow of STI.                                *)

(* What every instruction but STI and a HALT that goes on leaves of the     *)
(* state outside the machine.                                               *)
LEMMA InstructionRetires ==
  ASSUME StackInstruction \/ ControlInstruction
  PROVE  /\ phase = "run" /\ phase' = "poll"
         /\ pending' = pending /\ raises' = raises /\ seen' = seen /\ late' = late
         /\ \/ Sti
            \/ HaltGoesOn
            \/ consumed' = consumed /\ since' = since /\ afterSti' = FALSE
<1>1. ASSUME NEW m, Retire(m)
      PROVE  /\ phase = "run" /\ phase' = "poll"
             /\ pending' = pending /\ raises' = raises /\ seen' = seen /\ late' = late
             /\ consumed' = consumed /\ since' = since /\ afterSti' = FALSE
  BY <1>1 DEF Retire
<1>2. CASE StackInstruction
  <2>1. \E m : Retire(m)
    BY <1>2 DEF StackInstruction, Push, PushOverflows, Pop, PopUnderflows, PopFlags, Call, Return, Iret,
                IretUnderflows, PushPageFaults, CompareFaultsTwice, MoveSp, SetProgramStackLimit
  <2> QED
    BY <1>1, <2>1
<1>3. CASE Sti \/ HaltGoesOn
  BY <1>3 DEF Sti, HaltGoesOn
<1>4. CASE ControlInstruction /\ ~(Sti \/ HaltGoesOn)
  <2>1. \E m : Retire(m)
    BY <1>4 DEF ControlInstruction, Jump, Cli, HaltSleeps, Software, Fault, ResetInstruction
  <2> QED
    BY <1>1, <2>1
<1> QED
  BY <1>2, <1>3, <1>4

(* What makes the test of a HALT sound: the count step() read, and the      *)
(* count it last spent, stand behind the raises by at least what was raised *)
(* since the one and since the other.                                       *)
RaisesCounted ==
  /\ consumed <= raises /\ seen <= raises
  /\ since # {} => consumed < raises
  /\ late # {} => seen < raises

LEMMA CountsKept ==
  ASSUME TypeOK, RaisesCounted, [Next]_vars
  PROVE  RaisesCounted'
<1>1. raises \in Nat /\ consumed \in Nat /\ seen \in Nat
  BY BoundAssumption DEF TypeOK
<1>2. CASE \E n \in Numbers : Raise(n)
  BY <1>1, <1>2 DEF Raise, RaisesCounted
<1>3. CASE Poll
  BY <1>1, <1>3 DEF Poll, RaisesCounted
<1>4. CASE \E n \in Numbers : Deliver(n)
  <2>1. PICK n \in Numbers : Deliver(n)
    BY <1>4
  <2>2. raises' = raises /\ seen' = seen /\ late' = late
    BY <2>1 DEF Deliver
  <2>3. \/ consumed' = seen /\ since' = late \ {n}
        \/ consumed' = consumed /\ since' = since
    BY <2>1 DEF Deliver
  <2> QED
    BY <1>1, <2>2, <2>3 DEF RaisesCounted
<1>5. CASE Wake
  BY <1>1, <1>5 DEF Wake, RaisesCounted
<1>6. CASE NothingToDeliver \/ Awake \/ HaltedStep \/ WokenByRaise \/ WaitEnds
  BY <1>6 DEF NothingToDeliver, Awake, HaltedStep, WokenByRaise, WaitEnds, RaisesCounted
<1>7. CASE StackInstruction \/ ControlInstruction
  <2>1. raises' = raises /\ seen' = seen /\ late' = late
    BY <1>7, InstructionRetires
  <2>2. \/ consumed' = raises /\ since' = {}
        \/ consumed' = consumed /\ since' = since
    BY <1>7, InstructionRetires DEF Sti, HaltGoesOn
  <2> QED
    BY <1>1, <2>1, <2>2 DEF RaisesCounted
<1>8. CASE UNCHANGED vars
  BY <1>8 DEF vars, RaisesCounted
<1> QED
  BY <1>2, <1>3, <1>4, <1>5, <1>6, <1>7, <1>8 DEF Next, EngineStep

(* A request raised after step() counted the raises outlives both the       *)
(* dispatch of another request and the wake it causes: the next HALT finds  *)
(* the counts apart and goes on (_raisesConsumed, raiseSequence).           *)
THEOREM NoRaiseIsLost == Spec => []NoRaiseLost
<1>1. Init => RaisesCounted
  BY DEF Init, RaisesCounted
<1>2. IInv /\ RaisesCounted /\ [Next]_vars => RaisesCounted'
  BY CountsKept DEF IInv
<1>3. IInv /\ RaisesCounted => NoRaiseLost
  <2> SUFFICES ASSUME IInv, RaisesCounted PROVE NoRaiseLost
    OBVIOUS
  <2>1. raises \in Nat /\ consumed \in Nat
    BY BoundAssumption DEF IInv, TypeOK
  <2> QED
    BY <2>1 DEF RaisesCounted, NoRaiseLost
<1> QED
  BY <1>1, <1>2, <1>3, InductiveInvariant, PTL DEF Spec

(* Where the shadow of an STI is, until the next instruction retires: in    *)
(* the machine, then in step()'s copy of it.  The machine does not sleep    *)
(* meanwhile, so no step comes between the two instructions.                *)
ShadowHeld ==
  /\ phase = "run" => "Halting" \notin cpu.flags
  /\ afterSti => /\ "Halting" \notin cpu.flags /\ phase # "halted"
                 /\ phase = "poll" => cpu.shadow
                 /\ phase = "deliver" => shadowed

LEMMA NothingTakenInShadow ==
  ASSUME IInv, ShadowHeld, afterSti, NEW n \in Numbers
  PROVE  ~Deliver(n)
BY DEF IInv, ShadowHeld, Deliver, Lowest, Deliverable

LEMMA StiFields ==
  ASSUME IInv, ShadowHeld, Sti
  PROVE  "Halting" \notin cpu'.flags /\ cpu'.shadow = TRUE
<1>1. cpu \in Machine
  BY DEF IInv, TypeOK
<1>2. "Halting" \notin cpu.flags
  BY DEF ShadowHeld, Sti
<1> DEFINE f == cpu.flags \cup {"Interrupt"}
           m == [cpu EXCEPT !.faulted = FALSE, !.flags = f, !.shadow = TRUE]
<1>3. cpu' = AdvancePC(m)
  <2>1. [Fetched EXCEPT !.flags = @ \cup {"Interrupt"}, !.shadow = TRUE] = m
    BY <1>1 DEF Fetched, Machine
  <2> QED
    BY <2>1 DEF Sti
<1>4. m.flags = f /\ m.shadow = TRUE /\ m.faulted = FALSE
  BY <1>1 DEF Machine
<1> HIDE DEF m
<1>5. AdvancePC(m).flags = m.flags /\ AdvancePC(m).shadow = m.shadow
  BY DEF AdvancePC
<1> QED
  BY <1>2, <1>3, <1>4, <1>5

LEMMA ShadowKept ==
  ASSUME IInv, ShadowHeld, [Next]_vars
  PROVE  ShadowHeld'
<1>0. cpu \in Machine /\ afterSti \in BOOLEAN
  BY DEF IInv, TypeOK
<1>1. CASE \E n \in Numbers : Raise(n)
  BY <1>1 DEF Raise, ShadowHeld
<1>2. CASE Poll
  <2>1. /\ phase = "poll" /\ phase' = "deliver" /\ shadowed' = cpu.shadow /\ afterSti' = afterSti
        /\ cpu' = [cpu EXCEPT !.shadow = FALSE]
    BY <1>2 DEF Poll
  <2>2. cpu'.flags = cpu.flags
    BY <1>0, <2>1 DEF Machine
  <2> QED
    BY <2>1, <2>2 DEF ShadowHeld
<1>3. CASE \E n \in Numbers : Deliver(n)
  <2>1. afterSti' = afterSti /\ phase' = "wake"
    BY <1>3 DEF Deliver
  <2>2. ~afterSti
    BY <1>3, NothingTakenInShadow
  <2> QED
    BY <2>1, <2>2 DEF ShadowHeld
<1>4. CASE NothingToDeliver \/ Awake \/ HaltedStep \/ WokenByRaise \/ WaitEnds
  BY <1>4 DEF NothingToDeliver, Awake, HaltedStep, WokenByRaise, WaitEnds, ShadowHeld
<1>5. CASE Wake
  <2>1. phase' = "run" /\ afterSti' = afterSti /\ "Halting" \in cpu.flags
        /\ cpu' = [cpu EXCEPT !.flags = cpu.flags \ {"Halting"}]
    BY <1>5 DEF Wake
  <2>2. "Halting" \notin cpu'.flags
    BY <1>0, <2>1 DEF Machine
  <2> QED
    BY <2>1, <2>2 DEF ShadowHeld
<1>6. CASE Sti
  <2>1. phase' = "poll"
    BY <1>6 DEF Sti
  <2> QED
    BY <1>6, <2>1, StiFields DEF ShadowHeld
<1>7. CASE (StackInstruction \/ ControlInstruction) /\ ~Sti
  <2>1. phase' = "poll" /\ afterSti' = FALSE
    BY <1>7, InstructionRetires DEF HaltGoesOn
  <2> QED
    BY <2>1 DEF ShadowHeld
<1>8. CASE UNCHANGED vars
  BY <1>8 DEF vars, ShadowHeld
<1> QED
  BY <1>1, <1>2, <1>3, <1>4, <1>5, <1>6, <1>7, <1>8 DEF Next, EngineStep

(* No request of a device is taken between an STI and the instruction after *)
(* it, whatever is raised meanwhile and however often (_interruptShadow).   *)
THEOREM StiProtectsOne == Spec => StiHoldsOneInstruction
<1> DEFINE A == afterSti => \A n \in pending \ pending' : ~User(n)
<1>1. Init => ShadowHeld
  BY DEF Init, ShadowHeld
<1>2. IInv /\ ShadowHeld /\ [Next]_vars => ShadowHeld'
  BY ShadowKept
<1>3. IInv /\ ShadowHeld /\ [Next]_vars => [A]_vars
  <2> SUFFICES ASSUME IInv, ShadowHeld, Next, afterSti PROVE pending \subseteq pending'
    OBVIOUS
  <2>1. CASE \E n \in Numbers : Raise(n)
    BY <2>1 DEF Raise
  <2>2. CASE \E n \in Numbers : Deliver(n)
    BY <2>2, NothingTakenInShadow
  <2>3. CASE StackInstruction \/ ControlInstruction
    BY <2>3, InstructionRetires
  <2>4. CASE Poll \/ NothingToDeliver \/ Awake \/ Wake \/ HaltedStep \/ WokenByRaise \/ WaitEnds
    BY <2>4 DEF Poll, NothingToDeliver, Awake, Wake, HaltedStep, WokenByRaise, WaitEnds
  <2> QED
    BY <2>1, <2>2, <2>3, <2>4 DEF Next, EngineStep
<1> QED
  BY <1>1, <1>2, <1>3, InductiveInvariant, PTL DEF Spec, StiHoldsOneInstruction
=============================================================================
