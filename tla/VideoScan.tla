----------------------------- MODULE VideoScan ------------------------------
(* The GPU's scan of the screen.  It draws nothing as the machine runs: it   *)
(* keeps the stretches of lines that share their registers, catches up with  *)
(* the clock before every access, and composes the frame at its vertical     *)
(* blank.  The colour `look` stands for every register the scanout reads,    *)
(* which the line table of VRAM may write too.                               *)
EXTENDS Integers, Sequences, SequencesExt, FiniteSets

CONSTANTS
  CpuHz, Refresh,           \* a frame is CpuHz / Refresh cycles, rounded as they add up
  Heights,                  \* visible lines there may be
  BlankingLines, MinLinesTotal,
  Looks,
  LineTables,               \* what VRAM may hold: sequences of [line, look]
  ScanCosts,                \* cycles of an instruction
  MaxCycles,                \* the clock stops here
  Programs                  \* of the machine: [uses, left]

ASSUME VideoAssumption == CpuHz \in Nat \ {0} /\ Refresh \in Nat \ {0} /\ Heights \subseteq Nat \ {0}

VARIABLES
  cycles,   \* the machine's clock
  serving,  \* the scheduler's turn, before the next instruction
  gpu,      \* the device
  bitmap,   \* the plane's bases
  ideal,    \* what a display that reads the registers line by line would have seen, for the properties
  todo      \* the program: [uses, left], the registers it uses and the accesses it still makes

scanVars == <<cycles, serving, gpu, bitmap, ideal, todo>>

-----------------------------------------------------------------------------
(* The display's timing: pure arithmetic on the clock.                       *)

Unset == -1   \* an event that is not scheduled
LinesTotal(h) == IF h + BlankingLines < MinLinesTotal THEN MinLinesTotal ELSE h + BlankingLines
FrameStart(origin, frame) == origin + (frame * CpuHz) \div Refresh
LineStart(origin, h, frame, line) ==
  LET start == FrameStart(origin, frame)
  IN  start + (line * (FrameStart(origin, frame + 1) - start)) \div LinesTotal(h)
FrameAt(origin, cycle) ==
  CHOOSE f \in 0..(cycle - origin) : FrameStart(origin, f) <= cycle /\ cycle < FrameStart(origin, f + 1)
LineAt(origin, h, cycle) ==
  LET f == FrameAt(origin, cycle)
  IN  CHOOSE l \in 0..(LinesTotal(h) - 1) :
        LineStart(origin, h, f, l) <= cycle /\ (l = LinesTotal(h) - 1 \/ cycle < LineStart(origin, h, f, l + 1))
InVblank(g, cycle) == LineAt(g.origin, g.height, cycle) >= g.height
NextLineStart(g, cycle, line) ==
  LET f == FrameAt(g.origin, cycle)  at == LineStart(g.origin, g.height, f, line)
  IN  IF at < cycle THEN LineStart(g.origin, g.height, f + 1, line) ELSE at

-----------------------------------------------------------------------------
(* The scan.                                                                 *)

LineNow(g, first) == [first |-> first, on |-> g.on, look |-> g.look]
SameAs(a, b) == a.on = b.on /\ a.look = b.look
ReadLineTable(g) == [g EXCEPT !.table = IF g.tableOn THEN g.vram ELSE <<>>, !.cursor = 1, !.tableRead = TRUE]

(* Mutant: a change is noted for the line already scanned. *)
NoteChangeOneEarly(g) ==
  IF g.scanLine >= g.height \/ g.scanning = <<>> \/ SameAs(LineNow(g, 0), Last(g.scanning)) THEN g
  ELSE LET line == IF g.scanLine = 0 THEN 0 ELSE g.scanLine - 1
       IN  IF Last(g.scanning).first >= line
           THEN [g EXCEPT !.scanning = Front(@) \o <<LineNow(g, Last(@).first)>>]
           ELSE [g EXCEPT !.scanning = Append(@, LineNow(g, line))]
\* From the next line to scan, the lines have the registers as they are now.
NoteChange(g) ==
  IF g.scanLine >= g.height \/ g.scanning = <<>> \/ SameAs(LineNow(g, 0), Last(g.scanning)) THEN g
  ELSE IF Last(g.scanning).first = g.scanLine
  THEN [g EXCEPT !.scanning = Front(@) \o <<LineNow(g, g.scanLine)>>]
  ELSE [g EXCEPT !.scanning = Append(@, LineNow(g, g.scanLine))]

\* The entries of a line, in order; one whose line has passed is skipped.
Entry(g, line) ==
  LET head == g.table[g.cursor]
  IN  IF g.cursor > Len(g.table) \/ head.line > line THEN g
      ELSE [g EXCEPT !.cursor = @ + 1, !.look = IF head.line = line THEN head.look ELSE @]
ApplyLineTable(g, line) ==
  LET after == FoldLeft(LAMBDA a, i : Entry(a, line), g, [i \in 1..Len(g.table) |-> i])
  IN  IF after.look # g.look THEN NoteChange(after) ELSE after
ScanLines(g, line) ==
  FoldLeft(LAMBDA a, l : [ApplyLineTable(a, l) EXCEPT !.scanLine = l + 1], g, [i \in 1..(line - g.scanLine) |-> g.scanLine + i - 1])
ScanTo(g, line) == ScanLines(IF g.scanLine = 0 /\ line > 0 /\ ~g.tableRead THEN ReadLineTable(g) ELSE g, line)

Lower(a, b) == IF a < b THEN a ELSE b
\* Every line started before the cycle is done; one that starts on it is not.
CatchUp(g, cycle) ==
  LET frame == FrameAt(g.origin, cycle)
      line == LineAt(g.origin, g.height, cycle)
  IN  IF frame < g.scanFrame THEN g
      ELSE IF frame > g.scanFrame THEN ScanTo(g, g.height)
      ELSE ScanTo(g, Lower(g.height, IF cycle > LineStart(g.origin, g.height, frame, line) THEN line + 1 ELSE line))

BeginScan(g) ==
  [g EXCEPT !.scanFrame = g.nextFrame, !.scanLine = 0, !.cursor = 1, !.tableRead = FALSE, !.table = <<>>,
            !.scanning = <<LineNow(g, 0)>>, !.frameAt = FrameStart(g.origin, g.nextFrame)]
ScheduleVblank(g) == [g EXCEPT !.vblankAt = LineStart(g.origin, g.height, g.nextFrame, g.height)]
ScheduleLine(g, cycle) ==
  [g EXCEPT !.lineAt = IF g.lineIrq /\ g.compare < LinesTotal(g.height) THEN NextLineStart(g, cycle, g.compare) ELSE Unset]

-----------------------------------------------------------------------------
(* The bitmap plane: up to three pictures take turns.                        *)

Presented(b) ==
  IF b.buffers # 3 THEN b
  ELSE IF ~b.queued THEN [b EXCEPT !.waiting = b.back, !.back = b.spare, !.queued = TRUE]
  ELSE [b EXCEPT !.waiting = b.back, !.back = b.waiting]
ApplyPending(b) ==
  LET flipped == IF b.buffers = 2 THEN [b EXCEPT !.base = b.back, !.back = b.base]
                 ELSE IF b.buffers = 3 /\ b.queued THEN [b EXCEPT !.spare = b.base, !.base = b.waiting, !.queued = FALSE]
                 ELSE b
  IN  [flipped EXCEPT !.shown = flipped.base]

-----------------------------------------------------------------------------
(* Registers and events.                                                     *)

Fresh(g, cycle) ==
  ScheduleVblank(BeginScan([g EXCEPT !.origin = cycle, !.height = CHOOSE h \in Heights : TRUE, !.on = TRUE, !.look = 0,
    !.tableOn = FALSE, !.lineIrq = FALSE, !.compare = 0, !.present = FALSE, !.nextFrame = 0, !.lineAt = Unset, !.scanned = <<>>, !.scannedFrame = Unset]))
FirstBitmap == [base |-> "a", back |-> "b", spare |-> "c", waiting |-> "a", queued |-> FALSE, shown |-> "a", buffers |-> 1, dropped |-> FALSE]

WriteRegister(g, reg, value, cycle) ==
  CASE reg = "look" -> [g EXCEPT !.look = value]
    [] reg = "on" -> [g EXCEPT !.on = value]
    [] reg = "tableOn" -> [g EXCEPT !.tableOn = value]
    [] reg = "lineIrq" -> ScheduleLine([g EXCEPT !.lineIrq = value], cycle)
    [] reg = "compare" -> ScheduleLine([g EXCEPT !.compare = value], cycle)
    [] reg = "height" -> ScheduleLine(ScheduleVblank([g EXCEPT !.height = value]), cycle)
    [] reg = "present" -> [g EXCEPT !.present = TRUE]
    [] reg = "reset" -> Fresh(g, cycle)
    [] OTHER -> g   \* a read, or a register of the bitmap plane
Written(g, reg, value, cycle) == NoteChange(WriteRegister(CatchUp(g, cycle), reg, value, cycle))
BitmapWritten(b, reg, value) ==
  CASE reg = "present" -> Presented(b)
    [] reg = "buffers" -> [b EXCEPT !.buffers = value, !.queued = FALSE, !.dropped = @ \/ b.queued]
    [] reg = "reset" -> FirstBitmap
    [] OTHER -> b

DueNow == {at \in {gpu.vblankAt, gpu.lineAt, gpu.frameAt} : at # Unset /\ at <= cycles}
Earliest == CHOOSE at \in DueNow : \A other \in DueNow : at <= other

VblankEvent ==
  /\ serving /\ gpu.vblankAt \in DueNow /\ gpu.vblankAt = Earliest
  /\ LET done == ScanTo(gpu, gpu.height)
     IN  gpu' = ScheduleVblank(BeginScan([done EXCEPT !.scanned = done.scanning, !.scannedFrame = gpu.nextFrame,
                                                     !.nextFrame = @ + 1, !.present = FALSE]))
  /\ bitmap' = IF gpu.present THEN ApplyPending(bitmap) ELSE bitmap
  /\ UNCHANGED <<cycles, serving, ideal, todo>>
\* Line 0 of a frame starts: its line table is read, whole.
FrameEvent ==
  /\ serving /\ gpu.frameAt \in DueNow /\ gpu.frameAt = Earliest
  /\ gpu' = [IF gpu.tableRead THEN gpu ELSE ReadLineTable(gpu) EXCEPT !.frameAt = Unset]
  /\ UNCHANGED <<cycles, serving, bitmap, ideal, todo>>
LineEvent ==
  /\ serving /\ gpu.lineAt \in DueNow /\ gpu.lineAt = Earliest
  /\ gpu' = [gpu EXCEPT !.lineAt = IF gpu.lineIrq THEN NextLineStart(gpu, gpu.lineAt + 1, gpu.compare) ELSE Unset]
  /\ ideal' = [ideal EXCEPT !.late = @ - 1]
  /\ UNCHANGED <<cycles, serving, bitmap, todo>>
NothingDue == serving /\ DueNow = {} /\ serving' = FALSE /\ UNCHANGED <<cycles, gpu, bitmap, ideal, todo>>

-----------------------------------------------------------------------------
(* The display there would be if it read each line's registers as the line   *)
(* started: the yardstick the scan is held to.                               *)

\* An entry has its turn on its line unless one before it waits for a later line.
InTurn(t, i, line) == t[i].line = line /\ \A j \in 1..(i - 1) : t[j].line <= line
TableLook(t, line, look) ==
  LET turns == {i \in DOMAIN t : InTurn(t, i, line)} IN IF turns = {} THEN look ELSE t[CHOOSE i \in turns : \A j \in turns : j <= i].look
\* A cycle goes by.
Passed(d, g, stored, s) ==
  LET f == FrameAt(g.origin, s)
      starts == {l \in 0..g.height : LineStart(g.origin, g.height, f, l) = s}
      line == CHOOSE l \in starts : TRUE
      t == IF line = 0 /\ ~d.tableRead THEN IF g.tableOn THEN stored ELSE <<>> ELSE d.table
      look == TableLook(t, line, d.look)
  IN  IF starts = {} THEN d
      ELSE IF line = g.height THEN [d EXCEPT !.last = [frame |-> f, lines |-> d.seen, whole |-> d.whole], !.seen = <<>>, !.whole = TRUE, !.tableRead = FALSE]
      ELSE [d EXCEPT !.table = t, !.tableRead = TRUE, !.look = look, !.seen = Append(@, [on |-> d.on, look |-> look])]
LineDueAt(g, s) == g.lineIrq /\ g.compare < LinesTotal(g.height) /\ LineStart(g.origin, g.height, FrameAt(g.origin, s), g.compare) = s

Settings == {"lineIrq", "compare", "height", "reset"}
\* An instruction of so many cycles that writes a register, or stores the table, at its end.
Watch(reg, value, before, after) ==
  LET old == gpu   new == gpu'
      passed == FoldLeft(LAMBDA d, s : Passed(d, old, new.vram, s), ideal, [i \in 1..(after - before) |-> before + i - 1])
      wrote == [passed EXCEPT !.look = IF reg = "look" THEN value ELSE IF reg = "reset" THEN 0 ELSE @,
                              !.on = IF reg = "on" THEN value ELSE reg = "reset" \/ @,
                              !.whole = @ /\ reg # "height"]
      begun == IF reg = "reset" THEN [wrote EXCEPT !.seen = <<>>, !.whole = TRUE, !.tableRead = FALSE, !.last = [frame |-> Unset, lines |-> <<>>, whole |-> FALSE]] ELSE wrote
      starts == FrameStart(new.origin, FrameAt(new.origin, after)) = after
      dueBefore == Cardinality({s \in (before + 1)..(after - 1) : LineDueAt(old, s)})
      dueAfter == IF LineDueAt(new, after) THEN 1 ELSE 0
  IN  ideal' = [begun EXCEPT
        !.table = IF starts THEN IF new.tableOn THEN new.vram ELSE <<>> ELSE @, !.tableRead = @ \/ starts,
        !.late = IF reg \in Settings THEN dueAfter ELSE @ + dueBefore + dueAfter]

Instruction(cost, reg, value) ==
  /\ ~serving /\ cycles + cost <= MaxCycles
  /\ reg # "none" => reg \in todo.uses /\ todo.left > 0
  /\ todo' = IF reg = "none" THEN todo ELSE [todo EXCEPT !.left = @ - 1]
  /\ cycles' = cycles + cost /\ serving' = TRUE
  /\ gpu' = IF reg = "none" THEN gpu
            ELSE IF reg = "vram" THEN IF gpu.gated /\ gpu.on /\ ~InVblank(gpu, cycles') THEN gpu ELSE [gpu EXCEPT !.vram = value]
            ELSE Written(gpu, reg, value, cycles')
  /\ bitmap' = BitmapWritten(bitmap, reg, value)
  /\ Watch(reg, value, cycles, cycles')

GpuAtStart(gated) ==
  Fresh([origin |-> 0, height |-> 0, on |-> TRUE, look |-> 0, tableOn |-> FALSE, lineIrq |-> FALSE, compare |-> 0,
         present |-> FALSE, nextFrame |-> 0, lineAt |-> Unset, frameAt |-> 0, vblankAt |-> 0, scanned |-> <<>>, scannedFrame |-> Unset,
         scanFrame |-> 0, scanLine |-> 0, cursor |-> 1, tableRead |-> FALSE, table |-> <<>>, scanning |-> <<>>, vram |-> <<>>, gated |-> gated], 0)
ScanStart ==
  /\ cycles = 0 /\ serving = TRUE /\ bitmap = FirstBitmap
  /\ ideal = [look |-> 0, on |-> TRUE, table |-> <<>>, tableRead |-> TRUE, seen |-> <<>>, whole |-> TRUE,
              last |-> [frame |-> Unset, lines |-> <<>>, whole |-> FALSE], late |-> 0]
ScanInit == ScanStart /\ todo \in Programs /\ \E gated \in BOOLEAN : gpu = GpuAtStart(gated)
ScanIdle == ScanStart /\ todo = [uses |-> {}, left |-> 0] /\ gpu = GpuAtStart(FALSE)
Program ==
  \E cost \in ScanCosts :
    \/ Instruction(cost, "none", 0) \/ Instruction(cost, "read", 0) \/ Instruction(cost, "present", 0) \/ Instruction(cost, "reset", 0)
    \/ \E v \in Looks : Instruction(cost, "look", v)
    \/ \E v \in BOOLEAN : Instruction(cost, "on", v) \/ Instruction(cost, "tableOn", v) \/ Instruction(cost, "lineIrq", v)
    \/ \E h \in Heights : Instruction(cost, "height", h)
    \/ \E t \in LineTables : Instruction(cost, "vram", t)
    \/ \E l \in 0..MinLinesTotal : Instruction(cost, "compare", l)
    \/ \E n \in 1..3 : Instruction(cost, "buffers", n)
ScanNext == VblankEvent \/ FrameEvent \/ LineEvent \/ NothingDue \/ Program

ScanSpec == ScanInit /\ [][ScanNext]_scanVars

(***************************************************************************)
(* Properties.                                                             *)
(***************************************************************************)

LineOf(stretches, l) == CHOOSE i \in DOMAIN stretches : stretches[i].first <= l /\ (i = Len(stretches) \/ stretches[i + 1].first > l)
\* A frame composed from stretches, at its end, is the one a display would show that read
\* every line's registers as the line started, with the line table of the frame's start,
\* wherever in an instruction the lines began and whatever was read or written meanwhile.
ScanIsLineByLine ==
  (ideal.last.whole /\ gpu.scannedFrame = ideal.last.frame /\ gpu.scannedFrame # Unset) =>
    \A l \in 0..(Len(ideal.last.lines) - 1) :
      LET s == gpu.scanned[LineOf(gpu.scanned, l)] IN ideal.last.lines[l + 1] = [on |-> s.on, look |-> s.look]

\* Every time the scan reaches the line that is waited for there is one interrupt, and there
\* is no other, but for the line starts of an instruction that sets up the interrupt, or the
\* screen, anew.
LineInterruptComes == ~serving => ideal.late = 0

\* No picture is drawn into while it is shown or waits to be: with two, once the flip asked
\* for is done, and with three always, as long as no flip was dropped by a write to Buffers.
NeverDrawnWhereShown ==
  ~bitmap.dropped /\ (bitmap.buffers = 3 \/ (bitmap.buffers = 2 /\ ~gpu.present))
    => bitmap.back # bitmap.shown /\ (bitmap.queued => bitmap.back # bitmap.waiting)

\* What the program does to the screen in the middle of a frame shows from the line the beam
\* is at, it is told of the line it waits for, and its pictures are shown whole.
BeamIsFollowed == ScanIsLineByLine /\ LineInterruptComes /\ NeverDrawnWhereShown
=============================================================================
