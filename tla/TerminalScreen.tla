--------------------------- MODULE TerminalScreen ---------------------------
(* What the terminal draws: the bytes of a program's two streams and the     *)
(* echo of the line being edited go through a parser each and are carried    *)
(* out on the one cursor and grid; the rows that leave it go to the          *)
(* scrollback ring.  A byte is a model of itself, "a" or "esc" or "cont".    *)
EXTENDS Integers, Sequences, SequencesExt, TLC

CONSTANTS
  BootCols, BootRows,   \* the grid after a reset
  GridCells, RingCells, \* cells the VRAM has for the grid and for the ring of rows that scrolled away
  MaxParameters, MaxValue, \* of a sequence
  MaxLine, HistoryLines,
  Sessions              \* what there is to do: [keys, left, steps]

ASSUME TerminalAssumption ==
  BootCols \in 1..GridCells /\ BootRows \in Nat \ {0} /\ BootCols * BootRows <= GridCells /\ RingCells \in Nat

VARIABLES
  screen,   \* the grid, the ring, the cursor, the pens and the parsers
  editor,   \* the line discipline: [line, cursor, lines, recall, draft, afterCr]
  mode,     \* [raw, echo, history]
  told,     \* what the last key gave the program: [bytes, interrupt, end]
  session,  \* what is left to do
  gone,     \* the rows that left the top of the screen, for the properties
  edited,   \* where the line being edited started, while nothing else drew; for the properties
  typed     \* the line as it was while no history was shown, for the properties

terminalVars == <<screen, editor, mode, told, session, gone, edited, typed>>

Least(a, b) == IF a < b THEN a ELSE b
LastRow == 99   \* a scroll region's bottom that follows the screen's

-----------------------------------------------------------------------------
(* The drawer.                                                               *)

DefaultPen == [ink |-> 7, paper |-> 0, bold |-> FALSE, reverse |-> FALSE, base |-> 7]
ErrorPen == [DefaultPen EXCEPT !.ink = 9, !.base = 9]
FaultPen == [DefaultPen EXCEPT !.ink = 15, !.base = 15, !.paper = 1]
BlankCell == [glyph |-> " ", ink |-> 7, paper |-> 0]

CellOf(pen, glyph) ==
  LET ink == IF pen.bold /\ pen.ink < 8 THEN pen.ink + 8 ELSE pen.ink
  IN  IF pen.reverse THEN [glyph |-> glyph, ink |-> pen.paper, paper |-> ink] ELSE [glyph |-> glyph, ink |-> ink, paper |-> pen.paper]

Bottom(s) == Least(s.bottom, s.rows - 1)
Top(s) == Least(s.top, Bottom(s))
RingLines(cols) == RingCells \div cols
\* Wherever the cell is reckoned to be, the grid or not: only the end of the VRAM stops it.
Put(s, x, y, cell) == IF y * s.cols + x \in DOMAIN s.cells THEN [s EXCEPT !.cells[y * s.cols + x] = cell] ELSE s
BlankRow(s, pen, y, from, to) ==
  IF ~s.on THEN s
  ELSE [s EXCEPT !.cells = [i \in DOMAIN s.cells |->
         IF i \in (y * s.cols + from)..(y * s.cols + Least(to, s.cols) - 1) THEN CellOf(pen, " ") ELSE @[i]]]
BlankRows(s, pen, rows) == FoldLeft(LAMBDA a, y : BlankRow(a, pen, y, 0, s.cols), s, rows)
RowOf(s, y) == [x \in 0..(s.cols - 1) |-> s.cells[y * s.cols + x]]

\* The top row goes into the ring.
Pushed(s) ==
  IF s.lines = 0 THEN s
  ELSE LET to == (s.head % s.lines) * s.cols
       IN  [s EXCEPT !.ring = [i \in DOMAIN s.ring |-> IF i \in to..(to + s.cols - 1) THEN s.cells[i - to] ELSE @[i]],
                     !.head = ((s.head % s.lines) + 1) % s.lines, !.count = Least(@ + 1, s.lines)]
\* The rows from first to last move up one.
ScrollUp(s, pen, first, last) ==
  IF ~s.on THEN s
  ELSE LET whole == first = 0 /\ last = s.rows - 1
           kept == IF whole /\ s.scrollback THEN [Pushed(s) EXCEPT !.left = Append(@, RowOf(s, 0))] ELSE s
           moved == [kept EXCEPT !.cells = [i \in DOMAIN @ |-> IF i \in (first * s.cols)..(last * s.cols - 1) THEN @[i + s.cols] ELSE @[i]]]
       IN  BlankRow(moved, pen, last, 0, s.cols)
LineFeed(s, pen) ==
  IF s.y = Bottom(s) THEN IF s.autoscroll THEN ScrollUp(s, pen, Top(s), Bottom(s)) ELSE s
  ELSE IF s.y + 1 < s.rows THEN [s EXCEPT !.y = @ + 1] ELSE s

\* SGR: colours and attributes; 38 and 48 take two parameters more.
Sgr(pen, p) ==
  LET plain == [DefaultPen EXCEPT !.ink = pen.base, !.base = pen.base]
      One(a, i) ==
        IF i <= a.used THEN a
        ELSE CASE p[i] = 0 -> [a EXCEPT !.pen = plain]
               [] p[i] \in {1, 22} -> [a EXCEPT !.pen.bold = p[i] = 1]
               [] p[i] \in {7, 27} -> [a EXCEPT !.pen.reverse = p[i] = 7]
               [] p[i] \in 30..37 -> [a EXCEPT !.pen.ink = p[i] - 30]
               [] p[i] = 39 -> [a EXCEPT !.pen.ink = a.pen.base]
               [] p[i] \in 40..47 -> [a EXCEPT !.pen.paper = p[i] - 40]
               [] p[i] = 49 -> [a EXCEPT !.pen.paper = 0]
               [] p[i] \in 90..97 -> [a EXCEPT !.pen.ink = p[i] - 82]
               [] p[i] \in 100..107 -> [a EXCEPT !.pen.paper = p[i] - 92]
               [] p[i] \in {38, 48} /\ i + 2 <= Len(p) /\ p[Least(i + 1, Len(p))] = 5 ->
                    IF p[i] = 38 THEN [a EXCEPT !.pen.ink = p[i + 2] % 256, !.used = i + 2]
                    ELSE [a EXCEPT !.pen.paper = p[i + 2] % 256, !.used = i + 2]
               [] OTHER -> a
  IN  IF p = <<>> THEN plain ELSE FoldLeft(One, [pen |-> pen, used |-> 0], [i \in DOMAIN p |-> i]).pen

Draws(s, pen, glyph) ==
  LET line == IF s.wrap THEN [LineFeed([s EXCEPT !.x = 0], pen) EXCEPT !.wrap = FALSE] ELSE s
      shown == IF line.on THEN Put(line, line.x, line.y, CellOf(pen, glyph)) ELSE line
  IN  IF shown.x + 1 < shown.cols THEN [shown EXCEPT !.x = @ + 1] ELSE [shown EXCEPT !.wrap = TRUE]
Controls(s, pen, code) ==
  CASE code = "cr" -> [s EXCEPT !.x = 0, !.wrap = FALSE]
    [] code = "lf" -> [LineFeed([s EXCEPT !.x = 0], pen) EXCEPT !.wrap = FALSE]
    [] code = "bs" -> [s EXCEPT !.x = IF @ > 0 THEN @ - 1 ELSE 0, !.wrap = FALSE]
    [] code = "tab" -> [s EXCEPT !.x = Least(s.cols - 1, (@ \div 8 + 1) * 8), !.wrap = FALSE]
    [] OTHER -> s   \* bell, and those that mean nothing

Saved(s) == [s EXCEPT !.sx = s.x, !.sy = s.y]
Restored(s) == [s EXCEPT !.x = Least(s.sx, s.cols - 1), !.y = Least(s.sy, s.rows - 1), !.wrap = FALSE]
ParameterOr(p, i, fallback) == IF i <= Len(p) /\ p[Least(i, Len(p))] # 0 THEN p[i] ELSE fallback
Regioned(s, p) ==
  LET first == ParameterOr(p, 1, 1) - 1   last == ParameterOr(p, 2, s.rows) - 1
      fits == first < last /\ last < s.rows
  IN  [s EXCEPT !.top = IF fits THEN first ELSE 0, !.bottom = IF fits /\ last # s.rows - 1 THEN last ELSE LastRow,
                !.x = 0, !.y = 0, !.wrap = FALSE]
Erased(s, pen, final, how) ==
  LET below == [i \in 1..(s.rows - 1 - s.y) |-> s.y + i]   above == [i \in 1..s.y |-> i - 1]
      part == IF how = 0 THEN BlankRow(s, pen, s.y, s.x, s.cols) ELSE IF how = 1 THEN BlankRow(s, pen, s.y, 0, s.x + 1)
              ELSE IF how = 2 THEN BlankRow(s, pen, s.y, 0, s.cols) ELSE s
  IN  [IF final = "K" THEN part ELSE IF how = 0 THEN BlankRows(part, pen, below) ELSE IF how = 1 THEN BlankRows(part, pen, above)
       ELSE IF how = 2 THEN BlankRows(s, pen, [i \in 1..s.rows |-> i - 1]) ELSE s EXCEPT !.wrap = FALSE]
\* A control sequence: the ones the terminal knows; any other is consumed and does nothing.
Sequenced(s, pen, final, p, private) ==
  LET n == ParameterOr(p, 1, 1)
      how == IF p = <<>> THEN 0 ELSE p[1]
      At(x, y) == [s EXCEPT !.x = x, !.y = y, !.wrap = FALSE]
  IN  CASE private = "?" -> IF final \in {"h", "l"} /\ p # <<>> /\ how = 25 THEN [s EXCEPT !.cursorOn = final = "h"] ELSE s
        [] private # "" /\ private # "?" -> s
        [] private = "" /\ final = "A" -> At(s.x, IF s.y > n THEN s.y - n ELSE 0)
        [] private = "" /\ final = "B" -> At(s.x, Least(s.rows - 1, s.y + n))
        [] private = "" /\ final = "C" -> At(Least(s.cols - 1, s.x + n), s.y)
        [] private = "" /\ final = "D" -> At(IF s.x > n THEN s.x - n ELSE 0, s.y)
        [] private = "" /\ final \in {"H", "f"} -> At(Least(s.cols - 1, ParameterOr(p, 2, 1) - 1), Least(s.rows - 1, n - 1))
        [] private = "" /\ final \in {"J", "K"} -> Erased(s, pen, final, how)
        [] private = "" /\ final = "m" -> [s EXCEPT !.wrap = FALSE]
        [] private = "" /\ final = "s" -> [Saved(s) EXCEPT !.wrap = FALSE]
        [] private = "" /\ final = "u" -> Restored(s)
        [] private = "" /\ final = "r" -> Regioned(s, p)
        [] OTHER -> s
Escaped(s, final) == IF final = "7" THEN Saved(s) ELSE IF final = "8" THEN Restored(s) ELSE s

-----------------------------------------------------------------------------
(* The parser: bytes in, characters, controls and sequences out.             *)

FreshParser == [at |-> "ground", params |-> <<0>>, digits |-> FALSE, private |-> "", lead |-> "", needed |-> 0]
DigitOf == "0" :> 0 @@ "1" :> 1 @@ "2" :> 2 @@ "3" :> 3 @@ "4" :> 4 @@ "5" :> 5 @@ "7" :> 7 @@ "8" :> 8 @@ "9" :> 9
ControlBytes == {"cr", "lf", "bs", "tab", "bell"}
Markers == {"?", ">"}   Intermediates == {"(", " "}
\* Leads of two and of three bytes; the font has the first's character and not the second's.
Leads == "lead2" :> 1 @@ "lead3" :> 2
Glyph(lead) == IF lead = "lead2" THEN "u" ELSE "none"
Bad == "none"   \* the replacement character, which the font shows as it does any it has not

Does(p, kind, what) == [p |-> p, acts |-> <<[kind |-> kind, what |-> what, params |-> <<>>, private |-> ""]>>]
Nothing(p) == [p |-> p, acts |-> <<>>]
OnGround(p, byte) ==
  CASE byte = "esc" -> Nothing([p EXCEPT !.at = "escape"])
    [] byte \in ControlBytes -> Does(p, "control", byte)
    [] byte = "del" -> Nothing(p)
    [] byte \in DOMAIN Leads -> Nothing([p EXCEPT !.lead = byte, !.needed = Leads[byte]])
    [] byte = "cont" -> Does(p, "draw", Bad)
    [] OTHER -> Does(p, "draw", byte)
\* The rest of a character; any other byte ends it badly and is taken afresh.
Continued(p, byte) ==
  IF byte = "cont" THEN IF p.needed = 1 THEN Does([p EXCEPT !.needed = 0], "draw", Glyph(p.lead)) ELSE Nothing([p EXCEPT !.needed = @ - 1])
  ELSE LET after == OnGround([p EXCEPT !.needed = 0], byte)
       IN  [after EXCEPT !.acts = Does(p, "draw", Bad).acts \o @]
Introduced(p, byte) ==
  CASE byte = "[" -> Nothing([FreshParser EXCEPT !.at = "csi"])
    [] byte = "]" -> Nothing([p EXCEPT !.at = "osc"])
    [] byte \in Intermediates -> Nothing(p)
    [] byte \in ControlBytes \cup DOMAIN Leads \cup {"esc", "cont", "del"} -> Nothing([p EXCEPT !.at = "ground"])
    [] OTHER -> Does([p EXCEPT !.at = "ground"], "escape", byte)
\* The last of the parameters is the one being read; those past the most there may be are dropped.
WithDigit(p, d) ==
  [p EXCEPT !.digits = TRUE, !.params = IF Len(@) <= MaxParameters THEN [@ EXCEPT ![Len(@)] = Least(@ * 10 + d, MaxValue)] ELSE @]
Parameters(p) == IF ~p.digits /\ Len(p.params) = 1 THEN <<>> ELSE SubSeq(p.params, 1, Least(Len(p.params), MaxParameters))
InSequence(p, byte) ==
  CASE byte \in DOMAIN DigitOf -> Nothing(WithDigit(p, DigitOf[byte]))
    [] byte \in {";", ":"} -> Nothing([p EXCEPT !.digits = FALSE, !.params = IF Len(@) <= MaxParameters THEN Append(@, 0) ELSE @])
    [] byte \in Markers -> Nothing(IF Len(p.params) = 1 /\ ~p.digits /\ p.private = "" THEN [p EXCEPT !.private = byte] ELSE [p EXCEPT !.at = "ignore"])
    [] byte \in Intermediates -> Nothing([p EXCEPT !.at = "ignore"])
    [] byte = "esc" -> Nothing([p EXCEPT !.at = "escape"])
    [] byte \in ControlBytes -> Does(p, "control", byte)
    [] byte \in DOMAIN Leads \cup {"cont", "del"} -> Nothing(p)
    [] OTHER -> IF p.at = "ignore" THEN Nothing([p EXCEPT !.at = "ground"])
                ELSE [p |-> [p EXCEPT !.at = "ground"],
                      acts |-> <<[kind |-> "sequence", what |-> byte, params |-> Parameters(p), private |-> p.private]>>]
Parsed(p, byte) ==
  CASE p.at = "ground" -> IF p.needed > 0 THEN Continued(p, byte) ELSE OnGround(p, byte)
    [] p.at = "escape" -> Introduced(p, byte)
    [] p.at \in {"csi", "ignore"} -> InSequence(p, byte)
    [] p.at = "osc" -> Nothing(IF byte = "bell" THEN [p EXCEPT !.at = "ground"] ELSE IF byte = "esc" THEN [p EXCEPT !.at = "oscEscape"] ELSE p)
    [] p.at = "oscEscape" -> Nothing([p EXCEPT !.at = IF byte = "\\" THEN "ground" ELSE "osc"])

\* Carried out with the pen of the stream: the error's or the output's, which the echo shares.
Carried(s, pen, act) ==
  CASE act.kind = "draw" -> Draws(s, s.pens[pen], act.what)
    [] act.kind = "control" -> Controls(s, s.pens[pen], act.what)
    [] act.kind = "escape" -> Escaped(s, act.what)
    [] act.kind = "sequence" ->
         LET after == Sequenced(s, s.pens[pen], act.what, act.params, act.private)
         IN  IF act.what = "m" /\ act.private = "" THEN [after EXCEPT !.pens[pen] = Sgr(@, act.params)] ELSE after
Fed(s, parser, pen, byte) ==
  LET out == Parsed(s.parsers[parser], byte)
  IN  FoldLeft(LAMBDA a, act : Carried(a, pen, act), [s EXCEPT !.parsers[parser] = out.p], out.acts)

\* The cursor is brought into the grid.
Synced(s) == [s EXCEPT !.x = Least(@, s.cols - 1), !.y = Least(@, s.rows - 1)]
\* Output brings a view scrolled back to the live screen.
ByteWritten(s, stream, byte) == Synced(Fed(Synced([s EXCEPT !.scrollY = 0]), stream, stream, byte))
(* Mutant: the echo goes on with what the program's output left half way. *)
EchoedOnOutput(s, bytes) == Synced(FoldLeft(LAMBDA a, byte : Fed(a, "out", "out", byte), s, bytes))
Echoed(s, bytes) == Synced(FoldLeft(LAMBDA a, byte : Fed(a, "echo", "out", byte), s, bytes))
FaultShown(s, text) ==
  LET begun == IF s.x # 0 \/ s.wrap THEN Controls(s, FaultPen, "lf") ELSE s
      told0 == FoldLeft(LAMBDA a, glyph : Draws(a, FaultPen, glyph), [begun EXCEPT !.wrap = FALSE], text)
  IN  Synced(Controls(told0, FaultPen, "lf"))

ScrolledTo(s, y) == [s EXCEPT !.scrollY = IF y < s.count THEN y ELSE s.count]
Paged(s, rows) == ScrolledTo(s, IF s.scrollY + rows < 0 THEN 0 ELSE s.scrollY + rows)
Resized(s, cols, rows) ==
  IF cols = s.cols /\ rows = s.rows THEN s
  ELSE [s EXCEPT !.cols = cols, !.rows = rows, !.lines = RingLines(cols), !.head = 0, !.count = 0, !.scrollY = 0, !.left = <<>>]

-----------------------------------------------------------------------------
(* The line discipline.                                                      *)

ToLeft(n) == IF n = 0 THEN <<>> ELSE <<"esc", "[", CHOOSE d \in DOMAIN DigitOf : DigitOf[d] = n, "D">>
ToRight(n) == IF n = 0 THEN <<>> ELSE <<"esc", "[", CHOOSE d \in DOMAIN DigitOf : DigitOf[d] = n, "C">>
From(e, i) == SubSeq(e.line, i + 1, Len(e.line))
ToEnd(e) == ToRight(Len(e.line) - e.cursor)

\* What a key does: the editor after it, what is echoed, and what the program gets.
Quietly(e) == [e |-> e, echo |-> <<>>, bytes |-> <<>>, interrupt |-> FALSE, end |-> FALSE]
Echoes(e, bytes) == [Quietly(e) EXCEPT !.echo = bytes]
Replaced(e, with) == Echoes([e EXCEPT !.line = with, !.cursor = Len(with)], ToLeft(e.cursor) \o <<"esc", "[", "K">> \o with)
Submitted(e, keeps, newline, echo) ==
  LET lines == IF keeps /\ e.line # <<>> /\ (e.lines = <<>> \/ Last(e.lines) # e.line) THEN Append(e.lines, e.line) ELSE e.lines
      kept == IF Len(lines) > HistoryLines THEN Tail(lines) ELSE lines
  IN  [Echoes([e EXCEPT !.line = <<>>, !.cursor = 0, !.lines = kept, !.recall = 0, !.draft = <<>>], echo)
       EXCEPT !.bytes = e.line \o (IF newline THEN <<"lf">> ELSE <<>>)]
Recalled(e, recall) == IF recall = 0 THEN e.draft ELSE e.lines[Len(e.lines) - recall + 1]
Up(e) ==
  LET kept == [e EXCEPT !.draft = IF e.recall = 0 THEN e.line ELSE @, !.recall = @ + 1] IN Replaced(kept, Recalled(kept, kept.recall))
Down(e) == LET back == [e EXCEPT !.recall = @ - 1] IN Replaced(back, Recalled(back, back.recall))

Backspaced(e) ==
  IF e.cursor = 0 THEN Quietly(e)
  ELSE LET cut == [e EXCEPT !.line = SubSeq(@, 1, e.cursor - 1) \o From(e, e.cursor), !.cursor = @ - 1]
       IN  Echoes(cut, <<"bs">> \o From(cut, cut.cursor) \o <<" ">> \o ToLeft(Len(cut.line) - cut.cursor + 1))
Deleted(e) ==
  IF e.cursor = Len(e.line) THEN Quietly(e)
  ELSE LET cut == [e EXCEPT !.line = SubSeq(@, 1, e.cursor) \o From(e, e.cursor + 1)]
       IN  Echoes(cut, From(cut, cut.cursor) \o <<" ">> \o ToLeft(Len(cut.line) - cut.cursor + 1))
Inserted(e, char) ==
  IF Len(e.line) >= MaxLine THEN Quietly(e)
  ELSE LET put == [e EXCEPT !.line = SubSeq(@, 1, e.cursor) \o <<char>> \o From(e, e.cursor), !.cursor = @ + 1]
       IN  Echoes(put, From(put, put.cursor - 1) \o ToLeft(Len(put.line) - put.cursor))

Named0 == {"return", "delete", "left", "right", "home", "end", "up", "down", "escape"}   \* keys without a character; backspace and tab act as theirs
NamedKey(e, m, key) ==
  CASE key = "return" -> Submitted(e, m.history, TRUE, ToEnd(e) \o <<"lf">>)
    [] key = "delete" -> Deleted(e)
    [] key = "left" -> IF e.cursor > 0 THEN Echoes([e EXCEPT !.cursor = @ - 1], ToLeft(1)) ELSE Quietly(e)
    [] key = "right" -> IF e.cursor < Len(e.line) THEN Echoes([e EXCEPT !.cursor = @ + 1], ToRight(1)) ELSE Quietly(e)
    [] key = "home" -> Echoes([e EXCEPT !.cursor = 0], ToLeft(e.cursor))
    [] key = "end" -> Echoes([e EXCEPT !.cursor = Len(e.line)], ToEnd(e))
    [] key = "up" -> IF m.history /\ e.recall < Len(e.lines) THEN Up(e) ELSE Quietly(e)
    [] key = "down" -> IF m.history /\ e.recall > 0 THEN Down(e) ELSE Quietly(e)
    [] OTHER -> Quietly(e)
CharKey(before, m, key) ==
  LET e == [before EXCEPT !.afterCr = key = "cr"]
  IN  CASE key = "lf" /\ before.afterCr -> Quietly(e)   \* "\r\n" is one Enter
        [] key = "cr" \/ (key = "lf" /\ ~before.afterCr) -> Submitted(e, m.history, TRUE, ToEnd(e) \o <<"lf">>)
        [] key \in {"bs", "del"} -> Backspaced(e)
        [] key = "^U" -> Replaced(e, <<>>)
        [] key = "^C" -> [Echoes([e EXCEPT !.line = <<>>, !.cursor = 0, !.recall = 0], ToEnd(e) \o <<"^", "C", "lf">>) EXCEPT !.interrupt = TRUE]
        [] key = "^D" -> IF e.line = <<>> THEN [Quietly(e) EXCEPT !.end = TRUE] ELSE Submitted(e, m.history, FALSE, ToEnd(e))
        [] OTHER -> Inserted(e, key)
Keyed(e, m, key) ==
  IF m.raw THEN [Quietly(e) EXCEPT !.bytes = <<key>>]
  ELSE LET out == IF key \in Named0 THEN NamedKey(e, m, key) ELSE CharKey(e, m, key)
       IN  IF m.echo THEN out ELSE [out EXCEPT !.echo = <<>>]

-----------------------------------------------------------------------------
(* The keyboard and the program.                                             *)

Undrawn == [live |-> FALSE, x |-> 0, y |-> 0, widest |-> 0]
\* The properties follow the line from its first key, until something else draws.
Follow(before, out, s) ==
  edited' = IF before.line = <<>> /\ out.e.line # <<>>
            THEN IF s.wrap \/ ~s.on \/ ~mode.echo \/ s.x >= s.cols \/ s.y >= s.rows THEN Undrawn
                 ELSE [live |-> TRUE, x |-> s.x, y |-> s.y, widest |-> Len(out.e.line)]
            ELSE IF out.e.line = <<>> THEN Undrawn
            ELSE [edited EXCEPT !.widest = IF @ < Len(out.e.line) THEN Len(out.e.line) ELSE @]

PageKey(key) ==
  /\ screen' = IF screen.scrollback THEN Paged(screen, (IF key = "pageUp" THEN 1 ELSE -1) * (IF screen.rows > 1 THEN screen.rows - 1 ELSE 1)) ELSE screen
  /\ UNCHANGED <<editor, mode, told, gone, edited, typed>>
LineKey(key) ==
  LET live == [screen EXCEPT !.scrollY = 0]
      out == Keyed(editor, mode, key)
      drawn == Echoed(live, out.echo)
  IN  /\ editor' = out.e
      /\ screen' = [drawn EXCEPT !.left = <<>>] /\ gone' = gone \o drawn.left
      /\ told' = [bytes |-> out.bytes, interrupt |-> out.interrupt, end |-> out.end]
      /\ Follow(editor, out, screen)
      /\ typed' = IF out.e.recall = 0 /\ (editor.recall = 0 \/ out.e.line = <<>>) THEN out.e.line ELSE typed
      /\ UNCHANGED mode
PressKey(key) ==
  /\ session.left > 0 /\ key \in session.keys
  /\ IF key \in {"pageUp", "pageDown"} THEN PageKey(key) ELSE LineKey(key)
  /\ session' = [session EXCEPT !.left = @ - 1]

Doing(kind) == session.steps # <<>> /\ Head(session.steps).do = kind /\ session' = [session EXCEPT !.steps = Tail(@)]
Shown(s) == screen' = [s EXCEPT !.left = <<>>] /\ gone' = gone \o s.left /\ edited' = Undrawn
ProgramWrites ==
  /\ Doing("byte") /\ LET step == Head(session.steps) IN Shown(ByteWritten(screen, step.stream, step.byte))
  /\ UNCHANGED <<editor, mode, told, typed>>
ProgramMoves ==
  /\ Doing("move") /\ LET step == Head(session.steps) IN Shown(Synced([screen EXCEPT !.x = step.x, !.y = step.y, !.wrap = FALSE]))
  /\ UNCHANGED <<editor, mode, told, typed>>
ProgramControls ==
  /\ Doing("control")
  /\ LET step == Head(session.steps)
     IN  Shown(Synced([screen EXCEPT !.on = "on" \in step.bits, !.cursorOn = "cursor" \in step.bits,
                                     !.scrollback = "scrollback" \in step.bits, !.autoscroll = "autoscroll" \in step.bits]))
  /\ UNCHANGED <<editor, mode, told, typed>>
ProgramSetsMode ==
  /\ Doing("mode") /\ mode' = Head(session.steps).mode
  /\ edited' = Undrawn
  /\ UNCHANGED <<screen, editor, told, gone, typed>>
ProgramScrolls ==
  /\ Doing("scroll") /\ screen' = ScrolledTo(screen, Head(session.steps).y)
  /\ UNCHANGED <<editor, mode, told, gone, edited, typed>>
ProgramResizes ==
  /\ Doing("size")
  /\ LET step == Head(session.steps)  after == Resized(screen, step.cols, step.rows)
     IN  screen' = after /\ gone' = IF after = screen THEN gone ELSE <<>>
  /\ edited' = Undrawn
  /\ UNCHANGED <<editor, mode, told, typed>>
FaultIsShown ==
  /\ Doing("fault") /\ Shown(FaultShown(screen, <<"!">>))
  /\ UNCHANGED <<editor, mode, told, typed>>

BootScreen ==
  [cols |-> BootCols, rows |-> BootRows, lines |-> RingLines(BootCols), head |-> 0, count |-> 0, scrollY |-> 0,
   cells |-> [i \in 0..(GridCells - 1) |-> BlankCell], ring |-> [i \in 0..(RingCells - 1) |-> BlankCell],
   x |-> 0, y |-> 0, wrap |-> FALSE, sx |-> 0, sy |-> 0, top |-> 0, bottom |-> LastRow,
   on |-> TRUE, cursorOn |-> TRUE, scrollback |-> TRUE, autoscroll |-> TRUE,
   pens |-> "out" :> DefaultPen @@ "err" :> ErrorPen, parsers |-> [stream \in {"out", "err", "echo"} |-> FreshParser],
   left |-> <<>>]
BootEditor == [line |-> <<>>, cursor |-> 0, lines |-> <<>>, recall |-> 0, draft |-> <<>>, afterCr |-> FALSE]
BootMode == [raw |-> FALSE, echo |-> TRUE, history |-> TRUE]
\* What of the screen the next program finds: all of it when the grid is still the size it boots with.
CarriedOver(s) ==
  IF s.cols # BootCols \/ s.rows # BootRows THEN BootScreen
  ELSE [BootScreen EXCEPT !.cells = [i \in DOMAIN @ |-> IF i < s.cols * s.rows THEN s.cells[i] ELSE @[i]],
                          !.ring = s.ring, !.head = s.head, !.count = s.count, !.x = s.x, !.y = s.y, !.wrap = s.wrap]
NextProgramStarts ==
  /\ Doing("next") /\ screen' = CarriedOver(screen)
  /\ gone' = IF screen.cols = BootCols /\ screen.rows = BootRows THEN gone ELSE <<>>
  /\ editor' = [BootEditor EXCEPT !.lines = editor.lines] /\ mode' = BootMode
  /\ edited' = Undrawn /\ typed' = <<>>
  /\ UNCHANGED told

TerminalStart ==
  /\ screen = BootScreen /\ editor = BootEditor /\ mode = BootMode
  /\ told = [bytes |-> <<>>, interrupt |-> FALSE, end |-> FALSE] /\ gone = <<>> /\ edited = Undrawn /\ typed = <<>>
TerminalInit == TerminalStart /\ session \in Sessions
TerminalIdle == TerminalStart /\ session = [keys |-> {}, left |-> 0, steps |-> <<>>]
TerminalNext ==
  \/ \E key \in session.keys : PressKey(key)
  \/ ProgramWrites \/ ProgramMoves \/ ProgramControls \/ ProgramSetsMode \/ ProgramScrolls \/ ProgramResizes
  \/ FaultIsShown \/ NextProgramStarts

(***************************************************************************)
(* Properties.                                                             *)
(***************************************************************************)

\* While a line is edited and nothing else draws, the screen shows it: each character at its
\* place from where the line began, nothing after it, and the cursor where the next one goes;
\* whatever the program's output left half way.  A line that came to the right edge, or that
\* holds a tab, is not told of.
EchoShowsTheLine ==
  (edited.live /\ editor.line # <<>> /\ edited.x + edited.widest < screen.cols /\ "tab" \notin ToSet(editor.line)) =>
    /\ screen.x = edited.x + editor.cursor /\ screen.y = edited.y
    /\ \A i \in 1..edited.widest : screen.cells[edited.y * screen.cols + edited.x + i - 1].glyph = (IF i <= Len(editor.line) THEN editor.line[i] ELSE " ")

\* What the window shows when it is scrolled back, and what there is to scroll to, are the
\* rows that left the screen, the last of them first, as many as the ring holds.
ShownCell(s, x, row) ==
  IF row >= s.scrollY THEN s.cells[(row - s.scrollY) * s.cols + x]
  ELSE LET back == s.scrollY - row
       IN  IF back > s.count \/ s.lines = 0 THEN [BlankCell EXCEPT !.glyph = "none"]
           ELSE s.ring[((s.head + s.lines - (back % s.lines)) % s.lines) * s.cols + x]
ScrollbackShowsHistory ==
  /\ screen.count = Least(Len(gone), screen.lines)
  /\ \A back \in 1..screen.count :
       \A x \in 0..(screen.cols - 1) :
         LET view == [screen EXCEPT !.scrollY = back] IN ShownCell(view, x, 0) = gone[Len(gone) - back + 1][x]
  /\ screen.scrollY <= screen.count

\* Down, back from the history, finds the line as it was when Up left it, whatever was done
\* to the lines in between.
DraftComesBack == [][editor.recall # 0 /\ editor'.recall = 0 /\ editor'.line # <<>> => editor'.line = typed]_terminalVars

\* What was typed, what was said and what left the screen are each still there when the
\* others have used the same cursor, ring and line.
TerminalKeepsTheSession == [](EchoShowsTheLine /\ ScrollbackShowsHistory) /\ DraftComesBack
=============================================================================
