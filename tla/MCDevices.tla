----------------------------- MODULE MCDevices ------------------------------
(* Small machines for the devices that keep to themselves: each run of the   *)
(* model works one of them, and the others stand still.                      *)
EXTENDS Storage, HostFs, VideoScan, TerminalScreen, Scanout, Blitter, Audio

(* Screens to scan: programs that write some of the registers.               *)
MCLineTables == {<<>>, <<[line |-> 0, look |-> 2], [line |-> 1, look |-> 1]>>, <<[line |-> 1, look |-> 1], [line |-> 0, look |-> 2]>>}
Watches(uses, left) == [uses |-> uses, left |-> left]
MCPrograms == {Watches({"look", "on", "tableOn", "vram"}, 3), Watches({"look", "height", "reset", "read"}, 3),
               Watches({"lineIrq", "compare", "height", "reset"}, 3), Watches({"present", "buffers", "reset"}, 4)}

(* Terminals: keys that may be pressed meanwhile, and what the program does. *)
Byte(from, b) == [do |-> "byte", stream |-> from, byte |-> b]
Says(from, bytes) == [i \in DOMAIN bytes |-> Byte(from, bytes[i])]
Move(x, y) == <<[do |-> "move", x |-> x, y |-> y]>>
Bits(b) == <<[do |-> "control", bits |-> b]>>
Mode(r, e, h) == <<[do |-> "mode", mode |-> [raw |-> r, echo |-> e, history |-> h]]>>
View(y) == <<[do |-> "scroll", y |-> y]>>
Size(c, r) == <<[do |-> "size", cols |-> c, rows |-> r]>>
Fault == <<[do |-> "fault"]>>
NextOne == <<[do |-> "next"]>>
Session(keys, left, steps) == [keys |-> keys, left |-> left, steps |-> steps]
MCSessions == {
  Session({"a", "b", "left", "bs", "delete", "home", "return"}, 5, Says("out", <<"esc", "[">>)),
  Session({"a", "right", "end", "left", "tab", "^U", "^C", "escape"}, 4, Move(1, 0) \o Says("err", <<"lead3">>)),
  Session({"a", "b", "up", "down", "return"}, 8, <<>>),
  Session({"a", "up", "down", "cr", "lf", "^D"}, 5, Mode(FALSE, TRUE, FALSE) \o Mode(TRUE, TRUE, TRUE) \o NextOne),
  Session({"a", "pageUp", "pageDown", "return"}, 3,
          Says("out", <<"a", "lf", "b", "lf", "a", "u", "lf", "b">>) \o View(1) \o NextOne \o Says("out", <<"lf", "b", "lf">>) \o Fault),
  Session({"pageUp", "pageDown"}, 2,
          Says("out", <<"a", "b", "a", "b", "a", "b", "esc", "[", "2", ";", "3", "r", "lf", "lf", "lf">>) \o Size(3, 3)
            \o Says("out", <<"esc", "[", "r", "esc", "[", "3", "H", "lf", "lf", "b", "lf", "a", "esc", "[", "1", "J", "lf", "lf">>)),
  Session({"a"}, 1,
          Says("err", <<"lead2", "cont", "esc", "[", "7", "m", "lead2", "a", "esc", "(", "A">>)
            \o Says("out", <<"esc", "[", "3", "1", ";", "1", "m", "b", "esc", "7", "esc", "]", "a", "bell",
                             "esc", "[", "?", "2", "5", "l", "bs", "cr", "esc", "8", "esc", "[", "J">>)
            \o Bits({"on", "autoscroll"})
            \o Says("out", <<"lf", "lf", "a", "esc", "[", "K", "esc", "[", "3", "8", ";", "5", ";", "9", "m", "cont", "del">>)
            \o Bits({"scrollback", "on"}) \o Says("out", <<"lf", "lf", "b", "esc", "[", "1", "K">>))}

(* Scenes to compose: orders of priority, matrices, sprites past the limit,  *)
(* text over each mode.                                                      *)
TileA == << <<1, 0>>, <<0, 1>> >>
TileB == << <<0, 1>>, <<0, 0>> >>
EntryOf(n, fx, fy, front, bank) == [tile |-> n, flipX |-> fx, flipY |-> fy, front |-> front, bank |-> bank]
PlainMap == << <<EntryOf(0, FALSE, FALSE, FALSE, 0), EntryOf(1, TRUE, FALSE, TRUE, 1)>>, <<EntryOf(1, FALSE, TRUE, FALSE, 0), EntryOf(9, FALSE, FALSE, TRUE, 0)>> >>
LayerOf(on, priority) ==
  [on |-> on, map |-> PlainMap, tiles |-> [n \in {0, 1} |-> IF n = 0 THEN TileA ELSE TileB], deep |-> FALSE, bank |-> 1, priority |-> priority,
   scrollX |-> 0, scrollY |-> 0, lineScroll |-> FALSE, shifts |-> <<>>,
   originX |-> 0, originY |-> 0, pa |-> Unit, pb |-> 0, pc |-> 0, pd |-> Unit, wrap |-> TRUE]
SpriteOf(x, y, priority) ==
  [visible |-> TRUE, x |-> x, y |-> y, width |-> 2, height |-> 2, graphic |-> 0, bank |-> IF x = 0 THEN 0 ELSE 1, priority |-> priority, flipX |-> FALSE, flipY |-> FALSE, deep |-> FALSE]
Retro(layers, affine, oam, limit) == [layers |-> layers, affine |-> affine, oam |-> oam, limit |-> limit, spritesOn |-> oam # <<>>]
NoBitmap == [on |-> FALSE, rows |-> <<>>, width |-> 1, scrollX |-> 0, scrollY |-> 0, alpha |-> FALSE]
ABitmap == [NoBitmap EXCEPT !.on = TRUE, !.rows = << <<1, 0, 2>>, <<>> >>, !.width = 3, !.scrollX = 4, !.scrollY = 1, !.alpha = TRUE]
Stretch(first, m, on, plane, retro) == [first |-> first, mode |-> m, on |-> on, background |-> first, bitmap |-> plane, retro |-> retro]
NoText == [on |-> FALSE, cells |-> <<>>, font |-> <<>>, glyphs |-> 0, shape |-> "none", blinkOn |-> TRUE, cursorX |-> 0, cursorY |-> 0, scrollY |-> 0]
AText(shape, paper, reverse, underline) ==
  [NoText EXCEPT !.on = TRUE, !.cells = << << [glyph |-> 0, ink |-> 1, paper |-> paper, reverse |-> reverse, underline |-> underline] >> >>,
     !.font = << << <<0, 1, 0>>, <<0, 0, 0>>, <<1, 0, 0>> >> >>, !.glyphs = 1, !.shape = shape]
Scene(stretches, text) == [stretches |-> stretches, pictures |-> [n \in {0, 1} |-> IF n = 0 THEN TileA ELSE TileA \o TileB], text |-> text]
Off == LayerOf(FALSE, 0)

OrderScenes ==
  {Scene(<<Stretch(0, 2, TRUE, ABitmap, Retro(<<LayerOf(TRUE, p[1]), LayerOf(TRUE, p[2])>>, [LayerOf(TRUE, p[3]) EXCEPT !.originX = 4],
                                             <<SpriteOf(0, 0, p[4]), SpriteOf(-1, 1, p[5]), SpriteOf(1, 0, 1)>>, 2))>>, NoText) :
     p \in [1..5 -> {0, 2, 3}]}
MatrixScenes ==
  {Scene(<<Stretch(0, 2, TRUE, NoBitmap, Retro(<<[Off EXCEPT !.on = TRUE, !.lineScroll = TRUE, !.scrollY = 3, !.shifts = << [x |-> 1, y |-> -1], [x |-> -5, y |-> 3], [x |-> 0, y |-> 7] >>]>>,
       [LayerOf(TRUE, 1) EXCEPT !.originX = o[1], !.originY = o[2], !.wrap = w, !.pa = m[1], !.pb = m[2], !.pc = -m[2], !.pd = m[3], !.deep = w], <<>>, 0))>>, NoText) :
     o \in {-5, 0, 6, 19} \X {-2, 0, 9}, w \in BOOLEAN, m \in {-Unit, 2, Unit} \X {0, 3} \X {Unit, -2}}
LimitScenes ==
  {Scene(<<Stretch(0, m, on, NoBitmap, Retro(<<>>, Off, <<SpriteOf(0, ys[1], 0), [SpriteOf(1, ys[2], 1) EXCEPT !.height = 4, !.graphic = 1, !.flipY = TRUE], SpriteOf(2, ys[3], 2)>>, limit)),
           Stretch(2, 2, TRUE, NoBitmap, Retro(<<>>, Off, <<SpriteOf(0, 1, 0), SpriteOf(0, ys[1], 0), [SpriteOf(0, 2, 0) EXCEPT !.visible = on]>>, 1))>>, NoText) :
     ys \in [1..3 -> {-2, -1, 1, 2}], m \in {1, 2}, on \in BOOLEAN, limit \in 1..2}
TextScenes ==
  {Scene(<<Stretch(0, 1, TRUE, ABitmap, Retro(<<>>, Off, <<>>, 0)), Stretch(1, m, on, ABitmap, Retro(<<LayerOf(TRUE, 0)>>, Off, <<>>, 0))>>, AText(shape, paper, reverse, line)) :
     m \in 0..2, on \in BOOLEAN, shape \in {"none", "block", "bar", "underline"}, paper \in {0, 2}, reverse, line \in BOOLEAN}
MCScenes == OrderScenes \cup MatrixScenes \cup LimitScenes \cup TextScenes

(* Blits: overlapping ones, and ones at the ends of RAM and VRAM.            *)
MCMemory == [a \in (0..23) \cup (40..47) |-> (a * a + a \div 3) % 4]
BlitOf(op, d, ds, s, ss, w, h) ==
  [op |-> op, dst |-> d, dstStride |-> ds, src |-> s, srcStride |-> ss, width |-> w, height |-> h,
   color |-> <<1, 0>>, scale |-> 2, palette |-> 1, interrupt |-> TRUE]
Overlaps == {BlitOf(op, d, ds, s, ss, w, h) : op \in {"copy", "copyKeyed"}, d, s \in {0, 2, 5, 9}, ds, ss \in {4, 6}, w \in {2, 3}, h \in {2, 3}}
OtherBlits == {BlitOf(op, d, ds, s, 2, w, 2) : op \in {"fill", "copyScaled", "indexed", "indexedKeyed"}, d \in {2, 8, 40}, s \in {0, 19, 22}, ds \in {4, 8, 40}, w \in {0, 1, 2}}
     \cup {[BlitOf(op, 12, 4, 0, 4, 1, 1) EXCEPT !.scale = n, !.palette = 20, !.interrupt = FALSE] : op \in {"copyScaled", "indexed", "none"}, n \in {0, 9}}
MCBlits == Overlaps \cup OtherBlits

(* Voices and channels.                                                      *)
MCEnvelopes == {[attack |-> 2, decay |-> 1, sustain |-> 2, release |-> 2], [attack |-> 0, decay |-> 3, sustain |-> 0, release |-> 0]}
Orchestra(voice, keys, left) == [voice |-> voice, keys |-> keys, left |-> left]
MCOrchestras == {Orchestra(TRUE, {}, 4), Orchestra(TRUE, {1}, 3), Orchestra(FALSE, {1, 2}, 4)}

-----------------------------------------------------------------------------
VARIABLE works   \* the device that does

DeviceVars == <<works, storageVars, hostFsVars, scanVars, terminalVars, scanoutVars, blitVars, audioVars>>
DeviceInit ==
  \/ works \in {"disk", "ports"} /\ StorageInit /\ HostFsIdle /\ ScanIdle /\ TerminalIdle /\ ScanoutIdle /\ BlitterIdle /\ AudioIdle
  \/ works = "files" /\ HostFsInit /\ StorageIdle /\ ScanIdle /\ TerminalIdle /\ ScanoutIdle /\ BlitterIdle /\ AudioIdle
  \/ works = "scan" /\ ScanInit /\ StorageIdle /\ HostFsIdle /\ TerminalIdle /\ ScanoutIdle /\ BlitterIdle /\ AudioIdle
  \/ works = "terminal" /\ TerminalInit /\ StorageIdle /\ HostFsIdle /\ ScanIdle /\ ScanoutIdle /\ BlitterIdle /\ AudioIdle
  \/ works = "scanout" /\ ScanoutInit /\ StorageIdle /\ HostFsIdle /\ ScanIdle /\ TerminalIdle /\ BlitterIdle /\ AudioIdle
  \/ works = "blitter" /\ BlitterInit /\ StorageIdle /\ HostFsIdle /\ ScanIdle /\ TerminalIdle /\ ScanoutIdle /\ AudioIdle
  \/ works = "audio" /\ AudioInit /\ StorageIdle /\ HostFsIdle /\ ScanIdle /\ TerminalIdle /\ ScanoutIdle /\ BlitterIdle
DeviceNext ==
  /\ UNCHANGED works
  /\ \/ ((works = "disk" /\ DiskNext) \/ (works = "ports" /\ (HostNext \/ PortNext))) /\ UNCHANGED <<hostFsVars, scanVars, terminalVars, scanoutVars, blitVars, audioVars>>
     \/ works = "files" /\ HostFsNext /\ UNCHANGED <<storageVars, scanVars, terminalVars, scanoutVars, blitVars, audioVars>>
     \/ works = "scan" /\ ScanNext /\ UNCHANGED <<storageVars, hostFsVars, terminalVars, scanoutVars, blitVars, audioVars>>
     \/ works = "terminal" /\ TerminalNext /\ UNCHANGED <<storageVars, hostFsVars, scanVars, scanoutVars, blitVars, audioVars>>
     \/ works = "scanout" /\ ScanoutNext /\ UNCHANGED <<storageVars, hostFsVars, scanVars, terminalVars, blitVars, audioVars>>
     \/ works = "blitter" /\ BlitterNext /\ UNCHANGED <<storageVars, hostFsVars, scanVars, terminalVars, scanoutVars, audioVars>>
     \/ works = "audio" /\ AudioNext /\ UNCHANGED <<storageVars, hostFsVars, scanVars, terminalVars, scanoutVars, blitVars>>
DeviceSpec == DeviceInit /\ [][DeviceNext]_DeviceVars
=============================================================================
