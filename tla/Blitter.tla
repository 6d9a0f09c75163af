------------------------------ MODULE Blitter -------------------------------
(* The 2D blitter: a rectangle operation on surfaces in RAM and VRAM, row by *)
(* row and at once, which stops at the first row outside them.               *)
EXTENDS Integers, Sequences, SequencesExt, FiniteSets

CONSTANTS
  PixelBytes,                    \* of a pixel; a byte is one index of a source of indices
  RamBytes, VramBase, VramBytes,
  LastAddress,                   \* of the address space
  Entries,                       \* of the palette
  MaxScale,
  Memory,                        \* what RAM and VRAM hold at first
  Blits,                         \* what the registers may hold when the command is written
  MaxBlits

ASSUME BlitterAssumption ==
  /\ PixelBytes \in Nat \ {0} /\ MaxScale \in Nat \ {0} /\ RamBytes <= VramBase /\ VramBase + VramBytes <= LastAddress + 1
  /\ DOMAIN Memory = (0..(RamBytes - 1)) \cup (VramBase..(VramBase + VramBytes - 1))

VARIABLES
  surface,  \* RAM and VRAM, by address
  blitter,  \* [status, pixels]
  finished, \* the interrupts asked for
  blit,     \* the last operation, <<>> before the first; for the properties
  before    \* the memory as it was then, for the properties

blitVars == <<surface, blitter, finished, blit, before>>

Outside == -1
Row(address, bytes) ==
  IF \/ bytes = 0 \/ address > LastAddress
     \/ address >= VramBase /\ address + bytes > VramBase + VramBytes
     \/ address < VramBase /\ address + bytes > RamBytes
  THEN Outside ELSE address
SurfaceRow(base, y, stride, bytes) == Row(base + y * stride, bytes)
BytesAt(mem, at, bytes) == [i \in 1..bytes |-> mem[at + i - 1]]
Pixel(line, x) == SubSeq(line, x * PixelBytes + 1, (x + 1) * PixelBytes)

\* An operation so far: the memory, the pixels written and whether every row was there.
Failed(done) == [done EXCEPT !.ok = FALSE]
\* A row of pixels stored, leaving some out.
Stored(done, at, pixels, leftOut) ==
  [done EXCEPT
    !.mem = [a \in DOMAIN @ |->
               IF at <= a /\ a < at + Len(pixels) * PixelBytes /\ (a - at) \div PixelBytes \notin leftOut
               THEN pixels[(a - at) \div PixelBytes + 1][((a - at) % PixelBytes) + 1] ELSE @[a]],
    !.pixels = @ + Len(pixels) - Cardinality(leftOut)]

FillRow(b, done, y) ==
  LET d == SurfaceRow(b.dst, y, b.dstStride, b.width * PixelBytes)
  IN  IF d = Outside THEN Failed(done) ELSE Stored(done, d, [x \in 1..b.width |-> b.color], {})
CopyRow(b, done, y) ==
  LET s == SurfaceRow(b.src, y, b.srcStride, b.width * PixelBytes)
      d == SurfaceRow(b.dst, y, b.dstStride, b.width * PixelBytes)
      line == BytesAt(done.mem, s, b.width * PixelBytes)
  IN  IF s = Outside \/ d = Outside THEN Failed(done)
      ELSE Stored(done, d, [x \in 1..b.width |-> Pixel(line, x - 1)],
                  IF b.op = "copyKeyed" THEN {x \in 0..(b.width - 1) : Pixel(line, x) = b.color} ELSE {})
Scale(b) == IF b.scale < 1 THEN 1 ELSE IF b.scale > MaxScale THEN MaxScale ELSE b.scale
ScaledRow(b, done, y) ==
  LET s == SurfaceRow(b.src, y, b.srcStride, b.width * PixelBytes)
      line == BytesAt(done.mem, s, b.width * PixelBytes)
      bytes == b.width * Scale(b) * PixelBytes
      StoreOnce(so, k) ==
        LET d == SurfaceRow(b.dst, y * Scale(b) + k - 1, b.dstStride, bytes)
        IN  IF ~so.ok \/ d = Outside THEN Failed(so)
            ELSE Stored(so, d, [x \in 1..(b.width * Scale(b)) |-> Pixel(line, (x - 1) \div Scale(b))], {})
  IN  IF s = Outside THEN Failed(done) ELSE FoldLeftDomain(StoreOnce, done, [k \in 1..Scale(b) |-> k])
IndexedRow(b, done, y, palette) ==
  LET s == SurfaceRow(b.src, y, b.srcStride, b.width)
      d == SurfaceRow(b.dst, y, b.dstStride, b.width * PixelBytes)
      line == BytesAt(done.mem, s, b.width)
  IN  IF s = Outside \/ d = Outside THEN Failed(done)
      ELSE Stored(done, d, [x \in 1..b.width |-> Pixel(palette, line[x])],
                  IF b.op = "indexedKeyed" THEN {x \in 0..(b.width - 1) : line[x + 1] = b.color[1]} ELSE {})

(* Mutant: always from the top. *)
RowOrderDown(b) == [i \in 1..b.height |-> i - 1]
\* A copy goes from the bottom when what it writes starts behind what it reads.
RowOrder(b) == [i \in 1..b.height |-> IF b.op \in {"copy", "copyKeyed"} /\ b.dst > b.src THEN b.height - i ELSE i - 1]
Worked(b, mem) ==
  LET start == [mem |-> mem, pixels |-> 0, ok |-> TRUE]
      table == Row(b.palette, Entries * PixelBytes)
      order == RowOrder(b)
      OneRow(done, i) ==
        IF ~done.ok THEN done
        ELSE CASE b.op = "fill" -> FillRow(b, done, order[i])
               [] b.op \in {"copy", "copyKeyed"} -> CopyRow(b, done, order[i])
               [] b.op = "copyScaled" -> ScaledRow(b, done, order[i])
               [] OTHER -> IndexedRow(b, done, order[i], BytesAt(mem, table, Entries * PixelBytes))
  IN  IF b.op = "none" \/ (b.op \in {"indexed", "indexedKeyed"} /\ table = Outside) THEN Failed(start)
      ELSE FoldLeftDomain(OneRow, start, order)

\* The command register is written: the operation is done, the interrupt asked for whether
\* or not it failed.
BlitCommand(b) ==
  /\ finished < MaxBlits
  /\ LET done == Worked(b, surface)
     IN  surface' = done.mem /\ blitter' = [status |-> IF done.ok THEN "ok" ELSE "error", pixels |-> done.pixels]
  /\ finished' = IF b.interrupt THEN finished + 1 ELSE finished
  /\ blit' = <<b>> /\ before' = surface
BlitReset == blit # <<>> /\ blitter' = [status |-> "ok", pixels |-> 0] /\ blit' = <<>> /\ UNCHANGED <<surface, finished, before>>

BlitterStart == blitter = [status |-> "ok", pixels |-> 0] /\ finished = 0 /\ blit = <<>>
BlitterInit == BlitterStart /\ surface = Memory /\ before = Memory
BlitterIdle == BlitterStart /\ surface = <<>> /\ before = <<>>
BlitterNext == surface # <<>> /\ ((\E b \in Blits : BlitCommand(b)) \/ BlitReset)

(***************************************************************************)
(* Properties.                                                             *)
(***************************************************************************)

\* The pixels a rectangle operation is to write, each from the memory as it was: address of
\* the pixel to what it becomes.
Target(b, x, y) == b.dst + y * b.dstStride + x * PixelBytes
Asked(b) ==
  LET n == IF b.op = "copyScaled" THEN Scale(b) ELSE 1
      At(x, y) == b.src + (y \div n) * b.srcStride + (x \div n) * (IF b.op \in {"indexed", "indexedKeyed"} THEN 1 ELSE PixelBytes)
      Value(x, y) == IF b.op = "fill" THEN b.color
                     ELSE IF b.op \in {"indexed", "indexedKeyed"}
                     THEN BytesAt(before, b.palette + before[At(x, y)] * PixelBytes, PixelBytes)
                     ELSE BytesAt(before, At(x, y), PixelBytes)
      Kept(x, y) == ~(b.op = "copyKeyed" /\ Value(x, y) = b.color) /\ ~(b.op = "indexedKeyed" /\ before[At(x, y)] = b.color[1])
  IN  {[at |-> Target(b, p[1], p[2]), value |-> Value(p[1], p[2])] :
         p \in {q \in (0..(b.width * n - 1)) \X (0..(b.height * n - 1)) : Kept(q[1], q[2])}}
\* Where the rows of an operation may not be told apart: a copy between surfaces of unlike
\* strides, or onto the pixels it scales or looks up.
Touches(b) ==
  LET n == IF b.op = "copyScaled" THEN Scale(b) ELSE 1
      Covered(at, stride, w, h) == UNION {(at + y * stride)..(at + y * stride + w - 1) : y \in 0..(h - 1)}
  IN  Covered(b.dst, b.dstStride, b.width * n * PixelBytes, b.height * n)
        \cap Covered(b.src, b.srcStride, IF b.op \in {"indexed", "indexedKeyed"} THEN b.width ELSE b.width * PixelBytes, b.height) # {}
InOrder(b) ==
  /\ b.dstStride >= b.width * (IF b.op = "copyScaled" THEN Scale(b) ELSE 1) * PixelBytes
  /\ b.op = "fill" \/ (b.op \in {"copy", "copyKeyed"} /\ b.srcStride = b.dstStride) \/ ~Touches(b)

\* An operation that did not fail made every pixel what it was to be from the memory as it
\* was before, overlapping or not, wrote nothing else and counted each of them.
BlitIsAsAsked ==
  \A i \in DOMAIN blit :
    LET b == blit[i]  asked == Asked(b)
    IN  (blitter.status = "ok" /\ InOrder(b)) =>
          /\ \A p \in asked : BytesAt(surface, p.at, PixelBytes) = p.value
          /\ \A a \in DOMAIN surface : surface[a] # before[a] => \E p \in asked : p.at <= a /\ a < p.at + PixelBytes
          /\ blitter.pixels = Cardinality(asked)
=============================================================================
