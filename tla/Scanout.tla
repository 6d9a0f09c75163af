------------------------------- MODULE Scanout -------------------------------
(* How a frame is composed in software, line by line: the background, the    *)
(* bitmap plane, the tile layers, the affine layer and the sprites by        *)
(* priority, and the text plane over them.  A colour is the palette and the  *)
(* entry it comes from; a tile or a sprite's picture is its indices, 0 what  *)
(* is seen through.                                                          *)
EXTENDS Integers, Sequences, SequencesExt, FiniteSets

CONSTANTS
  TileSize, MapTiles,    \* pixels of a tile and tiles of a map, a side: powers of two
  BankSize, Banks,       \* of the palette, for pictures of few colours
  Unit,                  \* 1.0 in the affine layer's matrix
  FrameWidth, FrameHeight,
  CellWide, CellHigh,    \* pixels of a text cell
  SpriteCount,           \* entries of the OAM
  Scenes                 \* what the registers and the VRAM may hold

ASSUME ScanoutAssumption == {TileSize, MapTiles, BankSize, Banks, Unit, FrameWidth, FrameHeight, CellWide, CellHigh} \subseteq Nat \ {0}

VARIABLES scene, frame   \* frame: the lines composed so far

scanoutVars == <<scene, frame>>

Least2(a, b) == IF a < b THEN a ELSE b
Black == <<"black", 0>>
See == <<"through", 0>>   \* nothing drawn
Columns == 0..(FrameWidth - 1)

-----------------------------------------------------------------------------
(* Tile layers.                                                              *)

MapSide == MapTiles * TileSize
IndexAt(pictures, n, px, py) == IF n \in DOMAIN pictures THEN pictures[n][py + 1][px + 1] ELSE 0
Flipped(flip, at, size) == IF flip THEN size - 1 - at ELSE at
ColourIn(palette, deep, bank, index) == <<palette, IF deep THEN index ELSE (bank % Banks) * BankSize + index>>

\* A pixel drawn, and the priority it is drawn at; See has none.
Unseen == [colour |-> See, priority |-> 0]
MapPixel(layer, entry, fineX, fineY) ==
  LET index == IndexAt(layer.tiles, entry.tile, Flipped(entry.flipX, fineX, TileSize), Flipped(entry.flipY, fineY, TileSize))
  IN  IF index = 0 THEN Unseen
      ELSE [colour |-> ColourIn("tile", layer.deep, entry.bank + layer.bank, index),
            priority |-> IF entry.front /\ layer.priority < 3 THEN layer.priority + 1 ELSE layer.priority]
PixelOfMap(layer, mapX, mapY) ==
  MapPixel(layer, layer.map[mapY \div TileSize + 1][mapX \div TileSize + 1], mapX % TileSize, mapY % TileSize)
LineShift(layer, y) == IF layer.lineScroll THEN layer.shifts[y + 1] ELSE [x |-> 0, y |-> 0]
TileLine(layer, y) ==
  LET shift == LineShift(layer, y)
  IN  [x \in Columns |-> PixelOfMap(layer, (layer.scrollX + shift.x + x) % MapSide, (y + layer.scrollY + shift.y) % MapSide)]

\* Through the matrix; the shift is arithmetic, so -0.5 is pixel -1.
AffineLine(layer, y) ==
  [x \in Columns |->
    LET u == (layer.originX + layer.pb * y + layer.pa * x) \div Unit
        v == (layer.originY + layer.pd * y + layer.pc * x) \div Unit
    IN  IF layer.wrap THEN PixelOfMap(layer, u % MapSide, v % MapSide)
        ELSE IF u \in 0..(MapSide - 1) /\ v \in 0..(MapSide - 1) THEN PixelOfMap(layer, u, v) ELSE Unseen]

-----------------------------------------------------------------------------
(* Sprites.                                                                  *)

\* The visible ones, in the order of the OAM; an entry outside the VRAM is not visible.
SpritesOf(oam) == SelectSeq(SubSeq(oam, 1, Least2(Len(oam), SpriteCount)), LAMBDA sprite : sprite.visible)
Covers(sprite, y) == sprite.y <= y /\ y < sprite.y + sprite.height
\* The first of them the line touches, up to the limit.
SpritesOnLine(sprites, y, limit) ==
  LET all == SelectSeq(sprites, LAMBDA sprite : Covers(sprite, y)) IN SubSeq(all, 1, Least2(Len(all), limit))
SpritePixel(sprite, x, y) ==
  LET index == IndexAt(scene.pictures, sprite.graphic, Flipped(sprite.flipX, x - sprite.x, sprite.width), Flipped(sprite.flipY, y - sprite.y, sprite.height))
  IN  IF x < sprite.x \/ x >= sprite.x + sprite.width \/ index = 0 THEN Unseen
      ELSE [colour |-> ColourIn("sprite", sprite.deep, sprite.bank, index), priority |-> sprite.priority]
\* Each fills the pixels no sprite before it took.
Taken(line, sprite, y) == [x \in Columns |-> IF line[x].colour # See THEN line[x] ELSE SpritePixel(sprite, x, y)]
SpriteLine(retro, y) ==
  FoldLeft(LAMBDA line, sprite : Taken(line, sprite, y), [x \in Columns |-> Unseen], SpritesOnLine(SpritesOf(retro.oam), y, retro.limit))

FindOverflow(sprites, first, end, limit) ==
  LET From0(sprite) == IF sprite.y < first THEN first ELSE sprite.y
      To(sprite) == Least2(sprite.y + sprite.height, end)
      There == {i \in DOMAIN sprites : From0(sprites[i]) < To(sprites[i])}
      starts == [y \in first..end |-> Cardinality({i \in There : From0(sprites[i]) = y}) - Cardinality({i \in There : To(sprites[i]) = y})]
      Step(a, y) == [count |-> a.count + starts[y], line |-> IF a.line = -1 /\ a.count + starts[y] > limit THEN y ELSE a.line]
  IN  IF end <= first \/ Len(sprites) <= limit THEN -1
      ELSE FoldLeft(Step, [count |-> 0, line |-> -1], [i \in 1..(end - first) |-> first + i - 1]).line

EndOf(i) == IF i < Len(scene.stretches) THEN Least2(scene.stretches[i + 1].first, FrameHeight) ELSE FrameHeight
CountsSprites(i) == LET s == scene.stretches[i] IN s.mode >= 2 /\ s.on /\ s.retro.spritesOn /\ s.first < EndOf(i)
\* What SpriteStatus says of the frame: its first line over the limit, or -1.
SpriteStatus ==
  FoldLeft(LAMBDA line, i : IF line # -1 \/ ~CountsSprites(i) THEN line
                            ELSE FindOverflow(SpritesOf(scene.stretches[i].retro.oam), scene.stretches[i].first, EndOf(i), scene.stretches[i].retro.limit),
           -1, [i \in DOMAIN scene.stretches |-> i])

-----------------------------------------------------------------------------
(* Composing.                                                                *)

\* The layers in the order of their slots: the tile layers and then the affine one.
LayerLines(retro, y) ==
  [i \in DOMAIN retro.layers |-> IF retro.layers[i].on THEN TileLine(retro.layers[i], y) ELSE [x \in Columns |-> Unseen]]
  \o << IF retro.affine.on THEN AffineLine(retro.affine, y) ELSE [x \in Columns |-> Unseen] >>
Painted(under, from, priority) ==
  [x \in Columns |-> IF from[x].colour # See /\ from[x].priority = priority THEN from[x].colour ELSE under[x]]
(* Mutant: the layers are painted in the order of their slots. *)
ComposedForwards(retro, y, under) ==
  LET lines == LayerLines(retro, y)
      sprites == IF retro.spritesOn THEN SpriteLine(retro, y) ELSE [x \in Columns |-> Unseen]
      At(line, priority) == Painted(FoldLeft(LAMBDA a, from : Painted(a, from, priority), line, lines), sprites, priority)
  IN  FoldLeft(At, under, <<0, 1, 2, 3>>)
\* From the back: each priority in turn, and within one the layers from the last slot to
\* the first and then the sprites.
Composed(retro, y, under) ==
  LET lines == Reverse(LayerLines(retro, y))
      sprites == IF retro.spritesOn THEN SpriteLine(retro, y) ELSE [x \in Columns |-> Unseen]
      At(line, priority) == Painted(FoldLeft(LAMBDA a, from : Painted(a, from, priority), line, lines), sprites, priority)
  IN  FoldLeft(At, under, <<0, 1, 2, 3>>)

\* The bitmap, scrolled and wrapping round; a row the VRAM does not hold shows nothing.
BitmapPixel(bitmap, x, y) ==
  LET row == bitmap.rows[((y + bitmap.scrollY) % Len(bitmap.rows)) + 1]
  IN  IF row = <<>> THEN See ELSE LET index == row[((x + bitmap.scrollX) % bitmap.width) + 1]
                                  IN  IF index = 0 /\ bitmap.alpha THEN See ELSE <<"bitmap", index>>
BitmapOver(bitmap, y, under) == [x \in Columns |-> LET pixel == BitmapPixel(bitmap, x, y) IN IF pixel = See THEN under[x] ELSE pixel]

\* The text cell's pixels, and the cursor's in its shapes.
CursorAt(text, col, row) ==
  text.shape # "none" /\ text.blinkOn /\ text.scrollY = 0 /\ text.cursorX = col /\ text.cursorY = row
TextPixel(text, x, y) ==
  LET col == x \div CellWide   row == y \div CellHigh   inX == x % CellWide   inY == y % CellHigh
      cell == text.cells[row + 1][col + 1]
      here == CursorAt(text, col, row)
      swapped == cell.reverse # (here /\ text.shape = "block")
      ink == IF swapped THEN cell.paper ELSE cell.ink
      paper == IF swapped THEN cell.ink ELSE cell.paper
      opaque == (IF cell.reverse THEN cell.ink ELSE cell.paper) # 0 \/ (here /\ text.shape = "block")
      bit == \/ cell.glyph < text.glyphs /\ text.font[cell.glyph + 1][inY + 1][inX + 1] = 1
             \/ cell.underline /\ inY = CellHigh - 1
             \/ here /\ text.shape = "underline" /\ inY >= CellHigh - 2
             \/ here /\ text.shape = "bar" /\ inX < 2
  IN  IF y \div CellHigh >= Len(text.cells) \/ col >= FrameWidth \div CellWide \/ row >= FrameHeight \div CellHigh THEN See
      ELSE IF bit THEN <<"text", ink>> ELSE IF opaque THEN <<"text", paper>> ELSE See
TextOver(text, y, under) == [x \in Columns |-> LET pixel == TextPixel(text, x, y) IN IF pixel = See THEN under[x] ELSE pixel]

AnyEnabled(retro) == retro.spritesOn \/ retro.affine.on \/ \E i \in DOMAIN retro.layers : retro.layers[i].on
StretchOf(y) == CHOOSE i \in DOMAIN scene.stretches : scene.stretches[i].first <= y /\ y < EndOf(i)
AnyOn == \E i \in DOMAIN scene.stretches : scene.stretches[i].on /\ scene.stretches[i].first < EndOf(i)
\* A line of the frame: the display off leaves it black, the text plane's cells too.
LineComposed(y) ==
  LET s == scene.stretches[StretchOf(y)]
      back == [x \in Columns |-> <<"back", s.background>>]
      bitmap == IF s.mode >= 1 /\ s.bitmap.on THEN BitmapOver(s.bitmap, y, back) ELSE back
      retro == IF s.mode >= 2 /\ AnyEnabled(s.retro) THEN Composed(s.retro, y, bitmap) ELSE bitmap
      text == IF scene.text.on THEN TextOver(scene.text, y, retro) ELSE retro
  IN  IF ~s.on \/ ~AnyOn THEN [x \in Columns |-> Black] ELSE text

ScanoutInit == scene \in Scenes /\ frame = <<>>
ScanoutIdle == scene = [stretches |-> <<>>] /\ frame = <<>>
ComposeLine == scene.stretches # <<>> /\ Len(frame) < FrameHeight /\ frame' = Append(frame, LineComposed(Len(frame))) /\ UNCHANGED scene
ScanoutNext == ComposeLine

(***************************************************************************)
(* Properties.                                                             *)
(***************************************************************************)

\* What there is at a pixel, each with how far in front it is.
Drawn(s, x, y) ==
  LET retro == s.retro
      layers == {[colour |-> TileLine(retro.layers[i], y)[x].colour, rank |-> 10 * TileLine(retro.layers[i], y)[x].priority + 8 - i] :
                   i \in {j \in DOMAIN retro.layers : retro.layers[j].on}}
      affine == IF retro.affine.on THEN {[colour |-> AffineLine(retro.affine, y)[x].colour, rank |-> 10 * AffineLine(retro.affine, y)[x].priority + 1]} ELSE {}
      shown == SpritesOnLine(SpritesOf(retro.oam), y, retro.limit)
      opaque == {i \in DOMAIN shown : SpritePixel(shown[i], x, y).colour # See}
      sprite == IF retro.spritesOn /\ opaque # {}
                THEN LET p == SpritePixel(shown[CHOOSE i \in opaque : \A j \in opaque : i <= j], x, y) IN {[colour |-> p.colour, rank |-> 10 * p.priority + 9]}
                ELSE {}
  IN  {d \in layers \cup affine \cup sprite : d.colour # See}
\* A pixel shows the front of what is drawn there: the text; then by priority, at one
\* priority the sprites, the layers from 0 to 3 and the affine layer, and of the sprites the
\* first in the OAM whatever its priority; then the bitmap and the background.
FrontmostShows ==
  \A y \in 0..(Len(frame) - 1), x \in Columns :
    LET s == scene.stretches[StretchOf(y)]
        text == IF scene.text.on THEN TextPixel(scene.text, x, y) ELSE See
        drawn == IF s.mode >= 2 THEN Drawn(s, x, y) ELSE {}
        bitmap == IF s.mode >= 1 /\ s.bitmap.on THEN BitmapPixel(s.bitmap, x, y) ELSE See
    IN  frame[y + 1][x] = IF ~s.on THEN Black ELSE IF text # See THEN text
                          ELSE IF drawn # {} THEN (CHOOSE d \in drawn : \A e \in drawn : e.rank <= d.rank).colour
                          ELSE IF bitmap # See THEN bitmap ELSE <<"back", s.background>>

\* The affine layer through the identity, wrapping, is the tile layer scrolled as far.
StraightIsTiled ==
  \A i \in DOMAIN scene.stretches :
    LET affine == scene.stretches[i].retro.affine
        tiled == [affine EXCEPT !.scrollX = affine.originX \div Unit, !.scrollY = affine.originY \div Unit]
    IN  (affine.wrap /\ <<affine.pa, affine.pb, affine.pc, affine.pd>> = <<Unit, 0, 0, Unit>>) =>
          \A y \in 0..(FrameHeight - 1) : AffineLine(affine, y) = TileLine(tiled, y)

\* The program is told of the first line that a sprite was left out of, and of none when
\* none was.
OverflowIsTold ==
  LET short == {y \in 0..(FrameHeight - 1) :
                  LET i == StretchOf(y)  s == scene.stretches[i]  all == SelectSeq(SpritesOf(s.retro.oam), LAMBDA sprite : Covers(sprite, y))
                  IN  CountsSprites(i) /\ Len(all) > Len(SpritesOnLine(all, y, s.retro.limit))}
  IN  scene.stretches # <<>> => SpriteStatus = IF short = {} THEN -1 ELSE CHOOSE y \in short : \A z \in short : y <= z

\* A frame is the front of what its registers and tables ask for, and says what it left out.
PictureIsAsOrdered == FrontmostShows /\ StraightIsTiled /\ OverflowIsTold
=============================================================================
