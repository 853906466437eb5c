------------------------------ MODULE Graphics ------------------------------
(***************************************************************************)
(* The framebuffer (gfx.c, fbterminal.c, framebuffer.c): characters drawn  *)
(* as glyphs for the terminal, and the pixels that a program writes to     *)
(* /dev/fb0 or stores through a mapping of it.  Video memory is counted in *)
(* pixels of four bytes, and so are pitch and page; the monitor shows line *)
(* y from pixel y * pitch on.  A store to a page that is not mapped is a   *)
(* page fault in the kernel, after which nothing is drawn.                 *)
(***************************************************************************)
EXTENDS Integers, Sequences, FiniteSets, SequencesExt

CONSTANTS
    Modes,          \* what the boot loader may set: [width, height, depth, pitch]
    PagePixels,     \* pixels in PAGESIZE_4K
    FontWidth, FontHeight,  \* 8 and 16
    Glyphs,         \* glyph of a code: the places <<x, y>> that are lit
    Characters,     \* codes the terminal draws
    WriteSizes,     \* sizes of a write to the device, in pixels
    MapSizes,       \* sizes of a mapping, in pixels
    Stores          \* pixels that a program stores to through its mapping

White == "white"
Black == "black"
Red == "red"
Foreign == "other"  \* what a program draws

ASSUME GraphicsAssumption ==
    /\ Modes \subseteq [width : Nat, height : Nat, depth : 1 .. 4, pitch : Nat]
    /\ \A mode \in Modes : mode.width <= mode.pitch
    /\ {PagePixels, FontWidth, FontHeight} \subseteq Nat \ {0}
    /\ WriteSizes \subseteq Nat
    /\ 0 \in DOMAIN Glyphs
    /\ \A c \in DOMAIN Glyphs : Glyphs[c] \subseteq (0..FontWidth - 1) \X (0..FontHeight - 1)

VARIABLES
    mode,           \* g_width, g_height, g_bytes_per_pixel, g_pitch
    pixels,         \* video memory behind g_pixels
    offset,         \* file->offset of the program's open file
    userPages,      \* pages of video memory that the program has mapped
    fault,          \* the kernel touched a page it had not mapped
    drawn           \* history: for each cell what was drawn last, or "other"

graphicsVars == <<mode, pixels, offset, userPages, fault, drawn>>

-----------------------------------------------------------------------------
\* fbterminal_setup: gfx_get_width() / 9 and gfx_get_height() / 16.
CellColumns == mode.width \div (FontWidth + 1)
CellRows == mode.height \div FontHeight
Cells == (0..CellColumns - 1) \X (0..CellRows - 1)

\* Video memory goes on behind what gfx_initialize maps.
Video(m) == 0..m.pitch * (m.height + FontHeight) - 1

\* gfx_initialize: whole pages of width * height * bytes per pixel.
MappedPixels(m) ==
    LET pages == ((m.width * m.height * m.depth) \div 4) \div PagePixels
    IN 0..pages * PagePixels - 1

\* The pixels a fill stores to, lines one width apart.
FilledPixels(m) == 0..m.width * m.height - 1

\* Faulty variant: as many lines, but one pitch apart in the glyph loop only.
PixelAtWidth(cell, x, y) ==
    (cell[2] * FontHeight + y) * mode.width + cell[1] * (FontWidth + 1) + x
\* gfx_put_char_at: offs, line.
PixelAt(cell, x, y) ==
    (cell[2] * FontHeight + y) * mode.pitch + cell[1] * (FontWidth + 1) + x

\* The glyph of a code that the font does not have is the first one.
GlyphOf(c) == IF c > 0 /\ c < Cardinality(DOMAIN Glyphs) THEN Glyphs[c] ELSE Glyphs[0]

\* The colour of a place in the cell; code 0 is background only.
Colour(ink, x, y) == IF ink.c # 0 /\ <<x, y>> \in GlyphOf(ink.c) THEN ink.fg ELSE ink.bg

GlyphPlaces == (0..FontWidth - 1) \X (0..FontHeight - 1)

CellPixels(cell) == {PixelAt(cell, p[1], p[2]) : p \in GlyphPlaces}

\* gfx_put_char_at with the ink of one cell.
PutCharAt(shown, put) ==
    LET colourAt(i) == LET p == CHOOSE p \in GlyphPlaces : PixelAt(put.cell, p[1], p[2]) = i
                       IN Colour(put.ink, p[1], p[2])
    IN [i \in DOMAIN shown |->
           IF i \in CellPixels(put.cell) THEN colourAt(i) ELSE shown[i]]

\* Some calls of gfx_put_char_at, one after another.
Put(s, put) ==
    [shown |-> PutCharAt(s.shown, put), drawn |-> [s.drawn EXCEPT ![put.cell] = put.ink]]

PutAll(puts) ==
    LET Done[k \in 0 .. Len(puts)] ==
            IF k = 0 THEN [shown |-> pixels, drawn |-> drawn] ELSE Put(Done[k - 1], puts[k])
        last == Done[Len(puts)]
    IN IF \A k \in DOMAIN puts : CellPixels(puts[k].cell) \subseteq MappedPixels(mode)
       THEN /\ pixels' = last.shown
            /\ drawn' = last.drawn
            /\ UNCHANGED <<mode, offset, userPages, fault>>
       ELSE fault' = TRUE /\ UNCHANGED <<mode, pixels, offset, userPages, drawn>>

Plain(cell, c) == [cell |-> cell, ink |-> [c |-> c, fg |-> Black, bg |-> White]]
Cursor(cell, c) == [cell |-> cell, ink |-> [c |-> c, fg |-> Red, bg |-> Black]]

\* fbterminal_addCharacter
AddCharacter(c, cell) == PutAll(<<Plain(cell, c)>>)

\* fbterminal_moveCursor: the old place from the buffer, then the new one.
MoveCursorTo(from, to, old, new) ==
    /\ from = to => old = new
    /\ PutAll(<<Plain(from, old), Cursor(to, new)>>)

\* fbterminal_refreshTerminal: every cell from the buffer, line by line.
RefreshTerminal(text) ==
    PutAll([k \in 1..CellRows * CellColumns |->
               LET cell == <<(k - 1) % CellColumns, (k - 1) \div CellColumns>>
               IN Plain(cell, text[cell])])

\* gfx_fill, which console_set_active_terminal calls before it refreshes.
Fill(colour) ==
    IF FilledPixels(mode) \subseteq MappedPixels(mode)
    THEN /\ pixels' = [i \in DOMAIN pixels |-> IF i \in FilledPixels(mode) THEN colour
                                              ELSE pixels[i]]
         /\ drawn' = [cell \in Cells |-> [c |-> -1]]
         /\ UNCHANGED <<mode, offset, userPages, fault>>
    ELSE fault' = TRUE /\ UNCHANGED <<mode, pixels, offset, userPages, drawn>>

\* What a program drew over is no longer the terminal's.
DrawnOver(touched) ==
    [cell \in Cells |->
        IF CellPixels(cell) \cap touched # {}
        THEN [c |-> -1] ELSE drawn[cell]]

\* fb_write: width * height pixels, from the offset of the file.
FbWrite(size) ==
    LET available == mode.width * mode.height - offset
        count == IF size < available THEN size ELSE available
        touched == offset..offset + count - 1
    IN /\ available > 0
       /\ IF touched \subseteq MappedPixels(mode)
          THEN /\ pixels' = [i \in DOMAIN pixels |->
                                IF i \in touched THEN Foreign ELSE pixels[i]]
               /\ offset' = offset + count
               /\ drawn' = DrawnOver(touched)
               /\ UNCHANGED <<mode, userPages, fault>>
          ELSE fault' = TRUE /\ UNCHANGED <<mode, pixels, offset, userPages, drawn>>

\* fb_mmap: as many pages as asked for, from the beginning of video memory.
FbMmap(size) ==
    /\ userPages = 0
    /\ userPages' = ((size - 1) \div PagePixels) + 1
    /\ UNCHANGED <<mode, pixels, offset, fault, drawn>>

FbMunmap ==
    /\ userPages > 0
    /\ userPages' = 0
    /\ UNCHANGED <<mode, pixels, offset, fault, drawn>>

\* The program stores a pixel through its mapping.
UserStore(i) ==
    /\ i < userPages * PagePixels /\ i \in DOMAIN pixels
    /\ pixels' = [pixels EXCEPT ![i] = Foreign]
    /\ drawn' = DrawnOver({i})
    /\ UNCHANGED <<mode, offset, userPages, fault>>

\* gfx_initialize; console_initialize then draws the first, blank terminal.
GraphicsInit ==
    /\ mode \in Modes
    /\ pixels = [i \in Video(mode) |->
                    IF i \in FilledPixels(mode) \cap MappedPixels(mode) THEN White ELSE Foreign]
    /\ offset = 0
    /\ userPages = 0
    /\ fault = ~(FilledPixels(mode) \subseteq MappedPixels(mode))
    /\ drawn = [cell \in Cells |-> [c |-> -1]]

GraphicsNext ==
    /\ ~fault
    /\ \/ \E c \in Characters, cell \in Cells : AddCharacter(c, cell)
       \/ \E from, to \in Cells, old, new \in Characters : MoveCursorTo(from, to, old, new)
       \/ \E c \in Characters, d \in Characters :
              RefreshTerminal([cell \in Cells |-> IF cell[1] = cell[2] THEN c ELSE d])
       \/ Fill(White)
       \/ \E size \in WriteSizes : FbWrite(size)
       \/ \E size \in MapSizes : FbMmap(size)
       \/ FbMunmap
       \/ \E i \in Stores : UserStore(i)

GraphicsSpec == GraphicsInit /\ [][GraphicsNext]_graphicsVars

-----------------------------------------------------------------------------
\* The monitor shows in every cell what the terminal drew there last, until a fill or
\* a program draws over it: drawing one cell disturbs no other, the last column and
\* row included.  The kernel touches no page it has not mapped if lines are not
\* padded and the picture fills whole pages of four-byte pixels.
PixelsShowCells ==
    /\ \A cell \in Cells, p \in GlyphPlaces :
           drawn[cell].c # -1 =>
               pixels[(cell[2] * FontHeight + p[2]) * mode.pitch
                      + cell[1] * (FontWidth + 1) + p[1]] = Colour(drawn[cell], p[1], p[2])
    /\ fault => \/ mode.pitch > mode.width
                \/ mode.depth < 4
                \/ (mode.width * mode.height) % PagePixels # 0
=============================================================================
