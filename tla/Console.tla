------------------------------ MODULE Console ------------------------------
(***************************************************************************)
(* The screen: fill_screen (kernel/src/main.rs) paints the framebuffer,    *)
(* console::init validates it, and then every byte printed is drawn by     *)
(* Console::write_byte (kernel/src/console.rs), scrolling by moving pixels. *)
(* The framebuffer is its bytes: the two painters store pixels differently. *)
(* A byte is drawn inside without_interrupts, so drawing is one step.  The  *)
(* calls come from Serial.                                                  *)
(***************************************************************************)
EXTENDS Naturals, Sequences

CONSTANTS
    GLYPH_WIDTH, GLYPH_HEIGHT,
    Glyph,              \* font::glyph: for each character, the set of <<dx, dy>> lit
    LIMIT,              \* 2^64
    Framebuffers,       \* [addr, size, width, height, stride, bytes_per_pixel, format]
    Memory              \* bytes from the framebuffer's address on that are watched

WORD    == 4            \* size_of::<u32>()
FOREIGN == 256          \* what a byte nobody has written holds

\* Framebuffers come from open_framebuffer and passed BootInfo::is_valid: the
\* format is one of the two that can be drawn.
ASSUME ConsoleAssumption ==
    /\ GLYPH_WIDTH \in Nat \ {0} /\ GLYPH_HEIGHT \in Nat \ {0}
    /\ \A c \in DOMAIN Glyph :
          /\ c \notin {"\n", "\r"}
          /\ Glyph[c] \subseteq (0 .. (GLYPH_WIDTH - 1)) \X (0 .. (GLYPH_HEIGHT - 1))
    /\ LIMIT \in Nat /\ Memory \in Nat
    /\ \A f \in Framebuffers :
          /\ {f.addr, f.size, f.width, f.height, f.stride, f.bytes_per_pixel} \subseteq Nat
          /\ f.size <= Memory
          /\ f.format \in {"Rgb", "Bgr"}

VARIABLES
    fb,                 \* BootInfo.framebuffer
    pc,                 \* "paint", "init", then "ready" or "disabled"
    mem,                \* the bytes at and after fb.addr
    column, row,        \* the cursor, in cells
    lines               \* history: what was drawn, cut into screen lines

screen == <<fb, pc, mem, column, row, lines>>

Background == [red |-> 0, green |-> 51, blue |-> 153]
Foreground == [red |-> 224, green |-> 224, blue |-> 224]

ConsoleInit ==
    /\ fb \in Framebuffers /\ pc = "paint"
    /\ mem = [i \in 0 .. (Memory - 1) |-> FOREIGN]
    /\ column = 0 /\ row = 0 /\ lines = <<<<>>>>

-----------------------------------------------------------------------------
\* Word index of the pixel at (x, y).
At_ByWidth(x, y) == y * fb.width + x
At(x, y) == y * fb.stride + x

\* fill_screen: pixel by pixel, skipping those past the reported size.
FillPixel(c) == IF fb.format = "Rgb" THEN <<c.red, c.green, c.blue, 0>>
                                     ELSE <<c.blue, c.green, c.red, 0>>
Within_Start(offset, bytes) == offset < fb.size
Within(offset, bytes) == offset + bytes <= fb.size

fill_screen ==
    /\ pc = "paint" /\ pc' = "init"
    /\ LET bpp == IF fb.bytes_per_pixel < WORD THEN fb.bytes_per_pixel ELSE WORD
       IN  mem' = [i \in DOMAIN mem |->
                     IF \E x \in 0 .. (fb.width - 1), y \in 0 .. (fb.height - 1) :
                           /\ Within(At(x, y) * bpp, bpp)
                           /\ At(x, y) * bpp <= i /\ i < At(x, y) * bpp + bpp
                     THEN FillPixel(Background)[(i % bpp) + 1]
                     ELSE mem[i]]
    /\ UNCHANGED <<fb, column, row, lines>>

\* Console::new accepts the framebuffer.
Accepts ==
    /\ fb.addr # 0 /\ fb.addr % WORD = 0
    /\ fb.bytes_per_pixel = WORD
    /\ fb.stride >= fb.width
    /\ fb.width >= GLYPH_WIDTH /\ fb.height >= GLYPH_HEIGHT
    /\ fb.stride * fb.height * WORD < LIMIT
    /\ fb.stride * fb.height * WORD <= fb.size
    /\ fb.addr + fb.stride * fb.height * WORD < LIMIT

InitConsole ==
    /\ pc = "init" /\ pc' = IF Accepts THEN "ready" ELSE "disabled"
    /\ UNCHANGED <<fb, mem, column, row, lines>>

columns == fb.width \div GLYPH_WIDTH
rows    == fb.height \div GLYPH_HEIGHT

-----------------------------------------------------------------------------
\* pack, stored as a little-endian u32: the k-th byte of a pixel.
pack(c) == IF fb.format = "Rgb" THEN c.red + c.green * 256 + c.blue * 65536
                                ELSE c.blue + c.green * 256 + c.red * 65536
Weight == <<1, 256, 65536, 16777216>>
StoredByte(c, k) == (pack(c) \div Weight[k + 1]) % 256

\* scroll: move the whole image up by a text row, then clear the bottom.
scroll(m) ==
    LET shift  == GLYPH_HEIGHT * fb.stride
        pixels == fb.height * fb.stride
    IN  [i \in DOMAIN m |->
            IF \E x \in 0 .. (fb.width - 1), y \in (fb.height - GLYPH_HEIGHT) .. (fb.height - 1) :
                  i \div WORD = At(x, y)
            THEN StoredByte(Background, i % WORD)
            ELSE IF i < (pixels - shift) * WORD THEN m[i + shift * WORD]
            ELSE m[i]]

\* A cursor and the memory behind it: [mem, column, row].
newline(s) ==
    IF s.row + 1 < rows THEN [s EXCEPT !.column = 0, !.row = @ + 1]
                        ELSE [s EXCEPT !.column = 0, !.mem = scroll(@)]

draw_glyph(s, byte) ==
    [i \in DOMAIN s.mem |->
        LET covers(p) == i \div WORD = At(s.column * GLYPH_WIDTH + p[1], s.row * GLYPH_HEIGHT + p[2])
        IN  IF \E p \in Glyph[byte] : covers(p) THEN StoredByte(Foreground, i % WORD)
            ELSE IF \E p \in (0 .. (GLYPH_WIDTH - 1)) \X (0 .. (GLYPH_HEIGHT - 1)) : covers(p)
            THEN StoredByte(Background, i % WORD)
            ELSE s.mem[i]]

\* The line is full: the next character wraps first.
Wraps(s) == s.column >= columns

Typed(s, byte) ==
    LET t == IF Wraps(s) THEN newline(s) ELSE s
    IN  [mem |-> draw_glyph(t, byte), column |-> t.column + 1, row |-> t.row]

\* Console::write_byte.
Drawn(s, byte) ==
    CASE byte = "\n" -> newline(s)
      [] byte = "\r" -> s
      [] OTHER       -> Typed(s, byte)

\* What a reader expects to see: the text cut at line feeds and at the width
\* of the screen, a carriage return having no effect.
Extended(byte) ==
    LET n == Len(lines)
    IN  CASE byte = "\r" -> lines
          [] byte = "\n" -> Append(lines, <<>>)
          [] OTHER -> IF Len(lines[n]) = columns THEN Append(lines, <<byte>>)
                      ELSE [lines EXCEPT ![n] = Append(@, byte)]

\* console::write_byte: nothing happens without a console.
write_byte(byte) ==
    LET t == Drawn([mem |-> mem, column |-> column, row |-> row], byte)
    IN  IF pc = "ready"
        THEN /\ mem' = t.mem /\ column' = t.column /\ row' = t.row
             /\ lines' = Extended(byte)
        ELSE UNCHANGED <<mem, column, row, lines>>

-----------------------------------------------------------------------------
(* Properties *)

\* Neither painter writes past the size the firmware reported (the SAFETY
\* comments of console.rs and fill_screen's bounds check).
WritesStayInside == \A i \in DOMAIN mem : i >= fb.size => mem[i] = FOREIGN

\* The colour the pixel at (x, y) should have: the screen shows the last
\* lines of the text, and background everywhere else.
Expected(x, y) ==
    LET r == y \div GLYPH_HEIGHT
        c == x \div GLYPH_WIDTH
        l == (IF Len(lines) > rows THEN Len(lines) - rows ELSE 0) + r + 1
        p == <<x % GLYPH_WIDTH, y % GLYPH_HEIGHT>>
    IN  IF /\ r < rows /\ c < columns
           /\ l <= Len(lines) /\ c < Len(lines[l]) /\ p \in Glyph[lines[l][c + 1]]
        THEN Foreground ELSE Background

\* The display (external) reads its scanlines a stride apart.
Scanout(x, y) == y * fb.stride + x

\* Whatever is printed, wrapped and scrolled, every visible pixel is the one
\* the last lines of the text call for, also where the height is no multiple
\* of a glyph and where scanlines are padded.
ScreenShowsText ==
    pc = "ready" =>
        \A x \in 0 .. (fb.width - 1), y \in 0 .. (fb.height - 1), k \in 0 .. (WORD - 1) :
            mem[Scanout(x, y) * WORD + k] = StoredByte(Expected(x, y), k)
=============================================================================
