----------------------------- MODULE MCSerial -----------------------------
(* Screens of a few cells with glyphs one pixel wide and two high, and a     *)
(* UART as the firmware may leave it, or none.                              *)
EXTENDS Serial

MCGlyph == [c \in {"a", "b"} |-> IF c = "a" THEN {<<0, 0>>} ELSE {<<0, 0>>, <<0, 1>>}]

Screen(a, n, w, h, s, b, f) ==
    [addr |-> a, size |-> n, width |-> w, height |-> h, stride |-> s,
     bytes_per_pixel |-> b, format |-> f]

MCFramebuffers == {
    Screen(8, 60, 2, 5, 3, 4, "Bgr"),        \* padded scanlines; height no multiple
    Screen(4, 35, 2, 4, 2, 4, "Rgb"),        \* a size that is no multiple of a pixel
    Screen(4, 8, 1, 2, 1, 4, "Rgb"),         \* a single cell
    Screen(8, 38, 2, 5, 2, 4, "Bgr"),        \* smaller than it says
    Screen(8, 40, 3, 4, 2, 4, "Rgb"),        \* stride below width
    Screen(8, 40, 2, 4, 2, 3, "Bgr"),        \* not four bytes per pixel
    Screen(0, 40, 2, 4, 2, 4, "Bgr"), Screen(6, 40, 2, 4, 2, 4, "Bgr"),
    Screen(96, 40, 2, 4, 2, 4, "Bgr"),       \* ends past 2^64
    Screen(8, 40, 0, 4, 2, 4, "Bgr"), Screen(8, 40, 2, 1, 2, 4, "Bgr") }

MCUarts == {
    [present |-> TRUE, dlab |-> FALSE, low |-> 128, high |-> 1, ier |-> 1, lcr |-> 3],
    [present |-> TRUE, dlab |-> TRUE, low |-> 0, high |-> 1, ier |-> 0, lcr |-> 2],
    [present |-> FALSE, dlab |-> FALSE, low |-> 0, high |-> 0, ier |-> 0, lcr |-> 0] }
=============================================================================
