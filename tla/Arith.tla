-------------------------------- MODULE Arith --------------------------------
(***************************************************************************)
(* The rounding the allocators and the loader share: methods of Rust's     *)
(* unsigned integers, as the code under kernel/, bootloader/ and boot_info/ *)
(* uses them.  Widths are the business of the callers.                     *)
(***************************************************************************)
EXTENDS Naturals

\* next_multiple_of: the code of core's unsigned integers.
NextMultiple(x, m) == IF x % m = 0 THEN x ELSE x + (m - (x % m))

\* x - x % m: rounding down.
PrevMultiple(x, m) == x - (x % m)

\* x.max(y)
AtLeast(x, y) == IF x < y THEN y ELSE x
=============================================================================
