------------------------------ MODULE Allocator ------------------------------
(***************************************************************************)
(* What a GlobalAlloc promises its clients (the contract quoted by the     *)
(* Safety sections of kernel/src/heap.rs): a block handed out lies in the  *)
(* arena, starts at a multiple of the requested alignment, and overlaps    *)
(* no other live block.  Nothing is said about how free memory is kept.    *)
(***************************************************************************)
EXTENDS Naturals

CONSTANTS
    ArenaStart,     \* first byte the allocator manages
    ArenaSize,      \* number of bytes it manages
    Layouts         \* the requests clients make: records [size, align]

VARIABLE
    live            \* the blocks clients hold: records [ptr, layout]

Apart(p, l, q, m) == p + l.size <= q \/ q + m.size <= p

\* Address p can serve layout l while the blocks of L are live.
MayServe(p, l, L) ==
    /\ ArenaStart <= p
    /\ p + l.size <= ArenaStart + ArenaSize
    /\ p % l.align = 0
    /\ \A b \in L : p # b.ptr /\ Apart(p, l, b.ptr, b.layout)

Init == live = {}

Alloc == \E l \in Layouts :
            \E p \in ArenaStart .. (ArenaStart + ArenaSize) :
                /\ MayServe(p, l, live)
                /\ live' = live \cup {[ptr |-> p, layout |-> l]}

Free == \E b \in live : live' = live \ {b}

Next == Alloc \/ Free

Spec == Init /\ [][Next]_live
=============================================================================
