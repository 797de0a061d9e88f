------------------------------- MODULE MCHeap -------------------------------
(* A heap of a few grains, so that every carve leaves a front, a tail, both *)
(* or neither, and every free meets a free block on either side or none.    *)
EXTENDS Heap

\* Sizes below, at and above a grain; alignments below, at and above it, one
\* of them coarser than the alignment of the arena itself.
MCLayouts == {[size |-> 1, align |-> 1], [size |-> 3, align |-> 4], [size |-> 4, align |-> 8]}

\* A value that would read as a plausible header at the start of the arena.
MCJunk == {[size |-> HeapSize, next |-> Start]}
=============================================================================
