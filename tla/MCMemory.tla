------------------------------ MODULE MCMemory ------------------------------
(* Memory maps of a few descriptors in a small address space, one for each  *)
(* case that UsableRegions::next and bump tell apart; positions in half     *)
(* pages.  A page is eight grains, the heap two pages.                      *)
EXTENDS Memory

R(s, n) == [start |-> s * (PAGE \div 2), pages |-> n, usable |-> TRUE]
X(s, n) == [start |-> s * (PAGE \div 2), pages |-> n, usable |-> FALSE]

MCMaps == {
    <<R(0, 2), X(4, 1), R(6, 6)>>,           \* the frame at 0; a hole
    <<R(8, 4), R(4, 1), X(0, 9), R(18, 1)>>, \* unsorted; just enough, then short runs
    <<R(3, 3), R(9, 1), R(10, 3)>>,          \* misaligned; rounded away
    <<R(4, 2), R(10, 1), R(14, 2)>>,         \* a run as long as the heap, behind two
    <<R(16, 3), R(2, 2)>>,                   \* ends where one more page overflows
    <<R(14, 4), R(2, 1)>>,                   \* the same, after start-up
    <<R(4, 20), R(20, 2), R(23, 0), R(2, 1), R(6, 1)>>, \* span or end overflows; empty
    <<R(2, 3)>>,                             \* one frame short of enough
    <<X(2, 3), R(0, 1)>>,                    \* nothing usable
    <<>>}
MCJunk == {3 * PAGE}
MCHeapJunk == {[size |-> PAGE, next |-> PAGE]}
MCGrowth == <<3, 6, 12>>
MCText == <<1, 3, 5, 8>>
=============================================================================
