----------------------------- MODULE HeapProofs -----------------------------
(***************************************************************************)
(* Proofs about the kernel heap for every grain, arena, set of layouts and *)
(* contents of client memory that HeapAssumption allows.                   *)
(***************************************************************************)
EXTENDS Heap, ArithProofs, TLAPS

-----------------------------------------------------------------------------
(* The grid *)

\* What normalise returns: a positive number of grains that holds the
\* request, and an alignment that implies the requested one.
LEMMA NormalisedLayout ==
    ASSUME NEW l \in Layouts
    PROVE  /\ l \in [size : Nat, align : Nat \ {0}]
           /\ Size(l) \in Nat /\ Size(l) % GRAIN = 0
           /\ Size(l) >= GRAIN /\ Size(l) >= l.size
           /\ Align(l) \in Nat \ {0} /\ Align(l) % GRAIN = 0
           /\ Align(l) % l.align = 0
<1> USE HeapAssumption
<1>1. l.size \in Nat /\ l.align \in Nat \ {0} /\ l \in [size : Nat, align : Nat \ {0}]
  OBVIOUS
<1>2. AtLeast(l.size, GRAIN) \in Nat
  BY <1>1 DEF AtLeast
<1>3. /\ Size(l) \in Nat /\ Size(l) % GRAIN = 0
      /\ Size(l) >= AtLeast(l.size, GRAIN)
  BY <1>2, NextMultipleIsLeast DEF Size
<1>4. GRAIN % GRAIN = 0 /\ l.align % l.align = 0
  BY <1>1, MultipleIff
<1>5. CASE GRAIN % l.align = 0
  <2>1. l.align <= GRAIN
    BY <1>1, <1>5, MultipleAtLeast
  <2>2. Align(l) = GRAIN
    BY <2>1, <1>1 DEF Align, AtLeast
  <2>3. QED
    BY <2>2, <1>1, <1>3, <1>4, <1>5 DEF AtLeast
<1>6. CASE l.align % GRAIN = 0
  <2>1. l.align >= GRAIN
    BY <1>1, <1>6, MultipleAtLeast
  <2>2. Align(l) = l.align
    BY <2>1, <1>1 DEF Align, AtLeast
  <2>3. QED
    BY <2>2, <1>1, <1>3, <1>4, <1>6 DEF AtLeast
<1>7. QED
  BY <1>5, <1>6

LEMMA GridFacts ==
    /\ End \in Nat /\ End % GRAIN = 0 /\ Start < End
    /\ \A a : a \in Grid <=> a \in Nat /\ Start <= a /\ a < End /\ a % GRAIN = 0
    /\ NULL \notin Grid /\ Start \in Grid
<1> USE HeapAssumption
<1>1. End \in Nat /\ End % GRAIN = 0 /\ Start < End
  <2>1. (Start + HeapSize) % GRAIN = 0
    BY MultipleSum
  <2>2. QED
    BY <2>1 DEF End
<1>2. QED
  BY <1>1 DEF Grid, NULL

\* Where alloc puts a payload: the least aligned address in the block, a
\* whole number of grains from its start.
LEMMA PayloadOnGrid ==
    ASSUME NEW a \in Grid, NEW l \in Layouts
    PROVE  /\ Payload(a, l) \in Nat /\ Payload(a, l) >= a
           /\ Payload(a, l) % Align(l) = 0
           /\ Payload(a, l) % GRAIN = 0
           /\ (Payload(a, l) - a) % GRAIN = 0
           /\ \A p \in Nat : p % Align(l) = 0 /\ a <= p => Payload(a, l) <= p
<1> USE HeapAssumption
<1>1. a \in Nat /\ a % GRAIN = 0
  BY GridFacts
<1>2. Align(l) \in Nat \ {0} /\ Align(l) % GRAIN = 0
  BY NormalisedLayout
<1>3. /\ Payload(a, l) \in Nat /\ Payload(a, l) >= a
      /\ Payload(a, l) % Align(l) = 0
      /\ \A p \in Nat : p % Align(l) = 0 /\ a <= p => Payload(a, l) <= p
  BY <1>1, <1>2, NextMultipleIsLeast DEF Payload
<1>4. Payload(a, l) % GRAIN = 0
  BY <1>2, <1>3, MultipleTrans
<1>5. QED
  BY <1>1, <1>3, <1>4, MultipleDiff

-----------------------------------------------------------------------------
(* The inductive invariant *)

\* HeapWhole with its witness named: F is the set of free blocks.
Whole(F) ==
    /\ F \subseteq Grid
    /\ ListOf(F) /\ FreeBlocksOK(F) /\ LiveBlocksOK(F) /\ NothingLost(F)
    /\ CursorsOK(F)

IInv == TypeOK /\ HeapWhole

LEMMA WholeWitness == HeapWhole <=> \E F : Whole(F)
  BY DEF HeapWhole, Whole

\* Initially one free block covers the arena.
LEMMA InitWhole == Init => IInv
<1> SUFFICES ASSUME Init PROVE IInv
  OBVIOUS
<1> USE HeapAssumption, GridFacts
<1>1. TypeOK
  BY DEF Init, TypeOK, NoReq, NULL
<1>2. Whole({Start})
  <2>1. mem[Start] = [size |-> HeapSize, next |-> NULL]
    BY DEF Init
  <2>2. ListOf({Start})
    BY <2>1 DEF Init, ListOf, Follows, NULL
  <2>3. FreeBlocksOK({Start})
    BY <2>1 DEF FreeBlocksOK, End
  <2>4. LiveBlocksOK({Start})
    BY DEF Init, LiveBlocksOK
  <2>5. NothingLost({Start})
    BY <2>1 DEF NothingLost, End
  <2>6. CursorsOK({Start})
    BY DEF Init, CursorsOK
  <2>7. QED
    BY <2>2, <2>3, <2>4, <2>5, <2>6 DEF Whole
<1>3. QED
  BY <1>1, <1>2, WholeWitness DEF IInv

\* Facts the steps below share.
LEMMA WholeFacts ==
    ASSUME TypeOK, NEW F, Whole(F)
    PROVE  /\ \A f \in F : /\ f \in Grid /\ f \in Nat /\ f # NULL
                           /\ mem[f] \in [size : Nat, next : Nat]
                           /\ mem[f].size \in Nat /\ mem[f].size > 0
                           /\ mem[f].next \in F \cup {NULL}
           /\ \A b \in live : /\ b.ptr \in Nat /\ b.ptr \in Grid /\ b.layout \in Layouts
                              /\ Size(b.layout) \in Nat /\ Size(b.layout) > 0
           /\ pc # "idle" => cur \in F \cup {NULL}
  BY GridFacts, NormalisedLayout, HeapAssumption
     DEF TypeOK, Whole, FreeBlocksOK, LiveBlocksOK, CursorsOK, ListOf, Follows

\* Entering a call leaves the heap alone and puts the cursors at the head.
LEMMA EnterWhole ==
    ASSUME IInv, NEW call \in {"alloc", "dealloc", "stat"}, NEW r, Enter(call, r),
           r \in [ptr : Nat, layout : [size : Nat, align : Nat \ {0}]],
           call = "alloc" => r.layout \in Layouts,
           call = "dealloc" => r \in live
    PROVE  IInv'
<1> USE HeapAssumption, GridFacts
<1>1. PICK F : Whole(F)
  BY WholeWitness DEF IInv
<1>2. TypeOK'
  BY DEF IInv, TypeOK, Enter
<1>3. CursorsOK(F)'
  <2>1. \A f \in F : f \in Nat /\ f # NULL
    BY <1>1, WholeFacts DEF IInv
  <2>2. Follows(F, NULL, head)
    BY <1>1 DEF Whole, ListOf
  <2>3. call = "dealloc" => NULL < r.ptr
    BY <1>1, WholeFacts DEF NULL, IInv
  <2>4. head = NULL \/ head \in F
    BY <2>2 DEF Follows
  <2>5. \A f \in F : ~(head = NULL \/ f < head)
    BY <2>1, <2>2, <2>4 DEF Follows, NULL
  <2>6. QED
    BY <2>2, <2>3, <2>5 DEF CursorsOK, Enter, Follows, Suffices
<1>4. Whole(F)'
  BY <1>1, <1>3 DEF Whole, ListOf, Follows, FreeBlocksOK, LiveBlocksOK, NothingLost, Enter
<1>5. QED
  BY <1>2, <1>4 DEF IInv, HeapWhole, Whole
\* Moving the cursors on keeps them neighbours.
LEMMA AdvanceFollows ==
    ASSUME IInv, NEW F, Whole(F), pc # "idle", cur # NULL, Advance
    PROVE  /\ cur \in F /\ mem[cur].next \in Grid \cup {NULL}
           /\ Follows(F, cur, mem[cur].next)
           /\ \A f \in F : mem[cur].next = NULL \/ f < mem[cur].next => f = cur \/ f < cur
<1> USE GridFacts
<1>1. cur \in F
  BY WholeFacts DEF IInv
<1>2. Follows(F, cur, mem[cur].next)
  BY <1>1 DEF Whole, ListOf
<1>3. mem[cur].next \in Grid \cup {NULL}
  BY <1>1, WholeFacts DEF IInv
<1>4. \A f \in F : f \in Nat
  BY WholeFacts DEF IInv
<1>5. QED
  BY <1>1, <1>2, <1>3, <1>4 DEF Follows

LEMMA WalkKeeps ==
    ASSUME IInv, NEW F, Whole(F), AllocNext \/ DeallocNext \/ StatNext
    PROVE  TypeOK' /\ Whole(F)'
<1> USE GridFacts
<1>1. Whole(F)
  OBVIOUS
<1>2. pc # "idle" /\ cur # NULL /\ Advance
  BY DEF AllocNext, DeallocNext, StatNext
<1>3. /\ cur \in F /\ mem[cur].next \in Grid \cup {NULL}
      /\ Follows(F, cur, mem[cur].next)
      /\ \A f \in F : mem[cur].next = NULL \/ f < mem[cur].next => f = cur \/ f < cur
  BY <1>1, <1>2, AdvanceFollows
<1>4. TypeOK'
  <2>1. mem[cur].size \in Nat
    BY <1>1, <1>3, WholeFacts DEF IInv
  <2>2. total' \in Nat /\ count' \in Nat
    BY <2>1 DEF IInv, TypeOK, AllocNext, DeallocNext, StatNext
  <2>3. QED
    BY <2>2, <1>2, <1>3 DEF IInv, TypeOK, Advance
<1>5. CursorsOK(F)'
  <2>1. prev' \in F /\ Follows(F, prev', cur')
    BY <1>2, <1>3 DEF Advance
  <2>2. pc' = "alloc" => \A f \in F : cur' = NULL \/ f < cur' => ~Suffices(f, req'.layout)
    BY <1>1, <1>2, <1>3 DEF Whole, CursorsOK, Advance, AllocNext, DeallocNext, StatNext
  <2>3. pc' = "dealloc" => req' \in live' /\ prev' < req'.ptr
    BY <1>1, <1>2 DEF Whole, CursorsOK, Advance, AllocNext, DeallocNext, StatNext
  <2>4. mem' = mem
    BY <1>2 DEF Advance
  <2>5. QED
    BY <2>1, <2>2, <2>3, <2>4 DEF CursorsOK, Follows, Suffices
<1>6. Whole(F)'
  BY <1>1, <1>2, <1>5
     DEF Whole, ListOf, Follows, FreeBlocksOK, LiveBlocksOK, NothingLost, Advance
<1>7. QED
  BY <1>4, <1>6

LEMMA WalkWhole ==
    ASSUME IInv, AllocNext \/ DeallocNext \/ StatNext
    PROVE  IInv'
<1>1. PICK F : Whole(F)
  BY WholeWitness DEF IInv
<1>2. TypeOK' /\ Whole(F)'
  BY <1>1, WalkKeeps
<1>3. QED
  BY <1>2 DEF IInv, HeapWhole, Whole

LEMMA ReturnWhole ==
    ASSUME IInv, AllocNull \/ StatReturn
    PROVE  IInv'
<1>1. PICK F : Whole(F)
  BY WholeWitness DEF IInv
<1>2. Return /\ UNCHANGED <<head, mem, live>>
  BY DEF AllocNull, StatReturn
<1>3. TypeOK'
  BY <1>2 DEF IInv, TypeOK, Return, NoReq, NULL
<1>4. Whole(F)'
  BY <1>1, <1>2 DEF Whole, ListOf, Follows, FreeBlocksOK, LiveBlocksOK, NothingLost,
     CursorsOK, Return
<1>5. QED
  BY <1>3, <1>4 DEF IInv, HeapWhole, Whole

\* A client cannot reach a header: its blocks are apart from the free ones.
LEMMA ClientWriteWhole == IInv /\ ClientWrite => IInv'
<1> SUFFICES ASSUME IInv, ClientWrite PROVE IInv'
  OBVIOUS
<1> USE GridFacts
<1>1. PICK F : Whole(F)
  BY WholeWitness DEF IInv
<1>2. PICK b \in live, a \in Grid, v \in Junk :
          /\ b.ptr <= a /\ a < b.ptr + Size(b.layout)
          /\ mem' = [mem EXCEPT ![a] = v]
  BY DEF ClientWrite
<1>3. a \notin F
  <2>1. SUFFICES ASSUME a \in F PROVE FALSE
    OBVIOUS
  <2>2. Before(b.ptr, Size(b.layout), a, mem[a].size)
    BY <1>1, <2>1 DEF Whole, LiveBlocksOK
  <2>3. mem[a].size \in Nat /\ mem[a].size > 0 /\ a \in Nat
        /\ b.ptr \in Nat /\ Size(b.layout) \in Nat
    BY <1>1, <2>1, WholeFacts DEF IInv
  <2>4. QED
    BY <1>2, <2>2, <2>3 DEF Before
<1>4. /\ \A f \in F : mem'[f] = mem[f]
      /\ mem' \in [Grid -> [size : Nat, next : Nat]]
  <2>1. mem \in [Grid -> [size : Nat, next : Nat]] /\ v \in [size : Nat, next : Nat]
    BY HeapAssumption DEF IInv, TypeOK
  <2>2. QED
    BY <2>1, <1>1, <1>2, <1>3 DEF Whole
<1>5. pc = "idle" /\ UNCHANGED <<head, live, regs>>
  BY DEF ClientWrite
<1>6. TypeOK'
  BY <1>4, <1>5 DEF IInv, TypeOK, regs
<1>7. Whole(F)'
  BY <1>1, <1>4, <1>5 DEF Whole, ListOf, Follows, FreeBlocksOK, LiveBlocksOK, NothingLost,
     CursorsOK, regs
<1>8. QED
  BY <1>6, <1>7 DEF IInv, HeapWhole, Whole
\* The carve: what is left of the block at cur, in front of the payload and
\* behind it, takes its place on the list.
LEMMA CarveWhole == IInv /\ AllocCarve => IInv'
<1> SUFFICES ASSUME IInv, AllocCarve PROVE IInv'
  OBVIOUS
<1> DEFINE lay == req.layout
           p   == Payload(cur, lay)
           s   == Size(lay)
           z   == mem[cur].size
           fr  == p - cur
           tl  == z - fr - s
           nx  == mem[cur].next
           tb  == p + s
           rem == IF WholeBlock(tl) THEN tb ELSE nx
           blk == [ptr |-> p, layout |-> lay]
<1>1. PICK F : Whole(F)
  BY WholeWitness DEF IInv
<1>2. /\ pc = "alloc" /\ cur # NULL /\ z >= fr + s
      /\ LET split == IF WholeBlock(tl)
                      THEN [mem EXCEPT ![tb] = [size |-> tl, next |-> nx]]
                      ELSE mem
         IN  mem' = IF WholeBlock(fr)
                    THEN [split EXCEPT ![cur] = [size |-> fr, next |-> rem]]
                    ELSE IF prev = NULL THEN split
                    ELSE [split EXCEPT ![prev].next = rem]
      /\ head' = IF ~WholeBlock(fr) /\ prev = NULL THEN rem ELSE head
      /\ live' = live \cup {blk}
      /\ Return
  BY DEF AllocCarve, Suffices
<1>3. /\ \A f \in F : /\ f \in Nat /\ f \in Grid /\ f # NULL
                      /\ mem[f] \in [size : Nat, next : Nat]
                      /\ mem[f].size \in Nat /\ mem[f].size > 0
                      /\ mem[f].next \in F \cup {NULL} /\ mem[f].next \in Nat
                      /\ f + mem[f].size <= End
                      /\ Follows(F, f, mem[f].next)
      /\ \A f, g \in F : f < g => f + mem[f].size < g
      /\ cur \in F /\ prev \in F \cup {NULL}
      /\ Follows(F, prev, cur) /\ Follows(F, NULL, head)
  BY <1>1, <1>2, WholeFacts, GridFacts DEF IInv, Whole, FreeBlocksOK, ListOf, CursorsOK, NULL
<1>m. \A f \in F : f % GRAIN = 0 /\ mem[f].size % GRAIN = 0
  BY <1>1, <1>3, GridFacts DEF Whole, FreeBlocksOK
<1>4. /\ lay \in Layouts
      /\ s \in Nat /\ s % GRAIN = 0 /\ s >= GRAIN
      /\ p \in Nat /\ p >= cur /\ p % GRAIN = 0 /\ p % Align(lay) = 0
      /\ fr \in Nat /\ fr % GRAIN = 0
  BY <1>2, <1>3, NormalisedLayout, PayloadOnGrid DEF IInv, TypeOK
<1>5. /\ tl \in Nat /\ tl % GRAIN = 0
      /\ tb \in Nat /\ tb % GRAIN = 0
      /\ tb + tl = cur + z /\ cur + fr = p
  <2> HIDE DEF z, p, s
  <2>1. z - fr \in Nat /\ tl \in Nat /\ tb \in Nat
    BY <1>2, <1>3, <1>4 DEF z
  <2>2. (z - fr) % GRAIN = 0
    BY <1>2, <1>3, <1>m, <1>4, <2>1, MultipleDiff, HeapAssumption DEF z
  <2>3. tl % GRAIN = 0
    BY <2>1, <2>2, <1>4, MultipleDiff, HeapAssumption
  <2>4. tb % GRAIN = 0
    BY <1>4, MultipleSum, HeapAssumption
  <2>5. tb + tl = cur + z /\ cur + fr = p
    BY <2>1, <1>3, <1>4 DEF z
  <2>6. QED
    BY <2>1, <2>3, <2>4, <2>5
<1> HIDE DEF p, s, z, fr, tl, nx, tb, rem, lay
<1>l. /\ cur \in Nat /\ p \in Nat /\ s \in Nat /\ z \in Nat
      /\ fr \in Nat /\ tl \in Nat /\ tb \in Nat /\ nx \in Nat
      /\ tb = p + s /\ tb + tl = cur + z /\ cur + fr = p /\ s > 0
  BY <1>3, <1>4, <1>5, HeapAssumption DEF tb, nx, z
<1>6. /\ (WholeBlock(fr) <=> fr # 0) /\ (WholeBlock(tl) <=> tl # 0)
      /\ fr = 0 => p = cur
  <2>1. fr # 0 => fr >= GRAIN
    BY <1>4, MultipleAtLeast, HeapAssumption
  <2>2. tl # 0 => tl >= GRAIN
    BY <1>5, MultipleAtLeast, HeapAssumption
  <2>3. QED
    BY <2>1, <2>2, <1>l, HeapAssumption DEF WholeBlock
<1>7. /\ \A g \in F : cur < g => cur + z < g /\ tb < g
      /\ cur < tb
      /\ tl # 0 => tb \in Grid /\ tb \notin F
      /\ p \in Grid /\ tb <= End
      /\ GRAIN > 0 /\ s > 0
  <2>1. cur + z <= End /\ cur \in Grid /\ z \in Nat /\ GRAIN \in Nat \ {0} /\ End \in Nat
    BY <1>3, GridFacts, HeapAssumption DEF z
  <2>2. \A g \in F : cur < g => cur + z < g
    BY <1>3 DEF z
  <2>3. QED
    BY <2>1, <2>2, <1>3, <1>l, <1>4, <1>5, GridFacts, HeapAssumption, SMTT(30)
<1>G. PICK G : \A f : f \in G <=> \/ f \in F /\ (f # cur \/ fr # 0)
                                  \/ tl # 0 /\ f = tb
  <2>1. \A f : f \in (F \ (IF fr = 0 THEN {cur} ELSE {})) \cup (IF tl = 0 THEN {} ELSE {tb})
                <=> (f \in F /\ (f # cur \/ fr # 0)) \/ (tl # 0 /\ f = tb)
    OBVIOUS
  <2>2. QED
    BY <2>1
<1>8. mem' \in [Grid -> [size : Nat, next : Nat]]
  <2>1. mem \in [Grid -> [size : Nat, next : Nat]]
    BY DEF IInv, TypeOK
  <2>2. nx \in Nat /\ rem \in Nat
    BY <1>3, <1>5 DEF nx, rem
  <2>3. QED
    BY <2>1, <2>2, <1>2, <1>l, <1>7, ZenonT(60)
<1>9. \A f \in G : /\ f \in Grid /\ f \in Nat /\ f # NULL
                   /\ mem'[f].size = IF f = tb THEN tl ELSE IF f = cur THEN fr ELSE mem[f].size
                   /\ mem'[f].next = IF f = tb THEN nx ELSE
                                     IF f = cur \/ (f = prev /\ fr = 0) THEN rem
                                     ELSE mem[f].next
  <2>1. mem \in [Grid -> [size : Nat, next : Nat]]
    BY DEF IInv, TypeOK
  <2>2. prev # NULL => prev < cur /\ prev # cur /\ prev # tb
    BY <1>3, <1>l, <1>7 DEF Follows
  <2>3. tl = 0 => tb \notin F
    BY <1>3, <1>l, <1>7
  <2>4. \A f \in G : f \in Grid /\ f \in Nat /\ f # NULL /\ (f \in F \/ f = tb) /\ cur # tb
    <3>1. cur # tb
      BY <1>7, <1>l
    <3>2. tl # 0 => tb \in Grid
      BY <1>7
    <3>3. \A f \in G : f \in Grid /\ (f \in F \/ f = tb)
      BY <3>2, <1>3, <1>G
    <3>4. QED
      BY <3>1, <3>3, GridFacts
  <2>5. tl = 0 => \A f \in G : f # tb
    BY <2>3, <1>G
  <2> DEFINE split == IF tl # 0 THEN [mem EXCEPT ![tb] = [size |-> tl, next |-> nx]] ELSE mem
  <2>6. /\ split \in [Grid -> [size : Nat, next : Nat]]
        /\ \A f \in G : split[f] = IF f = tb THEN [size |-> tl, next |-> nx] ELSE mem[f]
    BY <2>1, <2>4, <2>5, <1>l, <1>7
  <2>7. mem' = IF fr # 0
               THEN [split EXCEPT ![cur] = [size |-> fr, next |-> rem]]
               ELSE IF prev = NULL THEN split
               ELSE [split EXCEPT ![prev].next = rem]
    BY <1>2, <1>6
  <2> HIDE DEF split
  <2>8. CASE fr # 0
    BY <2>8, <2>4, <2>6, <2>7, <1>3
  <2>9. CASE fr = 0 /\ prev = NULL
    BY <2>9, <2>4, <2>6, <2>7, <1>G, <1>l
  <2>10. CASE fr = 0 /\ prev # NULL
    <3>1. prev \in G /\ prev \in Grid
      BY <2>10, <2>2, <1>3, <1>G
    <3>2. /\ \A f \in G : f # prev => mem'[f] = split[f]
          /\ mem'[prev].size = split[prev].size /\ mem'[prev].next = rem
      BY <3>1, <2>10, <2>4, <2>6, <2>7
    <3>3. cur \notin G
      BY <2>10, <2>4, <1>G
    <3>4. QED
      BY <3>1, <3>2, <3>3, <2>2, <2>4, <2>6, <2>10
  <2>11. QED
    BY <2>8, <2>9, <2>10
<1>10. ListOf(G)'
  <2>1. Follows(F, cur, nx) /\ nx \in Nat
    BY <1>3 DEF nx
  <2>2. rem = IF tl # 0 THEN tb ELSE nx
    BY <1>6 DEF rem
  <2>3. Follows(G, cur, rem)
    <3>1. CASE tl # 0
      <4>1. rem = tb /\ tb \in G /\ cur < tb
        BY <3>1, <2>2, <1>7, <1>G
      <4>2. \A f \in G : cur < f => tb <= f
        BY <1>7, <1>l, <1>G, <1>9
      <4>3. tb # NULL
        BY <4>1, <1>9
      <4>4. QED
        BY <4>1, <4>2, <4>3 DEF Follows
    <3>2. CASE tl = 0
      <4>1. rem = nx /\ \A f \in G : f \in F
        BY <3>2, <2>2, <1>G
      <4>2. nx = NULL \/ (nx \in F /\ cur < nx /\ nx # cur)
        BY <2>1, <1>l DEF Follows
      <4>3. QED
        BY <4>1, <4>2, <2>1, <1>G DEF Follows
    <3>3. QED
      BY <3>1, <3>2
  <2>4. ASSUME fr = 0 PROVE Follows(G, prev, rem)
    <3>1. prev \in Nat /\ prev < cur /\ \A f \in G : prev < f => cur < f
      <4>1. prev \in Nat /\ prev < cur
        BY <1>3, <1>l DEF Follows, NULL
      <4>2. \A f \in F : prev < f => cur <= f
        BY <1>3 DEF Follows
      <4>3. \A f \in G : f = tb \/ (f \in F /\ f # cur /\ f \in Nat)
        BY <2>4, <1>G, <1>9
      <4>4. QED
        BY <4>1, <4>2, <4>3, <1>l, <1>7
    <3>2. rem \in Nat /\ \A f \in G : f \in Nat
      BY <2>1, <2>2, <1>l, <1>9
    <3>3. QED
      BY <3>1, <3>2, <2>3, <1>l DEF Follows
  <2>5. ASSUME tl # 0 PROVE Follows(G, tb, nx)
    <3>1. nx = NULL \/ (nx \in G /\ tb < nx)
      BY <2>1, <1>3, <1>7, <1>G DEF Follows
    <3>2. \A f \in G : tb < f => f \in F /\ cur < f
      BY <1>3, <1>l, <1>7, <1>9, <1>G
    <3>3. QED
      BY <3>1, <3>2, <2>1 DEF Follows
  <2>6. Follows(G, NULL, head')
    <3>1. CASE fr = 0 /\ prev = NULL
      BY <3>1, <2>4, <1>2, <1>6
    <3>2. CASE ~(fr = 0 /\ prev = NULL)
      <4>1. head' = head /\ head \in F
        BY <3>2, <1>2, <1>3, <1>6 DEF Follows, NULL
      <4>2. head \in G
        BY <4>1, <3>2, <1>3, <1>G DEF Follows, NULL
      <4>3. QED
        BY <4>1, <4>2, <1>3, <1>l, <1>7, <1>G DEF Follows, NULL
    <3>3. QED
      BY <3>1, <3>2
  <2>7. ASSUME NEW f \in G, f # tb, f # cur, ~(f = prev /\ fr = 0)
        PROVE  Follows(G, f, mem[f].next)
    <3>1. f \in F /\ Follows(F, f, mem[f].next)
      BY <2>7, <1>3, <1>G
    <3>2. mem[f].next # cur \/ fr # 0
      BY <2>7, <3>1, <1>3 DEF Follows, NULL
    <3>3. QED
      BY <3>1, <3>2, <2>7, <1>3, <1>l, <1>7, <1>G DEF Follows, NULL
  <2>8. \A f \in G : Follows(G, f, mem'[f].next)
    BY <2>3, <2>4, <2>5, <2>7, <1>3, <1>7, <1>9, <1>G
  <2>9. QED
    BY <2>6, <2>8 DEF ListOf, Follows
<1>11. FreeBlocksOK(G)'
  <2>1. \A f \in G : /\ mem'[f].size % GRAIN = 0 /\ mem'[f].size > 0
                     /\ f + mem'[f].size <= End
    <3>1. cur + z <= End /\ End \in Nat
      BY <1>3, GridFacts DEF z
    <3>2. \A f \in G : f = tb \/ f \in F
      BY <1>G
    <3>3. fr = 0 => cur \notin G
      BY <1>G, <1>7, <1>l
    <3>4. tl = 0 => tb \notin G
      BY <1>G, <1>7, <1>l, <1>3
    <3>5. tb \in G => tl % GRAIN = 0 /\ tl > 0 /\ tb + tl <= End
      BY <3>1, <3>4, <1>5, <1>l
    <3>6. cur \in G => fr % GRAIN = 0 /\ fr > 0 /\ cur + fr <= End
      BY <3>1, <3>3, <1>4, <1>l
    <3>7. QED
      BY <3>2, <3>5, <3>6, <1>3, <1>m, <1>9
  <2>2. ASSUME NEW f \in G, NEW g \in G, f < g
        PROVE  f + mem'[f].size < g
    <3>1. z \in Nat
      BY <1>3 DEF z
    <3>2. QED
      BY <3>1, <2>2, <1>3, <1>l, <1>7, <1>9, <1>G
  <2>3. QED
    BY <2>1, <2>2 DEF FreeBlocksOK
<1>12. \A b \in live : /\ b.ptr \in Nat /\ b.layout \in Layouts
                       /\ Size(b.layout) \in Nat /\ Size(b.layout) > 0
                       /\ Before(b.ptr, Size(b.layout), cur, z)
  BY <1>1, <1>3, WholeFacts DEF IInv, Whole, LiveBlocksOK, z
<1>13. LiveBlocksOK(G)'
  <2>1. blk.ptr = p /\ blk.layout = lay /\ Size(blk.layout) = s
    BY DEF s
  <2>2. \A b \in live' : /\ b.ptr \in Grid /\ b.layout \in Layouts
                         /\ b.ptr % Align(b.layout) = 0
                         /\ b.ptr + Size(b.layout) <= End
    BY <2>1, <1>1, <1>2, <1>4, <1>7 DEF Whole, LiveBlocksOK, tb
  <2>3. \A b \in live : Before(b.ptr, Size(b.layout), p, s) /\ Before(p, s, b.ptr, Size(b.layout))
    BY <1>12, <1>l DEF Before
  <2>4. \A b, c \in live' : b # c => Before(b.ptr, Size(b.layout), c.ptr, Size(c.layout))
    BY <2>1, <2>3, <1>1, <1>2 DEF Whole, LiveBlocksOK
  <2>5. ASSUME NEW b \in live, NEW f \in G
        PROVE  Before(b.ptr, Size(b.layout), f, mem'[f].size)
    <3>1. f \in F => Before(b.ptr, Size(b.layout), f, mem[f].size)
      BY <1>1 DEF Whole, LiveBlocksOK
    <3>2. QED
      BY <3>1, <1>12, <1>3, <1>l, <1>7, <1>9, <1>G DEF Before, z
  <2>6. ASSUME NEW f \in G
        PROVE  Before(p, s, f, mem'[f].size)
    <3>1. f \in F => \/ f < cur /\ f + mem[f].size < cur
                     \/ f = cur
                     \/ cur < f /\ tb < f
      <4>1. HAVE f \in F
      <4>2. f \in Nat /\ cur \in Nat
        BY <4>1, <1>3
      <4>3. f < cur \/ f = cur \/ cur < f
        BY <4>2
      <4>4. f < cur => f + mem[f].size < cur
        BY <4>1, <1>3
      <4>5. cur < f => tb < f
        BY <4>1, <1>7
      <4>6. QED
        BY <4>3, <4>4, <4>5, Zenon
    <3>2. tb = p + s
      BY DEF tb
    <3>3. QED
      BY <3>1, <3>2, <1>3, <1>l, <1>7, <1>9, <1>G DEF Before
  <2>7. \A b \in live', f \in G : Before(b.ptr, Size(b.layout), f, mem'[f].size)
    BY <2>1, <2>5, <2>6, <1>2
  <2>8. QED
    BY <2>2, <2>4, <2>7 DEF LiveBlocksOK
<1>14. NothingLost(G)'
  <2>1. SUFFICES ASSUME NEW a \in Grid,
                        \A b \in live' : ~(b.ptr <= a /\ a < b.ptr + Size(b.layout))
                 PROVE  \E f \in G : f <= a /\ a < f + mem'[f].size
    BY DEF NothingLost
  <2>2. PICK f \in F : f <= a /\ a < f + mem[f].size
    BY <2>1, <1>1, <1>2 DEF Whole, NothingLost
  <2>3. CASE f # cur
    <3>1. f \in G /\ f # tb
      BY <2>3, <1>3, <1>l, <1>7, <1>G
    <3>2. QED
      BY <3>1, <2>2, <2>3, <1>9
  <2>4. CASE f = cur
    <3>1. blk \in live' /\ blk.ptr = p /\ Size(blk.layout) = s /\ a \in Nat
      BY <1>2, GridFacts DEF s
    <3>2. ~(p <= a /\ a < p + s)
      BY <3>1, <2>1
    <3>3. CASE a < p
      <4>1. fr # 0 /\ cur \in G /\ cur # tb
        BY <3>3, <2>2, <2>4, <1>3, <1>l, <1>6, <1>7, <1>G
      <4>2. QED
        BY <4>1, <3>3, <3>1, <2>2, <2>4, <1>l, <1>9
    <3>4. CASE p + s <= a
      <4>1. a < tb + tl /\ tb <= a
        BY <3>4, <2>2, <2>4, <1>l DEF z
      <4>2. tl # 0 /\ tb \in G
        BY <4>1, <3>1, <1>l, <1>G
      <4>3. QED
        BY <4>1, <4>2, <1>9
    <3>5. QED
      BY <3>1, <3>2, <3>3, <3>4, <1>4
  <2>5. QED
    BY <2>3, <2>4
<1>15. CursorsOK(G)'
  BY <1>2 DEF CursorsOK, Return
<1>16. TypeOK'
  <2>1. head' \in Grid \cup {NULL}
    BY <1>10, <1>9 DEF ListOf, Follows
  <2>2. blk \in [ptr : Nat, layout : [size : Nat, align : Nat \ {0}]]
    BY <1>4, NormalisedLayout
  <2>3. QED
    BY <2>1, <2>2, <1>2, <1>8 DEF IInv, TypeOK, Return, NoReq, NULL
<1>17. G \subseteq Grid
  BY <1>9
<1>18. QED
  BY <1>10, <1>11, <1>13, <1>14, <1>15, <1>16, <1>17 DEF IInv, HeapWhole
\* The free: the block joins the list between prev and cur, merged with
\* whichever of them it touches.
LEMMA FinishWhole == IInv /\ DeallocFinish => IInv'
<1> SUFFICES ASSUME IInv, DeallocFinish PROVE IInv'
  OBVIOUS
<1> DEFINE st  == req.ptr
           s   == Size(req.layout)
           fw  == MergesForward
           bk  == MergesBackward
           csz == mem[cur].size
           psz == mem[prev].size
           n   == s + (IF fw THEN csz ELSE 0)
           nx  == IF fw THEN mem[cur].next ELSE cur
<1>1. PICK F : Whole(F)
  BY WholeWitness DEF IInv
<1>2. /\ pc = "dealloc" /\ (cur = NULL \/ ~(cur < st))
      /\ mem' = IF bk THEN [mem EXCEPT ![prev] = [size |-> @.size + n, next |-> nx]]
                ELSE IF prev = NULL THEN [mem EXCEPT ![st] = [size |-> n, next |-> nx]]
                ELSE [[mem EXCEPT ![st] = [size |-> n, next |-> nx]] EXCEPT ![prev].next = st]
      /\ head' = IF ~bk /\ prev = NULL THEN st ELSE head
      /\ live' = live \ {req}
      /\ Return
  BY DEF DeallocFinish
<1>3. /\ \A f \in F : /\ f \in Nat /\ f \in Grid /\ f # NULL
                      /\ mem[f] \in [size : Nat, next : Nat]
                      /\ mem[f].size \in Nat /\ mem[f].size > 0
                      /\ mem[f].next \in F \cup {NULL} /\ mem[f].next \in Nat
                      /\ f + mem[f].size <= End
                      /\ Follows(F, f, mem[f].next)
      /\ \A f, g \in F : f < g => f + mem[f].size < g
      /\ prev \in F \cup {NULL} /\ cur \in F \cup {NULL}
      /\ Follows(F, prev, cur) /\ Follows(F, NULL, head)
  BY <1>1, <1>2, WholeFacts, GridFacts DEF IInv, Whole, FreeBlocksOK, ListOf, CursorsOK, NULL
<1>m. /\ \A f \in F : mem[f].size % GRAIN = 0
      /\ s % GRAIN = 0
  BY <1>1, <1>2, NormalisedLayout DEF Whole, FreeBlocksOK, CursorsOK, LiveBlocksOK
<1>4. /\ \A b \in live : /\ b.ptr \in Nat /\ Size(b.layout) \in Nat /\ Size(b.layout) > 0
                         /\ \A f \in F : Before(b.ptr, Size(b.layout), f, mem[f].size)
                         /\ b # req => Before(b.ptr, Size(b.layout), st, s)
      /\ req \in live /\ prev < st /\ st \in Grid /\ st + s <= End
  BY <1>1, <1>2, WholeFacts DEF IInv, Whole, LiveBlocksOK, CursorsOK
<1>5. fw <=> cur # NULL /\ st + s = cur
  BY DEF MergesForward
<1>6. bk <=> prev # NULL /\ prev + psz = st
  BY DEF MergesBackward
<1>l. /\ st \in Nat /\ s \in Nat /\ s > 0 /\ prev \in Nat /\ cur \in Nat /\ st # NULL
      /\ prev # NULL => psz \in Nat /\ psz > 0 /\ prev + psz <= st
      /\ cur # NULL => csz \in Nat /\ csz > 0 /\ st + s <= cur
      /\ n \in Nat /\ n >= s /\ nx \in Nat
      /\ st + n = IF fw THEN cur + csz ELSE st + s
  <2>1. /\ st \in Nat /\ s \in Nat /\ s > 0 /\ prev \in Nat /\ cur \in Nat /\ st # NULL
    BY <1>3, <1>4, GridFacts DEF NULL
  <2>2. ASSUME prev # NULL PROVE psz \in Nat /\ psz > 0 /\ prev + psz <= st
    <3>1. psz \in Nat /\ psz > 0 /\ Before(st, s, prev, psz)
      BY <2>2, <1>3, <1>4
    <3>2. QED
      BY <3>1, <2>1, <1>4 DEF Before
  <2>3. ASSUME cur # NULL PROVE csz \in Nat /\ csz > 0 /\ st + s <= cur /\ mem[cur].next \in Nat
    <3>1. csz \in Nat /\ csz > 0 /\ Before(st, s, cur, csz) /\ mem[cur].next \in Nat
      BY <2>3, <1>3, <1>4
    <3>2. QED
      BY <3>1, <2>1, <2>3, <1>2 DEF Before
  <2>4. QED
    BY <2>1, <2>2, <2>3, <1>5
<1> HIDE DEF st, s, fw, bk, csz, psz, n, nx
<1>7. /\ st \notin F
      /\ \A f \in F : \/ prev # NULL /\ f < prev /\ f + mem[f].size < prev
                      \/ f = prev
                      \/ f = cur
                      \/ cur # NULL /\ cur < f /\ cur + csz < f
  <2>1. ASSUME NEW f \in F
        PROVE  \/ prev # NULL /\ f < prev /\ f + mem[f].size < prev
               \/ f = prev
               \/ f = cur
               \/ cur # NULL /\ cur < f /\ cur + csz < f
    <3>1. f \in Nat
      BY <1>3
    <3>2. prev < f => cur # NULL /\ cur <= f
      BY <1>3 DEF Follows
    <3>3. f < prev => prev # NULL /\ f + mem[f].size < prev
      <4>1. f < prev => prev # NULL
        BY <3>1 DEF NULL
      <4>2. QED
        BY <4>1, <1>3
    <3>4. cur # NULL /\ cur < f => cur + csz < f
      BY <1>3 DEF csz
    <3>5. QED
      BY <3>1, <3>2, <3>3, <3>4, <1>l
  <2>2. st \notin F
    BY <2>1, <1>l, <1>4
  <2>3. QED
    BY <2>1, <2>2
<1>G. PICK G : \A f : f \in G <=> \/ f \in F /\ (f # cur \/ ~fw)
                                  \/ ~bk /\ f = st
  <2>1. \A f : f \in (F \ (IF fw THEN {cur} ELSE {})) \cup (IF bk THEN {} ELSE {st})
                <=> (f \in F /\ (f # cur \/ ~fw)) \/ (~bk /\ f = st)
    OBVIOUS
  <2>2. QED
    BY <2>1
<1>8. mem' \in [Grid -> [size : Nat, next : Nat]]
  <2>1. mem \in [Grid -> [size : Nat, next : Nat]]
    BY DEF IInv, TypeOK
  <2>2. prev # NULL => prev \in Grid
    BY <1>3
  <2>3. QED
    BY <2>1, <2>2, <1>2, <1>4, <1>6, <1>l
<1>9. \A f \in G : /\ f \in Grid /\ f \in Nat /\ f # NULL /\ (f = st <=> f \notin F)
                   /\ (bk => f # st)
                   /\ mem'[f].size = IF f = st THEN n ELSE
                                     IF f = prev /\ bk THEN psz + n ELSE mem[f].size
                   /\ mem'[f].next = IF f = st THEN nx ELSE
                                     IF f = prev THEN (IF bk THEN nx ELSE st)
                                     ELSE mem[f].next
  <2>1. mem \in [Grid -> [size : Nat, next : Nat]]
    BY DEF IInv, TypeOK
  <2>2. \A f \in G : /\ f \in Grid /\ f \in Nat /\ f # NULL /\ (f = st <=> f \notin F)
                     /\ (bk => f # st)
    BY <1>3, <1>4, <1>7, <1>G, GridFacts
  <2>3. CASE bk
    BY <2>1, <2>2, <2>3, <1>2, <1>3, <1>6 DEF psz
  <2>4. CASE ~bk /\ prev = NULL
    BY <2>1, <2>2, <2>4, <1>2
  <2>5. CASE ~bk /\ prev # NULL
    <3> DEFINE linked == [mem EXCEPT ![st] = [size |-> n, next |-> nx]]
    <3>1. /\ linked \in [Grid -> [size : Nat, next : Nat]]
          /\ \A f \in G : linked[f] = IF f = st THEN [size |-> n, next |-> nx] ELSE mem[f]
      BY <2>1, <2>2, <1>l
    <3>2. mem' = [linked EXCEPT ![prev].next = st]
      BY <2>5, <1>2
    <3>3. prev \in Grid /\ prev # st
      BY <2>5, <1>3, <1>4, <1>l
    <3> HIDE DEF linked
    <3>4. QED
      BY <3>1, <3>2, <3>3, <2>2, <2>5
  <2>6. QED
    BY <2>3, <2>4, <2>5
<1>10. ListOf(G)'
  <2>1. /\ \A f \in F : mem[f].next = NULL \/ (mem[f].next \in F /\ f < mem[f].next)
        /\ \A f, g \in F : f < g => mem[f].next # NULL /\ mem[f].next <= g
    BY <1>3 DEF Follows
  <2>2. Follows(G, st, nx)
    <3>1. nx = NULL \/ (nx \in F /\ st < nx /\ (nx # cur \/ ~fw))
      BY <2>1, <1>3, <1>5, <1>l DEF nx
    <3>2. \A f \in G : st < f => f \in F /\ cur # NULL /\ cur <= f /\ (fw => cur < f)
      BY <1>7, <1>9, <1>G, <1>l, <1>4
    <3>3. \A f \in G : st < f => nx # NULL /\ nx <= f
      BY <3>2, <2>1, <1>3 DEF nx
    <3>4. QED
      BY <3>1, <3>3, <1>G DEF Follows
  <2>3. prev < st /\ \A f \in G : prev < f => st <= f
    BY <1>4, <1>7, <1>9, <1>l
  <2>4. ~bk => Follows(G, prev, st)
    BY <2>3, <1>G, <1>l DEF Follows
  <2>5. bk => Follows(G, prev, nx)
    <3>1. bk => \A f \in G : prev < f => st < f
      BY <2>3, <1>9, <1>l
    <3>2. \A f \in G : f \in Nat
      BY <1>9
    <3>3. QED
      BY <3>1, <3>2, <2>2, <2>3, <1>l DEF Follows
  <2>6. Follows(G, NULL, head')
    <3>1. CASE ~bk /\ prev = NULL
      BY <3>1, <2>4, <1>2
    <3>2. CASE prev # NULL
      <4>1. head' = head /\ head \in F /\ head <= prev
        BY <3>2, <1>2, <1>3, <1>l DEF Follows, NULL
      <4>2. head \in G
        BY <4>1, <1>G, <1>5, <1>l, <1>4, <1>3
      <4>3. \A f \in G : f = st \/ f \in F
        BY <1>G
      <4>4. QED
        BY <4>1, <4>2, <4>3, <2>3, <1>3, <1>l DEF Follows, NULL
    <3>3. QED
      BY <3>1, <3>2, <1>6
  <2>7. ASSUME NEW f \in G, f # st, f # prev
        PROVE  Follows(G, f, mem[f].next)
    <3>1. f \in F /\ f \in Nat /\ mem[f].next \in Nat
      BY <2>7, <1>9, <1>3
    <3>2. CASE f < prev
      <4>1. prev \in F /\ mem[f].next # NULL /\ mem[f].next <= prev /\ mem[f].next \in F
        <5>1. prev # NULL
          BY <3>1, <3>2 DEF NULL
        <5>2. prev \in F
          BY <5>1, <1>3
        <5>3. QED
          BY <5>2, <3>1, <3>2, <2>1
      <4>2. mem[f].next \in G
        BY <4>1, <3>1, <1>G, <1>5, <1>l, <1>4
      <4>3. \A g \in G : g = st \/ g \in F
        BY <1>G
      <4>4. QED
        BY <4>1, <4>2, <4>3, <3>1, <2>1, <2>3, <1>l DEF Follows
    <3>3. CASE prev < f
      <4>1. cur # NULL /\ cur <= f /\ st < f
        BY <3>1, <3>3, <1>7, <1>l, <1>3
      <4>2. mem[f].next = NULL \/ mem[f].next \in G
        BY <4>1, <3>1, <2>1, <1>G, <1>l
      <4>3. \A g \in G : f < g => g \in F
        BY <4>1, <1>9, <1>l, <3>1
      <4>4. QED
        BY <4>2, <4>3, <3>1, <2>1 DEF Follows
    <3>4. QED
      BY <3>1, <3>2, <3>3, <2>7, <1>l
  <2>8. \A f \in G : Follows(G, f, mem'[f].next)
    BY <2>2, <2>4, <2>5, <2>7, <1>9
  <2>9. QED
    BY <2>6, <2>8 DEF ListOf, Follows
<1>11. FreeBlocksOK(G)'
  <2>1. n % GRAIN = 0
    <3>1. fw => cur \in F /\ csz % GRAIN = 0 /\ csz \in Nat
      BY <1>3, <1>5, <1>m DEF csz
    <3>2. CASE fw
      <4>1. (s + csz) % GRAIN = 0
        BY <3>1, <3>2, <1>m, <1>l, MultipleSum, HeapAssumption
      <4>2. QED
        BY <4>1, <3>2 DEF n
    <3>3. CASE ~fw
      BY <3>3, <1>m, <1>l DEF n
    <3>4. QED
      BY <3>2, <3>3
  <2>2. bk => prev \in F /\ psz \in Nat /\ (psz + n) % GRAIN = 0
    <3>1. bk => prev \in F /\ psz % GRAIN = 0 /\ psz \in Nat
      BY <1>3, <1>6, <1>m DEF psz
    <3>2. QED
      BY <3>1, <2>1, <1>l, MultipleSum, HeapAssumption
  <2>3. st + n <= End /\ End \in Nat
    <3>1. fw => cur + csz <= End
      BY <1>3, <1>5 DEF csz
    <3>2. QED
      BY <3>1, <1>l, <1>4, GridFacts
  <2>4. bk => prev + (psz + n) = st + n
    BY <1>6, <1>l
  <2>5. \A f \in G : /\ mem'[f].size % GRAIN = 0 /\ mem'[f].size > 0
                     /\ f + mem'[f].size <= End
    <3>1. \A f \in G : f # st => f \in F
      BY <1>9
    <3>2. psz + n > 0 \/ ~bk
      BY <1>l, <1>6
    <3>3. QED
      BY <3>1, <3>2, <2>1, <2>2, <2>3, <2>4, <1>3, <1>m, <1>l, <1>9
  <2>6. \A g \in G : st < g => st + n < g
    <3>1. SUFFICES ASSUME NEW g \in G, st < g PROVE st + n < g
      OBVIOUS
    <3>2. g \in Nat /\ g # NULL /\ g \in F /\ (g # cur \/ ~fw)
      BY <3>1, <1>9, <1>G, <1>l
    <3>3. g # prev /\ ~(g < prev)
      BY <3>1, <3>2, <1>4, <1>l
    <3>4. g = cur \/ (cur # NULL /\ cur < g /\ cur + csz < g)
      BY <3>2, <3>3, <1>7
    <3>5. QED
      BY <3>1, <3>2, <3>4, <1>5, <1>l
  <2>7. ASSUME NEW f \in G, NEW g \in G, f < g
        PROVE  f + mem'[f].size < g
    <3>1. f \in Nat /\ g \in Nat
      BY <1>9
    <3>2. CASE f = st
      BY <3>2, <2>6, <2>7, <1>9
    <3>3. CASE f # st /\ f = prev /\ bk
      <4>1. st < g
        BY <3>1, <3>3, <2>7, <1>6, <1>7, <1>9, <1>l
      <4>2. QED
        BY <4>1, <3>3, <2>4, <2>6, <1>9
    <3>4. CASE f # st /\ ~(f = prev /\ bk)
      <4>1. f \in F /\ mem'[f].size = mem[f].size
        BY <3>4, <1>9
      <4>2. CASE g \in F
        BY <4>1, <4>2, <2>7, <1>3
      <4>3. CASE g \notin F
        <5>1. g = st /\ ~bk
          BY <4>3, <1>9
        <5>2. \/ prev # NULL /\ f < prev /\ f + mem[f].size < prev
              \/ f = prev
          <6>1. f # NULL
            BY <1>9
          <6>2. QED
            BY <6>1, <5>1, <4>1, <3>1, <2>7, <1>7, <1>l
        <5>3. mem[f].size \in Nat
          BY <4>1, <1>3
        <5>4. CASE f = prev
          <6>1. prev # NULL /\ psz = mem[f].size
            BY <5>4, <4>1, <1>3 DEF psz
          <6>2. QED
            BY <6>1, <5>1, <5>4, <4>1, <1>6, <1>l
        <5>5. QED
          BY <5>1, <5>2, <5>3, <5>4, <4>1, <3>1, <1>4, <1>l
      <4>4. QED
        BY <4>2, <4>3
    <3>5. QED
      BY <3>2, <3>3, <3>4
  <2>8. QED
    BY <2>5, <2>7 DEF FreeBlocksOK
<1>12. LiveBlocksOK(G)'
  <2>1. \A b \in live' : b \in live /\ b # req
    BY <1>2
  <2>2. ASSUME NEW b \in live, b # req, NEW f \in G
        PROVE  Before(b.ptr, Size(b.layout), f, mem'[f].size)
    <3> DEFINE bp == b.ptr  bs == Size(b.layout)
    <3>1. /\ bp \in Nat /\ bs \in Nat /\ bs > 0
          /\ \A g \in F : Before(bp, bs, g, mem[g].size)
          /\ Before(bp, bs, st, s)
      BY <2>2, <1>4
    <3> HIDE DEF bp, bs
    <3>2. fw => Before(bp, bs, cur, csz)
      BY <3>1, <1>3, <1>5 DEF csz
    <3>3. bk => Before(bp, bs, prev, psz)
      BY <3>1, <1>3, <1>6 DEF psz
    <3>4. Before(bp, bs, st, n)
      BY <3>1, <3>2, <1>5, <1>l DEF Before, n
    <3>5. bk => Before(bp, bs, prev, psz + n)
      BY <3>1, <3>3, <3>4, <1>6, <1>l DEF Before
    <3>6. Before(bp, bs, f, mem'[f].size)
      BY <3>1, <3>4, <3>5, <1>9
    <3>7. QED
      BY <3>6 DEF bp, bs
  <2>3. \A b \in live' : /\ b.ptr \in Grid /\ b.layout \in Layouts
                         /\ b.ptr % Align(b.layout) = 0
                         /\ b.ptr + Size(b.layout) <= End
    BY <2>1, <1>1 DEF Whole, LiveBlocksOK
  <2>4. \A b, c \in live' : b # c => Before(b.ptr, Size(b.layout), c.ptr, Size(c.layout))
    BY <2>1, <1>1 DEF Whole, LiveBlocksOK
  <2>5. \A b \in live', f \in G : Before(b.ptr, Size(b.layout), f, mem'[f].size)
    BY <2>1, <2>2
  <2>6. QED
    BY <2>3, <2>4, <2>5 DEF LiveBlocksOK
<1>13. NothingLost(G)'
  <2>1. SUFFICES ASSUME NEW a \in Grid,
                        \A b \in live' : ~(b.ptr <= a /\ a < b.ptr + Size(b.layout))
                 PROVE  \E f \in G : f <= a /\ a < f + mem'[f].size
    BY DEF NothingLost
  <2>2. a \in Nat
    BY GridFacts
  <2>3. ASSUME st <= a, a < st + n
        PROVE  \E f \in G : f <= a /\ a < f + mem'[f].size
    <3>1. CASE bk
      <4>1. prev \in G /\ prev # st
        BY <3>1, <1>3, <1>4, <1>5, <1>6, <1>l, <1>G
      <4>2. mem'[prev].size = psz + n
        BY <3>1, <4>1, <1>9
      <4>3. prev <= a /\ a < prev + (psz + n)
        BY <2>2, <2>3, <3>1, <1>4, <1>6, <1>l
      <4>4. QED
        BY <4>1, <4>2, <4>3
    <3>2. CASE ~bk
      BY <3>2, <2>3, <1>9, <1>G
    <3>3. QED
      BY <3>1, <3>2
  <2>4. CASE st <= a /\ a < st + s
    BY <2>2, <2>3, <2>4, <1>l
  <2>5. CASE ~(st <= a /\ a < st + s)
    <3>1. PICK f \in F : f <= a /\ a < f + mem[f].size
      BY <2>1, <2>5, <1>1, <1>2 DEF Whole, NothingLost, st, s
    <3>2. CASE fw /\ f = cur
      BY <3>1, <3>2, <2>2, <2>3, <1>5, <1>l DEF csz
    <3>3. CASE ~(fw /\ f = cur)
      <4>1. f \in G /\ f # st
        BY <3>3, <1>7, <1>G
      <4>2. CASE f = prev /\ bk
        <5>1. mem'[f].size = mem[f].size + n /\ mem[f].size \in Nat /\ f \in Nat
          BY <4>1, <4>2, <1>3, <1>9 DEF psz
        <5>2. QED
          BY <5>1, <4>1, <3>1, <2>2, <1>l
      <4>3. CASE ~(f = prev /\ bk)
        BY <4>1, <4>3, <3>1, <1>9
      <4>4. QED
        BY <4>2, <4>3
    <3>4. QED
      BY <3>2, <3>3
  <2>6. QED
    BY <2>4, <2>5
<1>14. CursorsOK(G)'
  BY <1>2 DEF CursorsOK, Return
<1>15. TypeOK'
  <2>1. head' \in Grid \cup {NULL}
    BY <1>10, <1>9 DEF ListOf, Follows
  <2>2. QED
    BY <2>1, <1>2, <1>8 DEF IInv, TypeOK, Return, NoReq, NULL
<1>16. G \subseteq Grid
  BY <1>9
<1>17. QED
  BY <1>10, <1>11, <1>12, <1>13, <1>14, <1>15, <1>16 DEF IInv, HeapWhole
-----------------------------------------------------------------------------
(* Theorems *)

\* Every step of every call keeps the heap whole.
LEMMA StepWhole == IInv /\ [Next]_vars => IInv'
<1> SUFFICES ASSUME IInv, [Next]_vars PROVE IInv'
  OBVIOUS
<1>1. CASE AllocCall
  <2>1. PICK l \in Layouts : Enter("alloc", [ptr |-> NULL, layout |-> l])
    BY <1>1 DEF AllocCall
  <2>2. l \in [size : Nat, align : Nat \ {0}]
    BY NormalisedLayout
  <2>3. QED
    BY <2>1, <2>2, EnterWhole DEF NULL
<1>2. CASE DeallocCall
  BY <1>2, EnterWhole DEF DeallocCall, IInv, TypeOK
<1>3. CASE StatCall
  BY <1>3, EnterWhole DEF StatCall, NoReq, NULL
<1>4. CASE ClientWrite
  BY <1>4, ClientWriteWhole
<1>5. CASE AllocNext \/ DeallocNext \/ StatNext
  BY <1>5, WalkWhole
<1>6. CASE AllocNull \/ StatReturn
  BY <1>6, ReturnWhole
<1>7. CASE AllocCarve
  BY <1>7, CarveWhole
<1>8. CASE DeallocFinish
  BY <1>8, FinishWhole
<1>9. CASE UNCHANGED vars
  BY <1>9, ZenonT(60) DEF vars, regs, IInv, TypeOK, HeapWhole, ListOf, Follows, FreeBlocksOK,
     LiveBlocksOK, NothingLost, CursorsOK, Suffices
<1>10. QED
  BY <1>1, <1>2, <1>3, <1>4, <1>5, <1>6, <1>7, <1>8, <1>9 DEF Next, Step

\* Heap::alloc and Heap::dealloc keep the heap whole, at every step of every
\* sequence of calls and whatever clients write to their blocks: the headers
\* form an address-ordered list of free blocks that never touch, and free
\* and live blocks tile the arena exactly.
THEOREM HeapStaysWhole == Spec => [](TypeOK /\ HeapWhole)
<1>1. Init => IInv
  BY InitWhole
<1>2. IInv /\ [Next]_vars => IInv'
  BY StepWhole
<1>3. IInv => TypeOK /\ HeapWhole
  BY DEF IInv
<1>4. QED
  BY <1>1, <1>2, <1>3, PTL DEF Spec

\* A heap with no live block is one free block, in the middle of a call too.
LEMMA EmptyIsOneBlock ==
    ASSUME IInv, live = {}
    PROVE  head = Start /\ mem[Start] = [size |-> HeapSize, next |-> NULL]
<1>1. PICK F : Whole(F)
  BY WholeWitness DEF IInv
<1>2. \A f \in F : /\ f \in Grid /\ f \in Nat /\ f # NULL /\ Start <= f
                   /\ mem[f] \in [size : Nat, next : Nat]
                   /\ mem[f].size \in Nat /\ mem[f].size > 0 /\ mem[f].size % GRAIN = 0
                   /\ f + mem[f].size <= End
  BY <1>1, WholeFacts, GridFacts DEF IInv, Whole, FreeBlocksOK
<1>3. \A f, g \in F : f < g => f + mem[f].size < g
  BY <1>1 DEF Whole, FreeBlocksOK
<1>4. \A a \in Grid : \E f \in F : f <= a /\ a < f + mem[f].size
  BY <1>1 DEF Whole, NothingLost
<1>5. Start \in F
  <2>1. PICK f \in F : f <= Start
    BY <1>4, GridFacts
  <2>2. QED
    BY <2>1, <1>2, HeapAssumption
<1> DEFINE e == Start + mem[Start].size
<1>6. e = End
  <2>1. SUFFICES ASSUME e # End PROVE FALSE
    OBVIOUS
  <2>2. e % GRAIN = 0
    BY <1>2, <1>5, MultipleSum, HeapAssumption
  <2>3. e \in Grid
    <3>1. e \in Nat /\ Start <= e /\ e <= End
      BY <1>2, <1>5, HeapAssumption
    <3>2. e < End
      BY <3>1, <2>1, GridFacts
    <3>3. QED
      BY <3>1, <3>2, <2>2, GridFacts
  <2>4. PICK f \in F : f <= e /\ e < f + mem[f].size
    BY <2>3, <1>4
  <2>5. f # Start /\ Start < f /\ f \in Nat /\ e \in Nat
    <3>1. f \in Nat /\ Start <= f /\ mem[Start].size \in Nat /\ Start \in Nat
      BY <1>2, <1>5, HeapAssumption
    <3>2. f # Start
      BY <2>4, <3>1
    <3>3. QED
      BY <3>1, <3>2
  <2>6. e < f
    BY <2>5, <1>3, <1>5
  <2>7. QED
    BY <2>4, <2>5, <2>6
<1>7. mem[Start].size = HeapSize
  BY <1>6, <1>2, <1>5, HeapAssumption DEF End
<1>8. F = {Start}
  <2>1. ASSUME NEW f \in F, f # Start PROVE FALSE
    <3>1. Start < f
      BY <2>1, <1>2, HeapAssumption
    <3>2. e < f
      BY <3>1, <1>3, <1>5
    <3>3. QED
      BY <3>2, <1>2, <1>6, GridFacts
  <2>2. QED
    BY <2>1, <1>5
<1>9. head = Start /\ mem[Start].next = NULL
  <2>1. Follows(F, NULL, head) /\ Follows(F, Start, mem[Start].next)
    BY <1>1, <1>5 DEF Whole, ListOf
  <2>2. head = Start
    BY <2>1, <1>8, HeapAssumption DEF Follows, NULL
  <2>3. mem[Start].next = NULL
    BY <2>1, <1>8, HeapAssumption DEF Follows, NULL
  <2>4. QED
    BY <2>2, <2>3
<1>10. QED
  BY <1>2, <1>5, <1>7, <1>9

LEMMA WholeAndEmpty == IInv => RestoredWhenEmpty
  BY EmptyIsOneBlock DEF RestoredWhenEmpty

\* What heap::selftest checks after its one sequence of calls holds after
\* every sequence: with everything given back, the free list is the single
\* block Heap::init wrote.
THEOREM EmptyHeapIsRestored == Spec => []RestoredWhenEmpty
  BY HeapStaysWhole, WholeAndEmpty, PTL DEF IInv

\* A range clear of live blocks lies inside one free block, because free
\* blocks that touch have been merged.
LEMMA ClearRangeFits ==
    ASSUME TypeOK, NEW F, Whole(F), NEW l \in Layouts, NEW q \in Grid,
           q % Align(l) = 0, q + Size(l) <= End,
           \A b \in live : Before(q, Size(l), b.ptr, Size(b.layout))
    PROVE  \E f \in F : f <= q /\ Suffices(f, l)
<1> DEFINE s == Size(l)
<1>1. Whole(F)
  OBVIOUS
<1>3. s \in Nat /\ s > 0 /\ q \in Nat
  BY NormalisedLayout, GridFacts, HeapAssumption
<1>4. /\ \A f \in F : /\ f \in Grid /\ f \in Nat /\ mem[f].size \in Nat
                      /\ mem[f].size > 0 /\ mem[f].size % GRAIN = 0 /\ f % GRAIN = 0
                      /\ f + mem[f].size <= End
      /\ \A f, g \in F : f < g => f + mem[f].size < g
      /\ \A b \in live : b.ptr \in Nat /\ Size(b.layout) \in Nat /\ Size(b.layout) > 0
  BY <1>1, WholeFacts, GridFacts DEF Whole, FreeBlocksOK
<1>5. \A a \in Nat : q <= a /\ a < q + s /\ a % GRAIN = 0
                     => \E f \in F : f <= a /\ a < f + mem[f].size
  <2>1. SUFFICES ASSUME NEW a \in Nat, q <= a, a < q + s, a % GRAIN = 0
                 PROVE  \E f \in F : f <= a /\ a < f + mem[f].size
    OBVIOUS
  <2>2. a \in Grid
    BY <2>1, <1>3, GridFacts, HeapAssumption
  <2>3. \A b \in live : ~(b.ptr <= a /\ a < b.ptr + Size(b.layout))
    BY <2>1, <1>3, <1>4 DEF Before
  <2>4. QED
    BY <2>2, <2>3, <1>1 DEF Whole, NothingLost
<1>6. PICK f \in F : f <= q /\ q < f + mem[f].size
  <2>1. q % GRAIN = 0
    BY GridFacts
  <2>2. q <= q /\ q < q + s
    BY <1>3
  <2>3. QED
    BY <2>1, <2>2, <1>3, <1>5
<1> DEFINE e == f + mem[f].size
<1>7. q + s <= e
  <2>1. SUFFICES ASSUME e < q + s PROVE FALSE
    BY <1>3, <1>4
  <2>2. e \in Nat /\ e % GRAIN = 0
    <3>1. f \in Nat /\ mem[f].size \in Nat /\ f % GRAIN = 0 /\ mem[f].size % GRAIN = 0
      BY <1>4
    <3>2. (f + mem[f].size) % GRAIN = 0
      BY <3>1, MultipleSum, HeapAssumption
    <3>3. QED
      BY <3>1, <3>2
  <2>3. PICK g \in F : g <= e /\ e < g + mem[g].size
    BY <2>1, <2>2, <1>3, <1>4, <1>5, <1>6
  <2>4. f # g /\ ~(g < f)
    BY <2>3, <1>4
  <2>5. f < g
    BY <2>4, <1>4
  <2>6. e < g
    BY <2>5, <1>4
  <2>7. QED
    BY <2>2, <2>3, <2>6, <1>4
<1>8. Payload(f, l) \in Nat /\ Payload(f, l) <= q
  BY <1>3, <1>4, <1>6, PayloadOnGrid
<1>9. Suffices(f, l)
  BY <1>3, <1>4, <1>7, <1>8 DEF Suffices
<1>10. QED
  BY <1>6, <1>9

\* alloc has rejected every free block when it returns null, and every one
\* before the block it carves.
LEMMA NullStepIsFull ==
    ASSUME IInv, AllocNull, NEW q \in Grid,
           q % Align(req.layout) = 0,
           q + Size(req.layout) <= End,
           \A b \in live : Before(q, Size(req.layout), b.ptr, Size(b.layout))
    PROVE  FALSE
<1>1. PICK F : Whole(F)
  BY WholeWitness DEF IInv
<1>2. /\ req.layout \in Layouts
      /\ \A f \in F : ~Suffices(f, req.layout)
  BY <1>1 DEF AllocNull, IInv, TypeOK, Whole, CursorsOK
<1>3. QED
  BY <1>1, <1>2, ClearRangeFits DEF IInv

LEMMA CarveIsClear ==
    ASSUME IInv, AllocCarve
    PROVE  /\ Payload(cur, req.layout) \in Grid
           /\ Payload(cur, req.layout) + Size(req.layout) <= End
           /\ \A b \in live : Before(b.ptr, Size(b.layout),
                                     Payload(cur, req.layout), Size(req.layout))
<1> DEFINE l == req.layout
           p == Payload(cur, l)
<1>1. PICK F : Whole(F)
  BY WholeWitness DEF IInv
<1>2. cur \in F /\ Suffices(cur, l) /\ l \in Layouts
  BY <1>1, WholeFacts DEF IInv, TypeOK, AllocCarve
<1>3. /\ cur \in Grid /\ cur \in Nat /\ mem[cur].size \in Nat /\ cur + mem[cur].size <= End
      /\ Start <= cur /\ End \in Nat
  BY <1>1, <1>2, WholeFacts, GridFacts DEF IInv, Whole, FreeBlocksOK
<1>4. Size(l) \in Nat /\ Size(l) > 0
  BY <1>2, NormalisedLayout, HeapAssumption
<1>5. p \in Nat /\ p >= cur /\ p % GRAIN = 0
  BY <1>2, <1>3, PayloadOnGrid
<1>6. p + Size(l) <= cur + mem[cur].size
  BY <1>2, <1>3, <1>4, <1>5 DEF Suffices
<1> HIDE DEF p
<1>7. p \in Grid /\ p + Size(l) <= End
  BY <1>3, <1>4, <1>5, <1>6, GridFacts, HeapAssumption
<1>8. ASSUME NEW b \in live PROVE Before(b.ptr, Size(b.layout), p, Size(l))
  <2>1. /\ b.ptr \in Nat /\ Size(b.layout) \in Nat
        /\ Before(b.ptr, Size(b.layout), cur, mem[cur].size)
    BY <1>1, <1>2, WholeFacts DEF IInv, Whole, LiveBlocksOK
  <2>2. QED
    BY <2>1, <1>3, <1>4, <1>5, <1>6 DEF Before
<1>9. QED
  BY <1>7, <1>8 DEF p

LEMMA CarveIsLowest ==
    ASSUME IInv, AllocCarve, NEW q \in Grid,
           q % Align(req.layout) = 0,
           q + Size(req.layout) <= End,
           \A b \in live : Before(q, Size(req.layout), b.ptr, Size(b.layout))
    PROVE  Payload(cur, req.layout) <= q
<1>1. PICK F : Whole(F)
  BY WholeWitness DEF IInv
<1>2. /\ req.layout \in Layouts /\ cur \in Grid
      /\ \A f \in F : f < cur => ~Suffices(f, req.layout)
  BY <1>1 DEF AllocCarve, IInv, TypeOK, Whole, CursorsOK
<1>3. PICK f \in F : f <= q /\ Suffices(f, req.layout)
  BY <1>1, <1>2, ClearRangeFits DEF IInv
<1>4. f \in Nat /\ cur \in Nat /\ q \in Nat
  BY <1>1, <1>2, WholeFacts, GridFacts DEF IInv
<1>5. cur <= q
  BY <1>2, <1>3, <1>4
<1>6. QED
  BY <1>2, <1>4, <1>5, PayloadOnGrid

\* Heap::alloc returns null only when no aligned range of the normalised
\* size is clear of live blocks.
THEOREM NullMeansFull == Spec => NullOnlyWhenFull
<1> DEFINE Full == ~\E p \in Grid :
                      /\ p % Align(req.layout) = 0
                      /\ p + Size(req.layout) <= End
                      /\ \A b \in live : Before(p, Size(req.layout), b.ptr, Size(b.layout))
<1>1. IInv => [AllocNull => Full]_vars
  BY NullStepIsFull
<1>2. Spec => []IInv
  BY HeapStaysWhole, PTL DEF IInv
<1>3. QED
  BY <1>1, <1>2, PTL DEF NullOnlyWhenFull

\* Heap::alloc is first fit by address as well as by list order: what it
\* returns is the lowest aligned range of the normalised size that is clear of
\* live blocks, because the list is sorted and its neighbours are merged.
THEOREM AllocIsFirstFit ==
    Spec => [][AllocCarve =>
                 \A p \in Grid :
                    /\ p % Align(req.layout) = 0
                    /\ p + Size(req.layout) <= End
                    /\ \A b \in live : Before(p, Size(req.layout), b.ptr, Size(b.layout))
                    => Payload(cur, req.layout) <= p]_vars
<1> DEFINE Lowest == \A p \in Grid :
                       /\ p % Align(req.layout) = 0
                       /\ p + Size(req.layout) <= End
                       /\ \A b \in live : Before(p, Size(req.layout), b.ptr, Size(b.layout))
                       => Payload(cur, req.layout) <= p
<1>1. IInv => [AllocCarve => Lowest]_vars
  BY CarveIsLowest
<1>2. Spec => []IInv
  BY HeapStaysWhole, PTL DEF IInv
<1>3. QED
  BY <1>1, <1>2, PTL

-----------------------------------------------------------------------------
(* free_bytes and free_blocks *)

\* The blocks a walk with its cursor at c has passed, and their grains.
Passed(F, c)    == {f \in F : c = NULL \/ f < c}
GrainsOf(f)     == {a \in Grid : f <= a /\ a < f + mem[f].size}
Walked(F, c)    == {a \in Grid : \E f \in Passed(F, c) : a \in GrainsOf(f)}

\* What the accumulators hold between two iterations.
Counted(F) ==
    /\ total = Cardinality(Walked(F, cur)) * GRAIN
    /\ count = Cardinality(Passed(F, cur))

StatInv == pc = "stat" => \E F : Whole(F) /\ Counted(F)

LEMMA GridIsFinite == IsFiniteSet(Grid) /\ \A S \in SUBSET Grid : IsFiniteSet(S)
<1>1. Start \in Int /\ End - 1 \in Int
  BY GridFacts, HeapAssumption
<1>2. IsFiniteSet(Start .. (End - 1))
  BY <1>1, FS_Interval
<1>3. IsFiniteSet(Grid)
  BY <1>2, FS_Subset DEF Grid
<1>4. QED
  BY <1>3, FS_Subset

\* A block has as many grains as its header says bytes, over the grain.
LEMMA GrainsCount ==
    ASSUME TypeOK, NEW F, Whole(F), NEW f \in F
    PROVE  Cardinality(GrainsOf(f)) * GRAIN = mem[f].size
<1>1. /\ f \in Grid /\ f \in Nat /\ f % GRAIN = 0 /\ Start <= f
      /\ mem[f].size \in Nat /\ mem[f].size % GRAIN = 0 /\ f + mem[f].size <= End
  BY WholeFacts, GridFacts DEF Whole, FreeBlocksOK
<1>2. GRAIN \in Nat \ {0} /\ End \in Nat /\ Start \in Nat
  BY HeapAssumption, GridFacts
<1>3. PICK n \in Nat : mem[f].size = GRAIN * n
  BY <1>1, <1>2, MultipleIff
<1>4. GRAIN * n = n * GRAIN /\ n * GRAIN \in Nat
  BY <1>2
<1> DEFINE M == {a \in Nat : a % GRAIN = 0 /\ f <= a /\ a < f + n * GRAIN}
<1>5. GrainsOf(f) = M
  BY <1>1, <1>2, <1>3, <1>4, GridFacts DEF GrainsOf
<1>6. Cardinality(M) = n
  BY <1>1, <1>2, MultiplesCount
<1> HIDE DEF M
<1>7. QED
  BY <1>3, <1>4, <1>5, <1>6

\* The walk begins with nothing passed.
LEMMA StatCallCounted ==
    ASSUME TypeOK', NEW F, Whole(F)', cur' = head', total' = 0, count' = 0
    PROVE  Counted(F)'
<1>1. \A f \in F : f \in Nat /\ f # NULL /\ f \in Grid
  BY GridFacts DEF Whole
<1>2. Follows(F, NULL, head')
  BY DEF Whole, ListOf, Follows
<1>3. \A f \in F : NULL < f
  BY <1>1 DEF NULL
<1>4. \A f \in F : ~(cur' = NULL \/ f < cur')
  BY <1>1, <1>2, <1>3 DEF Follows, NULL
<1>5. Passed(F, cur') = {}
  BY <1>4 DEF Passed
<1>6. Walked(F, cur)' = {}
  BY <1>5 DEF Walked
<1>7. Cardinality({}) = 0 /\ GRAIN \in Nat
  BY FS_EmptySet, HeapAssumption
<1>8. QED
  BY <1>5, <1>6, <1>7 DEF Counted

\* Each iteration passes one block, whose grains were not counted before.
LEMMA StatNextCounted ==
    ASSUME IInv, NEW F, Whole(F), Counted(F), StatNext
    PROVE  Counted(F)'
<1>1. /\ pc = "stat" /\ cur # NULL /\ Advance
      /\ total' = total + mem[cur].size /\ count' = count + 1
  BY DEF StatNext
<1>2. /\ cur \in F /\ Follows(F, cur, mem[cur].next)
      /\ \A f \in F : mem[cur].next = NULL \/ f < mem[cur].next => f = cur \/ f < cur
  BY <1>1, AdvanceFollows
<1>3. /\ \A f \in F : f \in Nat /\ f # NULL /\ f \in Grid
      /\ cur \in Nat /\ mem[cur].size \in Nat
  BY <1>2, WholeFacts DEF IInv
<1>4. cur' = mem[cur].next /\ mem' = mem
  BY <1>1 DEF Advance
<1>5. Passed(F, cur') = Passed(F, cur) \cup {cur}
  <2>1. ASSUME NEW f \in F PROVE f \in Passed(F, cur') <=> f = cur \/ f \in Passed(F, cur)
    <3>1. f \in Passed(F, cur) <=> f < cur
      BY <1>1 DEF Passed
    <3>2. f = cur \/ f < cur => cur' = NULL \/ f < cur'
      <4>1. cur' = NULL \/ (cur' \in Nat /\ cur < cur')
        BY <1>2, <1>3, <1>4 DEF Follows
      <4>2. f \in Nat /\ cur \in Nat
        BY <1>3
      <4>3. QED
        BY <4>1, <4>2
    <3>3. QED
      BY <1>2, <1>4, <3>1, <3>2 DEF Passed
  <2>2. Passed(F, cur') \subseteq F /\ Passed(F, cur) \subseteq F
    BY DEF Passed
  <2>3. QED
    BY <1>2, <2>1, <2>2
<1>6. cur \notin Passed(F, cur)
  BY <1>1, <1>3 DEF Passed
<1>7. Walked(F, cur)' = Walked(F, cur) \cup GrainsOf(cur)
  <2>1. \A f : GrainsOf(f)' = GrainsOf(f)
    BY <1>4 DEF GrainsOf
  <2>2. Walked(F, cur)' = {a \in Grid : \E f \in Passed(F, cur') : a \in GrainsOf(f)}
    BY <1>4 DEF Walked, GrainsOf
  <2>3. GrainsOf(cur) \subseteq Grid
    BY DEF GrainsOf
  <2>4. QED
    BY <1>5, <2>2, <2>3 DEF Walked
<1>8. Walked(F, cur) \cap GrainsOf(cur) = {}
  <2>1. ASSUME NEW a, a \in Walked(F, cur), a \in GrainsOf(cur) PROVE FALSE
    <3>1. PICK f \in F : f < cur /\ a \in GrainsOf(f)
      BY <1>1, <2>1 DEF Walked, Passed
    <3>2. f + mem[f].size < cur
      BY <1>2, <3>1 DEF Whole, FreeBlocksOK
    <3>3. a \in Nat /\ a < f + mem[f].size /\ cur <= a
      BY <2>1, <3>1, GridFacts DEF GrainsOf
    <3>4. f \in Nat /\ mem[f].size \in Nat
      BY <3>1, WholeFacts DEF IInv
    <3>5. QED
      BY <1>3, <3>2, <3>3, <3>4
  <2>2. QED
    BY <2>1
<1>9. count' = Cardinality(Passed(F, cur'))
  <2>1. Passed(F, cur) \in SUBSET Grid
    BY <1>3 DEF Passed
  <2>2. IsFiniteSet(Passed(F, cur))
    BY <2>1, GridIsFinite
  <2>3. Cardinality(Passed(F, cur) \cup {cur}) = Cardinality(Passed(F, cur)) + 1
    BY <1>6, <2>2, FS_AddElement
  <2>4. QED
    BY <1>1, <1>5, <2>3 DEF Counted
<1>10. total' = Cardinality(Walked(F, cur)') * GRAIN
  <2>1. Walked(F, cur) \in SUBSET Grid /\ GrainsOf(cur) \in SUBSET Grid
    BY DEF Walked, GrainsOf
  <2>2. IsFiniteSet(Walked(F, cur)) /\ IsFiniteSet(GrainsOf(cur))
    BY <2>1, GridIsFinite
  <2>3. PICK x \in Nat, y \in Nat : x = Cardinality(Walked(F, cur)) /\ y = Cardinality(GrainsOf(cur))
    BY <2>2, FS_CardinalityType
  <2>4. Cardinality({}) = 0
    BY FS_EmptySet
  <2>5. Cardinality(Walked(F, cur) \cup GrainsOf(cur)) = x + y - Cardinality(Walked(F, cur) \cap GrainsOf(cur))
    BY <2>2, <2>3, FS_Union
  <2>6. Cardinality(Walked(F, cur)') = x + y
    <3>1. Cardinality(Walked(F, cur) \cap GrainsOf(cur)) = 0
      BY <1>8, <2>4
    <3>2. Cardinality(Walked(F, cur) \cup GrainsOf(cur)) = x + y
      BY <2>5, <3>1
    <3>3. QED
      BY <1>7, <3>2
  <2>7. y * GRAIN = mem[cur].size
    BY <1>2, <2>3, GrainsCount DEF IInv
  <2>8. total = x * GRAIN
    BY <2>3 DEF Counted
  <2>9. (x + y) * GRAIN = x * GRAIN + y * GRAIN
    BY <2>3, HeapAssumption
  <2>10. QED
    BY <1>1, <2>6, <2>7, <2>8, <2>9
<1>11. QED
  BY <1>9, <1>10 DEF Counted

LEMMA StatStep == IInv /\ StatInv /\ [Next]_vars => StatInv'
<1> SUFFICES ASSUME IInv, StatInv, [Next]_vars, pc' = "stat"
             PROVE  \E F : Whole(F)' /\ Counted(F)'
  BY DEF StatInv
<1>1. CASE StatCall
  <2>1. IInv'
    BY StepWhole
  <2>2. PICK F : Whole(F)'
    BY <2>1 DEF IInv, HeapWhole, Whole
  <2>3. cur' = head' /\ total' = 0 /\ count' = 0
    BY <1>1 DEF StatCall, Enter
  <2>4. Counted(F)'
    BY <2>1, <2>2, <2>3, StatCallCounted DEF IInv
  <2>5. QED
    BY <2>2, <2>4
<1>2. CASE StatNext
  <2>1. PICK F : Whole(F) /\ Counted(F)
    BY <1>2 DEF StatInv, StatNext
  <2>2. Whole(F)' /\ Counted(F)'
    BY <1>2, <2>1, WalkKeeps, StatNextCounted
  <2>3. QED
    BY <2>2
<1>3. CASE UNCHANGED vars
  <2>1. pc = "stat" /\ UNCHANGED <<head, mem, live, pc, req, prev, cur, total, count>>
    BY <1>3 DEF vars, regs
  <2>2. PICK F : Whole(F) /\ Counted(F)
    BY <2>1 DEF StatInv
  <2>3. Whole(F)'
    BY <2>1, <2>2 DEF Whole, ListOf, Follows, FreeBlocksOK, LiveBlocksOK, NothingLost, CursorsOK, Suffices
  <2>4. Counted(F)'
    BY <2>1, <2>2 DEF Counted, Passed, Walked, GrainsOf
  <2>5. QED
    BY <2>3, <2>4
<1>4. CASE ~StatCall /\ ~StatNext /\ Next
  <2>1. pc' # "stat"
    BY <1>4 DEF Next, Step, AllocCall, DeallocCall, ClientWrite, AllocNext, AllocCarve, AllocNull,
       DeallocNext, DeallocFinish, StatReturn, Enter, Advance, Return, regs
  <2>2. QED
    BY <2>1
<1>5. QED
  BY <1>1, <1>2, <1>3, <1>4

\* At the end of the walk every free block has been passed, and free blocks
\* cover what live blocks do not.
LEMMA WalkEndsExact == IInv /\ StatInv => StatsExact
<1> SUFFICES ASSUME IInv, StatInv, pc = "stat", cur = NULL
             PROVE  /\ total = Cardinality(Unheld) * GRAIN
                    /\ \E F \in SUBSET Grid : ListOf(F) /\ count = Cardinality(F)
  BY DEF StatsExact
<1>1. PICK F : Whole(F) /\ Counted(F)
  BY DEF StatInv
<1>2. Passed(F, cur) = F
  BY DEF Passed
<1>3. Walked(F, cur) = Unheld
  <2>1. ASSUME NEW a \in Grid, NEW f \in F, a \in GrainsOf(f), NEW b \in live,
               b.ptr <= a, a < b.ptr + Size(b.layout)
        PROVE  FALSE
    <3>1. Before(b.ptr, Size(b.layout), f, mem[f].size)
      BY <1>1 DEF Whole, LiveBlocksOK
    <3>2. /\ b.ptr \in Nat /\ Size(b.layout) \in Nat /\ f \in Nat /\ mem[f].size \in Nat /\ a \in Nat
      BY <1>1, WholeFacts, GridFacts DEF IInv
    <3>3. f <= a /\ a < f + mem[f].size
      BY <2>1 DEF GrainsOf
    <3>4. QED
      BY <2>1, <3>1, <3>2, <3>3 DEF Before
  <2>2. Walked(F, cur) \subseteq Unheld
    BY <1>2, <2>1 DEF Walked, Unheld
  <2>3. Unheld \subseteq Walked(F, cur)
    <3>1. ASSUME NEW a \in Unheld PROVE a \in Walked(F, cur)
      <4>1. a \in Grid /\ \A b \in live : ~(b.ptr <= a /\ a < b.ptr + Size(b.layout))
        BY DEF Unheld
      <4>2. PICK f \in F : f <= a /\ a < f + mem[f].size
        BY <1>1, <4>1 DEF Whole, NothingLost
      <4>3. QED
        BY <1>2, <4>1, <4>2 DEF Walked, GrainsOf
    <3>2. QED
      BY <3>1
  <2>4. QED
    BY <2>2, <2>3
<1>4. QED
  BY <1>1, <1>2, <1>3 DEF Counted, Whole

\* With nothing live, the walk counts every grain, in one block.
LEMMA EmptyWalkCounts ==
    ASSUME IInv, StatInv, pc = "stat", cur = NULL, live = {}
    PROVE  total = Cardinality(Grid) * GRAIN /\ count = 1
<1>1. StatsExact
  BY WalkEndsExact
<1>2. Unheld = Grid
  BY DEF Unheld
<1>3. PICK F \in SUBSET Grid : ListOf(F) /\ count = Cardinality(F)
  BY <1>1 DEF StatsExact
<1>4. head = Start /\ mem[Start].next = NULL
  BY EmptyIsOneBlock
<1>5. F = {Start}
  <2>1. Follows(F, NULL, Start)
    BY <1>3, <1>4 DEF ListOf
  <2>2. Start \in F /\ \A f \in F : Start <= f
    BY <2>1, GridFacts, HeapAssumption DEF Follows, NULL
  <2>3. Follows(F, Start, NULL)
    BY <2>2, <1>3, <1>4 DEF ListOf
  <2>4. \A f \in F : ~(Start < f)
    BY <2>3 DEF Follows
  <2>5. \A f \in F : f = Start
    BY <2>2, <2>4, GridFacts, HeapAssumption
  <2>6. QED
    BY <2>2, <2>5
<1>6. count = 1
  BY <1>3, <1>5, FS_Singleton
<1>7. QED
  BY <1>1, <1>2, <1>6 DEF StatsExact

\* What free_bytes and free_blocks return is exact, whatever clients have
\* allocated and freed: the bytes no live block holds, and the number of
\* blocks on the list.
THEOREM StatisticsAreExact == Spec => []StatsExact
<1>1. Init => StatInv
  BY DEF Init, StatInv
<1>2. Spec => []IInv
  BY HeapStaysWhole, PTL DEF IInv
<1>3. QED
  BY <1>1, <1>2, StatStep, WalkEndsExact, PTL DEF Spec

\* A call ends with this step, or goes on at a block further up the arena, or
\* at the end of the list.
WalkAdvances ==
    \/ pc' = "idle"
    \/ cur \in Grid /\ pc' = pc /\ (cur' = NULL \/ (cur' \in Grid /\ cur < cur'))

LEMMA StepAdvances ==
    ASSUME IInv, Step
    PROVE  WalkAdvances
<1>1. PICK F : Whole(F)
  BY WholeWitness DEF IInv
<1>2. ASSUME pc # "idle", cur # NULL, Advance PROVE WalkAdvances
  <2>1. cur \in F /\ cur \in Grid
    BY <1>1, <1>2, WholeFacts DEF IInv
  <2>2. cur' = mem[cur].next /\ pc' = pc
    BY <1>2 DEF Advance
  <2>3. mem[cur].next = NULL \/ (mem[cur].next \in F /\ cur < mem[cur].next)
    BY <1>1, <2>1 DEF Whole, ListOf, Follows
  <2>4. QED
    BY <1>1, <2>1, <2>2, <2>3 DEF WalkAdvances, Whole
<1>3. CASE AllocNext \/ DeallocNext \/ StatNext
  BY <1>2, <1>3 DEF AllocNext, DeallocNext, StatNext
<1>4. CASE AllocCarve \/ AllocNull \/ DeallocFinish \/ StatReturn
  BY <1>4 DEF AllocCarve, AllocNull, DeallocFinish, StatReturn, Return, WalkAdvances
<1>5. QED
  BY <1>3, <1>4 DEF Step

\* The free list has no cycle to walk into: every turn of the loops of alloc,
\* dealloc, free_bytes and free_blocks ends the call or moves strictly up the
\* arena, so none takes more turns than the arena has grains.
THEOREM WalksEnd == Spec => [][Step => WalkAdvances]_vars
<1>1. IInv => [Step => WalkAdvances]_vars
  BY StepAdvances
<1>2. Spec => []IInv
  BY HeapStaysWhole, PTL DEF IInv
<1>3. QED
  BY <1>1, <1>2, PTL

\* Heap::alloc and Heap::dealloc meet the GlobalAlloc contract: a carve is
\* an allocation of the abstract allocator, the end of a dealloc a free, and
\* every other step changes nothing a client can see.
THEOREM HeapMeetsContract == Spec => Contract
<1>1. Init => A!Init
  BY DEF Init, A!Init
<1>2. ASSUME IInv, AllocCarve PROVE A!Alloc
  <2> DEFINE l == req.layout
             p == Payload(cur, l)
  <2>1. PICK F : Whole(F)
    BY <1>2, WholeWitness DEF IInv
  <2>2. cur \in F /\ Suffices(cur, l) /\ l \in Layouts
    BY <1>2, <2>1, WholeFacts DEF IInv, TypeOK, AllocCarve
  <2>3. /\ cur \in Grid /\ cur \in Nat /\ mem[cur].size \in Nat /\ cur + mem[cur].size <= End
        /\ Start <= cur /\ End \in Nat
    BY <1>2, <2>1, <2>2, WholeFacts, GridFacts DEF IInv, Whole, FreeBlocksOK
  <2>4. l.size \in Nat /\ l.align \in Nat \ {0} /\ Size(l) \in Nat /\ l.size <= Size(l)
        /\ Size(l) > 0 /\ Align(l) \in Nat \ {0} /\ Align(l) % l.align = 0
    BY <2>2, NormalisedLayout, HeapAssumption
  <2>5. p \in Nat /\ p >= cur /\ p % Align(l) = 0
    BY <2>2, <2>3, PayloadOnGrid
  <2>6. p % l.align = 0
    BY <2>4, <2>5, MultipleTrans
  <2>7. (p - cur) + Size(l) <= mem[cur].size
    BY <2>2, <2>3, <2>4, <2>5 DEF Suffices
  <2>8. ASSUME NEW b \in live
        PROVE  p # b.ptr /\ A!Apart(p, l, b.ptr, b.layout)
    <3>1. /\ b.ptr \in Nat /\ b.layout \in Layouts /\ Size(b.layout) \in Nat
          /\ Size(b.layout) > 0 /\ Before(b.ptr, Size(b.layout), cur, mem[cur].size)
      BY <1>2, <2>1, <2>2, WholeFacts DEF IInv, Whole, LiveBlocksOK
    <3>2. b.layout.size \in Nat /\ b.layout.size <= Size(b.layout)
      BY <3>1, NormalisedLayout
    <3>3. QED
      BY <3>1, <3>2, <2>3, <2>4, <2>5, <2>7 DEF Before, A!Apart
  <2>9. /\ Start <= p /\ p + l.size <= Start + HeapSize
        /\ p \in Start .. (Start + HeapSize)
    BY <2>3, <2>4, <2>5, <2>7, HeapAssumption DEF End
  <2>10. A!MayServe(p, l, live)
    BY <2>6, <2>8, <2>9 DEF A!MayServe
  <2>11. live' = live \cup {[ptr |-> p, layout |-> l]}
    BY <1>2 DEF AllocCarve
  <2>12. QED
    BY <2>2, <2>9, <2>10, <2>11 DEF A!Alloc
<1>3. ASSUME IInv, DeallocFinish PROVE A!Free
  <2>1. req \in live
    BY <1>3, WholeWitness DEF IInv, DeallocFinish, Whole, CursorsOK
  <2>2. QED
    BY <2>1, <1>3 DEF DeallocFinish, A!Free
<1>4. IInv /\ [Next]_vars => [A!Next]_live
  <2> SUFFICES ASSUME IInv, [Next]_vars PROVE A!Next \/ live' = live
    BY DEF A!Next
  <2>1. CASE AllocCarve
    BY <2>1, <1>2 DEF A!Next
  <2>2. CASE DeallocFinish
    BY <2>2, <1>3 DEF A!Next
  <2>3. CASE ~AllocCarve /\ ~DeallocFinish
    BY <2>3 DEF Next, Step, AllocCall, DeallocCall, StatCall, ClientWrite, AllocNext, AllocNull,
       DeallocNext, StatNext, StatReturn, Enter, Advance, vars
  <2>4. QED
    BY <2>1, <2>2, <2>3
<1>5. Spec => []IInv
  BY HeapStaysWhole, PTL DEF IInv
<1>6. QED
  BY <1>1, <1>4, <1>5, PTL DEF Spec, Contract, A!Spec
=============================================================================
