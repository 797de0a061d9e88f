----------------------------- MODULE ElfProofs -----------------------------
(***************************************************************************)
(* Proofs about the ELF loader, for every file: any number of program      *)
(* headers with any offsets, addresses and sizes, any page size, any width  *)
(* of addresses and any set of free pages.                                 *)
(***************************************************************************)
EXTENDS ElfLoader, ArithProofs, TLAPS

\* The segment the loader has dealt with at position j, if it is one.
Segment(j) == image.phdrs[j]
Dealt == {j \in 1 .. index : Segment(j).load}

\* A segment lies in the file, in the address space, on pages that are the
\* loader's, and in memory as it is in the file.
InPlace(s) ==
    /\ s.filesz <= s.memsz /\ s.vaddr + s.memsz < LIMIT
    /\ \A i \in 0 .. (s.memsz - 1) :
          /\ align_down(s.vaddr + i) \in claimed
          /\ mem[s.vaddr + i] = IF i < s.filesz THEN FileByte(s.offset + i) ELSE 0

\* The span holds the pages claimed, and its ends can be rounded.
Span ==
    /\ highest + (PAGE - 1) < LIMIT
    /\ IF loaded_any THEN lowest % PAGE = 0 ELSE lowest = LIMIT - 1
    /\ claimed # {} => loaded_any
    /\ \A p \in claimed : lowest <= p /\ p < highest

Reported ==
    /\ pc = "done" => index = Len(image.phdrs)
    /\ pc = "done" => kernel.base = lowest /\ kernel.size = align_up(highest) - lowest
    /\ pc = "done" => lowest <= highest /\ loaded_any

ElfInv ==
    /\ TypeOK /\ WritesStayInside /\ Span /\ Reported
    /\ \A j \in Dealt : InPlace(Segment(j))

-----------------------------------------------------------------------------
(* Pages and rounding *)

LEMMA Numbers ==
    /\ PAGE \in Nat \ {0} /\ LIMIT \in Nat \ {0} /\ LIMIT % PAGE = 0
    /\ \A a \in Address : a \in Nat /\ a < LIMIT
    /\ \A a \in Nat : a < LIMIT => a \in Address
BY LoaderAssumption DEF Address

LEMMA AlignDown ==
    ASSUME NEW v \in Nat
    PROVE  /\ align_down(v) \in Nat /\ align_down(v) <= v /\ align_down(v) % PAGE = 0
           /\ v < align_down(v) + PAGE
           /\ \A p \in Nat : p % PAGE = 0 /\ p <= v => p <= align_down(v)
BY Numbers, PrevMultipleBelow, PrevMultipleIsGreatest DEF align_down

\* Rounding up reaches the end of the page that holds the last byte.
LEMMA AlignUp ==
    ASSUME NEW v \in Nat
    PROVE  /\ align_up(v) \in Nat /\ align_up(v) % PAGE = 0
           /\ v <= align_up(v) /\ align_up(v) <= v + (PAGE - 1)
           /\ \A p \in Nat : p % PAGE = 0 /\ p < v => p + PAGE <= align_up(v)
<1> DEFINE x == v + (PAGE - 1)
<1>1. x \in Nat /\ PAGE \in Nat \ {0}
  BY Numbers
<1>2. align_up(v) = PrevMultiple(x, PAGE)
  BY DEF align_up
<1> HIDE DEF x
<1>3. /\ align_up(v) \in Nat /\ align_up(v) <= x /\ align_up(v) % PAGE = 0
      /\ x < align_up(v) + PAGE
      /\ \A p \in Nat : p % PAGE = 0 /\ p <= x => p <= align_up(v)
  BY <1>1, <1>2, PrevMultipleBelow, PrevMultipleIsGreatest
<1>4. v <= align_up(v)
  BY <1>1, <1>3 DEF x
<1>5. ASSUME NEW p \in Nat, p % PAGE = 0, p < v
      PROVE  p + PAGE <= align_up(v)
  <2>1. PAGE % PAGE = 0
    BY <1>1, MultipleIff
  <2>2. (p + PAGE) % PAGE = 0
    BY <1>1, <1>5, <2>1, MultipleSum
  <2>3. p + PAGE \in Nat /\ p + PAGE <= x
    BY <1>1, <1>5 DEF x
  <2>4. QED
    BY <1>3, <2>2, <2>3
<1>6. QED
  BY <1>3, <1>4, <1>5 DEF x

\* Every byte of a segment is on one of its pages.
LEMMA PageOfByte ==
    ASSUME NEW s \in ProgramHeader, s.vaddr + s.memsz < LIMIT,
           NEW a \in Nat, align_down(s.vaddr) <= a, a < s.vaddr + s.memsz
    PROVE  align_down(a) \in PagesOf(s)
<1>1. s.vaddr \in Nat /\ s.memsz \in Nat
  BY Numbers DEF ProgramHeader
<1>2. align_down(s.vaddr) \in Nat /\ align_down(s.vaddr) % PAGE = 0
  BY <1>1, AlignDown
<1>3. /\ align_down(a) \in Nat /\ align_down(a) <= a /\ align_down(a) % PAGE = 0
      /\ align_down(s.vaddr) <= align_down(a)
  BY <1>2, AlignDown
<1>4. align_down(a) < LIMIT
  BY <1>1, <1>3, Numbers
<1>5. align_down(a) < align_down(s.vaddr) + Total(s)
  <2>1. align_down(s.vaddr) + Total(s) = s.vaddr + s.memsz
    BY <1>1, <1>2 DEF Total
  <2>2. QED
    BY <1>1, <1>3, <2>1
<1>6. QED
  BY <1>3, <1>4, <1>5, Numbers DEF PagesOf

\* The pages of a segment: multiples of the page size, inside its span.
LEMMA PagesInSpan ==
    ASSUME NEW s \in ProgramHeader, NEW p \in PagesOf(s)
    PROVE  /\ p \in Address /\ p \in Nat /\ p % PAGE = 0
           /\ align_down(s.vaddr) <= p /\ p < s.vaddr + s.memsz
<1>1. s.vaddr \in Nat /\ s.memsz \in Nat
  BY Numbers DEF ProgramHeader
<1>2. align_down(s.vaddr) \in Nat
  BY <1>1, AlignDown
<1>3. align_down(s.vaddr) + Total(s) = s.vaddr + s.memsz
  BY <1>1, <1>2 DEF Total
<1>4. QED
  BY <1>3, Numbers DEF PagesOf

\* A segment that is not refused ends a page below the top, or is empty and
\* aligned: the firmware has no page there to grant.
LEMMA EndCanBeRounded ==
    ASSUME NEW s \in ProgramHeader, s.vaddr + s.memsz < LIMIT,
           Total(s) = 0 \/ PagesOf(s) \subseteq FreePages
    PROVE  s.vaddr + s.memsz + (PAGE - 1) < LIMIT
<1>1. s.vaddr \in Nat /\ s.memsz \in Nat /\ s.vaddr < LIMIT /\ PAGE \in Nat \ {0} /\ LIMIT \in Nat
  BY Numbers DEF ProgramHeader
<1>2. align_down(s.vaddr) \in Nat /\ align_down(s.vaddr) <= s.vaddr /\ align_down(s.vaddr) % PAGE = 0
  BY <1>1, AlignDown
<1>3. CASE Total(s) = 0
  <2>1. s.memsz = 0 /\ s.vaddr = align_down(s.vaddr)
    BY <1>1, <1>2, <1>3 DEF Total
  <2>2. s.vaddr + PAGE <= LIMIT
    BY <1>1, <1>2, <2>1, Numbers, MultiplesApart
  <2>3. QED
    BY <1>1, <2>1, <2>2
<1>4. CASE Total(s) # 0 /\ PagesOf(s) \subseteq FreePages
  <2> DEFINE x == s.vaddr + s.memsz - 1
  <2>1. x \in Nat /\ align_down(s.vaddr) <= x /\ x < s.vaddr + s.memsz
    BY <1>1, <1>2, <1>4 DEF Total
  <2> HIDE DEF x
  <2> DEFINE p == align_down(x)
  <2>2. p \in PagesOf(s) /\ x < p + PAGE /\ p \in Nat /\ p % PAGE = 0
    BY <2>1, PageOfByte, AlignDown
  <2> HIDE DEF p
  <2>3. p + PAGE < LIMIT
    BY <1>4, <2>2, LoaderAssumption
  <2>4. p + PAGE \in Nat /\ (p + PAGE) % PAGE = 0
    <3>1. PAGE % PAGE = 0 /\ PAGE \in Nat \ {0} /\ PAGE \in Nat
      BY <1>1, MultipleIff
    <3>2. p \in Nat /\ p % PAGE = 0
      BY <2>2
    <3>3. (p + PAGE) % PAGE = 0
      BY <3>1, <3>2, MultipleSum
    <3>4. QED
      BY <3>1, <3>2, <3>3
  <2>5. (p + PAGE) + PAGE <= LIMIT
    BY <1>1, <2>3, <2>4, Numbers, MultiplesApart
  <2>6. QED
    BY <1>1, <2>2, <2>5 DEF x
<1>5. QED
  BY <1>3, <1>4

-----------------------------------------------------------------------------
(* The steps *)

LEMMA Headers ==
    ASSUME TypeOK
    PROVE  /\ image.phdrs \in Seq(ProgramHeader) /\ Len(image.phdrs) \in Nat /\ index \in Nat
           /\ \A j \in 1 .. Len(image.phdrs) : Segment(j) \in ProgramHeader
           /\ image.entry \in Nat /\ image.entry < LIMIT
<1>1. image \in Images
  BY DEF TypeOK
<1>2. image.phdrs \in Seq(ProgramHeader) /\ image.entry \in Address
  BY <1>1, LoaderAssumption
<1>3. Len(image.phdrs) \in Nat /\ \A j \in 1 .. Len(image.phdrs) : Segment(j) \in ProgramHeader
  BY <1>2 DEF Segment
<1>4. index \in Nat
  BY <1>3 DEF TypeOK
<1>5. QED
  BY <1>2, <1>3, <1>4, Numbers

\* What a step that leaves memory and the span alone has to show.
LEMMA QuietStep ==
    ASSUME ElfInv, UNCHANGED <<image, index, lowest, highest, loaded_any, claimed, mem>>,
           pc' \in {"parse", "headers", "done", "error"},
           kernel' \in [entry : Address, base : Address, size : Address], Reported'
    PROVE  ElfInv'
<1>1. TypeOK'
  BY DEF ElfInv, TypeOK
<1>2. WritesStayInside' /\ Span'
  BY DEF ElfInv, WritesStayInside, Span
<1>3. \A j \in Dealt' : InPlace(Segment(j))'
  BY DEF ElfInv, Dealt, InPlace, Segment
<1>4. QED
  BY <1>1, <1>2, <1>3 DEF ElfInv

LEMMA FailKeepsInv ==
    ASSUME ElfInv, NEW e, Fail(e)
    PROVE  ElfInv'
<1>1. Reported'
  BY DEF Fail, Reported
<1>2. QED
  BY <1>1, QuietStep DEF Fail, ElfInv, TypeOK

LEMMA ParseHeaderKeepsInv ==
    ASSUME ElfInv, ParseHeader
    PROVE  ElfInv'
<1>1. CASE \E e : Fail(e)
  BY <1>1, FailKeepsInv
<1>2. CASE pc' = "headers" /\ UNCHANGED <<image, index, lowest, highest, loaded_any, claimed, mem, error, kernel>>
  <2>1. Reported'
    BY <1>2 DEF Reported
  <2>2. QED
    BY <1>2, <2>1, QuietStep DEF ElfInv, TypeOK
<1>3. QED
  BY <1>1, <1>2 DEF ParseHeader

LEMMA SkipHeaderKeepsInv ==
    ASSUME ElfInv, SkipHeader
    PROVE  ElfInv'
<1> USE DEF SkipHeader
<1>1. index \in Nat /\ Len(image.phdrs) \in Nat
  BY Headers DEF ElfInv
<1>2. TypeOK'
  BY <1>1 DEF ElfInv, TypeOK
<1>3. WritesStayInside' /\ Span' /\ Reported'
  BY DEF ElfInv, WritesStayInside, Span, Reported
<1>4. Dealt' = Dealt
  <2>1. ~Segment(index + 1).load
    BY DEF Phdr, Segment
  <2>2. \A j \in 1 .. (index + 1) : j \in 1 .. index \/ j = index + 1
    BY <1>1
  <2>3. 1 .. index \subseteq 1 .. (index + 1)
    BY <1>1
  <2>4. QED
    BY <2>1, <2>2, <2>3 DEF Dealt, Segment
<1>5. \A j \in Dealt' : InPlace(Segment(j))'
  BY <1>4 DEF ElfInv, InPlace, Segment
<1>6. QED
  BY <1>2, <1>3, <1>5 DEF ElfInv

\* What SegmentError lets pass.
LEMMA SegmentChecked ==
    ASSUME NEW s \in ProgramHeader, SegmentError(s) = "none"
    PROVE  /\ s.filesz <= s.memsz /\ s.offset + s.filesz < LIMIT /\ s.vaddr + s.memsz < LIMIT
           /\ s.vaddr \in Nat /\ s.memsz \in Nat /\ s.filesz \in Nat /\ s.offset \in Nat
<1>1. s.vaddr \in Nat /\ s.memsz \in Nat /\ s.filesz \in Nat /\ s.offset \in Nat /\ LIMIT \in Nat
  BY Numbers DEF ProgramHeader
<1>2. ~(s.filesz > s.memsz) /\ ~(s.offset + s.filesz >= LIMIT) /\ ~(s.vaddr + s.memsz >= LIMIT)
  BY DEF SegmentError
<1>3. QED
  BY <1>1, <1>2

\* Placing a segment writes its bytes, and nothing off its pages.
LEMMA PlacedSegment ==
    ASSUME TypeOK, NEW s \in ProgramHeader, SegmentError(s) = "none"
    PROVE  /\ Placed(s) \in [Address -> 0 .. LIMIT]
           /\ \A a \in Address : align_down(a) \notin PagesOf(s) => Placed(s)[a] = mem[a]
           /\ \A i \in 0 .. (s.memsz - 1) :
                 /\ s.vaddr + i \in Address
                 /\ align_down(s.vaddr + i) \in PagesOf(s)
                 /\ Placed(s)[s.vaddr + i] = IF i < s.filesz THEN FileByte(s.offset + i) ELSE 0
<1>1. /\ s.filesz <= s.memsz /\ s.offset + s.filesz < LIMIT /\ s.vaddr + s.memsz < LIMIT
      /\ s.vaddr \in Nat /\ s.memsz \in Nat /\ s.filesz \in Nat /\ s.offset \in Nat
      /\ LIMIT \in Nat
  BY SegmentChecked, Numbers
<1>2. align_down(s.vaddr) \in Nat /\ align_down(s.vaddr) <= s.vaddr
  BY <1>1, AlignDown
<1>3. ASSUME NEW a \in Address, s.vaddr <= a, a < s.vaddr + s.memsz
      PROVE  align_down(a) \in PagesOf(s)
  BY <1>1, <1>2, <1>3, Numbers, PageOfByte
<1>4. ASSUME NEW a \in Address
      PROVE  Placed(s)[a] \in 0 .. LIMIT
  <2>1. a \in Nat /\ a < LIMIT /\ mem[a] \in 0 .. LIMIT /\ 0 \in 0 .. LIMIT
    BY <1>1, Numbers DEF TypeOK
  <2>2. s.vaddr <= a /\ a < s.vaddr + s.filesz => FileByte(s.offset + (a - s.vaddr)) \in 0 .. LIMIT
    BY <1>1, <2>1 DEF FileByte
  <2>3. QED
    BY <2>1, <2>2 DEF Placed
<1>5. Placed(s) \in [Address -> 0 .. LIMIT]
  BY <1>4 DEF Placed
<1>6. ASSUME NEW a \in Address, align_down(a) \notin PagesOf(s)
      PROVE  Placed(s)[a] = mem[a]
  <2>1. ~(s.vaddr <= a /\ a < s.vaddr + s.filesz)
    <3>1. a \in Nat
      BY Numbers
    <3>2. ~(s.vaddr <= a /\ a < s.vaddr + s.memsz)
      BY <1>3, <1>6
    <3>3. QED
      BY <1>1, <3>1, <3>2
  <2>2. QED
    BY <1>6, <2>1 DEF Placed
<1>7. ASSUME NEW i \in 0 .. (s.memsz - 1)
      PROVE  /\ s.vaddr + i \in Address
             /\ align_down(s.vaddr + i) \in PagesOf(s)
             /\ Placed(s)[s.vaddr + i] = IF i < s.filesz THEN FileByte(s.offset + i) ELSE 0
  <2> DEFINE a == s.vaddr + i
  <2>1. i \in Nat /\ a \in Nat /\ s.vaddr <= a /\ a < s.vaddr + s.memsz /\ a < LIMIT
    BY <1>1, <1>7
  <2>2. a \in Address /\ align_down(a) \in PagesOf(s)
    BY <1>3, <2>1, Numbers
  <2>3. a < s.vaddr + s.filesz <=> i < s.filesz
    BY <1>1, <2>1
  <2>4. s.offset + (a - s.vaddr) = s.offset + i
    BY <1>1, <2>1
  <2>5. Placed(s)[a] = IF i < s.filesz THEN FileByte(s.offset + i) ELSE 0
    <3> HIDE DEF a
    <3>1. QED
      BY <2>1, <2>2, <2>3, <2>4 DEF Placed
  <2>6. QED
    BY <2>2, <2>5
<1>8. QED
  BY <1>5, <1>6, <1>7

\* A segment already in place is on claimed pages, which the firmware does
\* not grant again: the next one leaves it alone.
LEMMA StaysInPlace ==
    ASSUME TypeOK, NEW s \in ProgramHeader, InPlace(s), claimed \subseteq claimed',
           \A a \in Address : align_down(a) \in claimed => mem'[a] = mem[a]
    PROVE  InPlace(s)'
<1>1. s.vaddr \in Nat /\ s.memsz \in Nat /\ LIMIT \in Nat
  BY Numbers DEF ProgramHeader
<1>2. s.filesz <= s.memsz /\ s.vaddr + s.memsz < LIMIT
  BY DEF InPlace
<1>3. ASSUME NEW i \in 0 .. (s.memsz - 1)
      PROVE  /\ align_down(s.vaddr + i) \in claimed'
             /\ mem'[s.vaddr + i] = IF i < s.filesz THEN FileByte(s.offset + i) ELSE 0
  <2>1. s.vaddr + i \in Address
    BY <1>1, <1>2, Numbers
  <2>2. /\ align_down(s.vaddr + i) \in claimed
        /\ mem[s.vaddr + i] = IF i < s.filesz THEN FileByte(s.offset + i) ELSE 0
    BY DEF InPlace
  <2>3. QED
    BY <2>1, <2>2
<1>4. QED
  BY <1>2, <1>3 DEF InPlace

LEMMA LoadSegmentKeepsInv ==
    ASSUME ElfInv, LoadSegment
    PROVE  ElfInv'
<1> DEFINE s == Phdr(index)
<1>1. TypeOK /\ WritesStayInside /\ Span /\ \A j \in Dealt : InPlace(Segment(j))
  BY DEF ElfInv
<1>2. /\ index \in Nat /\ Len(image.phdrs) \in Nat /\ index < Len(image.phdrs)
      /\ s \in ProgramHeader /\ s = Segment(index + 1)
  <2>1. index \in Nat /\ Len(image.phdrs) \in Nat /\ index < Len(image.phdrs)
    BY <1>1, Headers DEF LoadSegment
  <2>2. index + 1 \in 1 .. Len(image.phdrs)
    BY <2>1
  <2>3. QED
    BY <1>1, <2>1, <2>2, Headers DEF Phdr, Segment
<1>3. /\ pc = "headers" /\ index' = index + 1 /\ loaded_any' = TRUE
      /\ UNCHANGED <<image, pc, error, kernel>>
      /\ SegmentError(s) = "none"
      /\ \/ Total(s) = 0 /\ UNCHANGED <<claimed, mem>>
         \/ /\ Total(s) # 0 /\ Granted(s)
            /\ claimed' = claimed \cup PagesOf(s) /\ mem' = Placed(s)
      /\ lowest' = IF align_down(s.vaddr) < lowest THEN align_down(s.vaddr) ELSE lowest
      /\ highest' = AtLeast(highest, s.vaddr + s.memsz)
  BY DEF LoadSegment
<1> HIDE DEF s
<1>4. /\ s.filesz <= s.memsz /\ s.offset + s.filesz < LIMIT /\ s.vaddr + s.memsz < LIMIT
      /\ s.vaddr \in Nat /\ s.memsz \in Nat /\ s.filesz \in Nat /\ s.offset \in Nat
      /\ LIMIT \in Nat /\ PAGE \in Nat \ {0}
  BY <1>2, <1>3, SegmentChecked, Numbers
<1>5. /\ align_down(s.vaddr) \in Nat /\ align_down(s.vaddr) <= s.vaddr
      /\ align_down(s.vaddr) % PAGE = 0
  BY <1>4, AlignDown
<1>6. /\ lowest \in Nat /\ lowest < LIMIT /\ highest \in Nat /\ highest < LIMIT
      /\ lowest' \in Nat /\ lowest' <= lowest /\ lowest' <= align_down(s.vaddr)
      /\ highest' \in Nat /\ highest <= highest' /\ s.vaddr + s.memsz <= highest'
  <2>1. lowest \in Nat /\ lowest < LIMIT /\ highest \in Nat /\ highest < LIMIT
    BY <1>1, Numbers DEF TypeOK
  <2>2. s.vaddr + s.memsz \in Nat
    BY <1>4
  <2>3. QED
    BY <1>3, <1>5, <2>1, <2>2 DEF AtLeast
<1>7. /\ Placed(s) \in [Address -> 0 .. LIMIT]
      /\ \A a \in Address : align_down(a) \notin PagesOf(s) => Placed(s)[a] = mem[a]
      /\ \A i \in 0 .. (s.memsz - 1) :
            /\ s.vaddr + i \in Address
            /\ align_down(s.vaddr + i) \in PagesOf(s)
            /\ Placed(s)[s.vaddr + i] = IF i < s.filesz THEN FileByte(s.offset + i) ELSE 0
  BY <1>1, <1>2, <1>3, PlacedSegment
<1>8. claimed \subseteq claimed' /\ claimed' \subseteq claimed \cup PagesOf(s)
  BY <1>3
<1>9. Total(s) = 0 \/ PagesOf(s) \subseteq FreePages
  BY <1>3 DEF Granted
<1>10. TypeOK'
  <2>1. index' \in 0 .. Len(image'.phdrs)
    BY <1>2, <1>3
  <2>2. lowest' \in Address /\ highest' \in Address
    <3>1. lowest' < LIMIT /\ highest' < LIMIT
      BY <1>3, <1>4, <1>6 DEF AtLeast
    <3>2. QED
      BY <1>6, <3>1, Numbers
  <2>3. claimed' \subseteq FreePages
    BY <1>1, <1>3 DEF TypeOK, Granted
  <2>4. mem' \in [Address -> 0 .. LIMIT]
    BY <1>1, <1>3, <1>7 DEF TypeOK
  <2>5. QED
    BY <1>1, <1>3, <2>1, <2>2, <2>3, <2>4 DEF TypeOK
<1>11. WritesStayInside'
  <2>1. ASSUME NEW a \in Address, align_down(a) \notin claimed'
        PROVE  mem'[a] = FOREIGN
    BY <1>1, <1>3, <1>7, <2>1 DEF WritesStayInside
  <2>2. QED
    BY <2>1 DEF WritesStayInside
<1>12. Span'
  <2>1. highest' + (PAGE - 1) < LIMIT
    <3>1. s.vaddr + s.memsz + (PAGE - 1) < LIMIT
      BY <1>2, <1>4, <1>9, EndCanBeRounded
    <3>2. highest + (PAGE - 1) < LIMIT
      BY <1>1 DEF Span
    <3>3. highest' = highest \/ highest' = s.vaddr + s.memsz
      BY <1>3 DEF AtLeast
    <3>4. QED
      BY <3>1, <3>2, <3>3
  <2>2. lowest' % PAGE = 0
    <3>1. CASE loaded_any
      BY <1>1, <1>3, <1>5, <3>1 DEF Span
    <3>2. CASE align_down(s.vaddr) < lowest
      BY <1>3, <1>5, <3>2
    \* The first segment, on a page that starts no lower than the initial value.
    <3>3. CASE ~loaded_any /\ ~(align_down(s.vaddr) < lowest)
      <4>1. lowest = LIMIT - 1
        BY <1>1, <3>3 DEF Span
      <4>2. lowest = align_down(s.vaddr)
        BY <1>4, <1>5, <1>6, <3>3, <4>1
      <4>3. QED
        BY <1>3, <1>5, <4>2
    <3>4. QED
      BY <3>1, <3>2, <3>3
  <2>3. ASSUME NEW p \in claimed'
        PROVE  lowest' <= p /\ p < highest'
    <3>1. CASE p \in claimed
      <4>1. lowest <= p /\ p < highest /\ p \in Nat
        BY <1>1, <3>1, Numbers, LoaderAssumption DEF Span, TypeOK
      <4>2. QED
        BY <1>6, <4>1
    <3>2. CASE p \in PagesOf(s)
      <4>1. p \in Nat /\ align_down(s.vaddr) <= p /\ p < s.vaddr + s.memsz
        BY <1>2, <3>2, PagesInSpan
      <4>2. QED
        BY <1>4, <1>5, <1>6, <4>1
    <3>3. QED
      BY <1>8, <3>1, <3>2
  <2>4. QED
    BY <1>3, <2>1, <2>2, <2>3 DEF Span
<1>13. Reported'
  BY <1>3 DEF Reported
<1>14. \A a \in Address : align_down(a) \in claimed => mem'[a] = mem[a]
  BY <1>3, <1>7 DEF Granted
<1>15. ASSUME NEW j \in Dealt'
       PROVE  InPlace(Segment(j))'
  <2>1. j \in 1 .. (index + 1) /\ Segment(j).load /\ Segment(j)' = Segment(j)
    BY <1>3 DEF Dealt, Segment
  <2>2. CASE j \in 1 .. index
    <3>1. InPlace(Segment(j)) /\ Segment(j) \in ProgramHeader
      BY <1>1, <1>2, <2>1, <2>2, Headers DEF Dealt
    <3>2. PICK t \in ProgramHeader : t = Segment(j)
      BY <3>1
    <3>3. InPlace(t)'
      BY <1>1, <1>8, <1>14, <3>1, <3>2, StaysInPlace
    <3>4. QED
      BY <2>1, <3>2, <3>3 DEF InPlace
  <2>3. CASE j = index + 1
    <3>1. Segment(j)' = s
      BY <1>2, <2>1, <2>3
    <3>2. ASSUME NEW i \in 0 .. (s.memsz - 1)
          PROVE  /\ align_down(s.vaddr + i) \in claimed'
                 /\ mem'[s.vaddr + i] = IF i < s.filesz THEN FileByte(s.offset + i) ELSE 0
      <4>1. Total(s) # 0
        BY <1>4, <1>5, <3>2 DEF Total
      <4>2. QED
        BY <1>3, <1>7, <3>2, <4>1
    <3>3. QED
      BY <1>4, <3>1, <3>2 DEF InPlace
  <2>4. QED
    BY <1>2, <2>1, <2>2, <2>3
<1>16. QED
  BY <1>10, <1>11, <1>12, <1>13, <1>15 DEF ElfInv

LEMMA FinishKeepsInv ==
    ASSUME ElfInv, Finish
    PROVE  ElfInv'
<1>1. CASE \E e : Fail(e)
  BY <1>1, FailKeepsInv
<1>2. CASE /\ loaded_any /\ EntryInSpan /\ index = Len(image.phdrs) /\ pc' = "done"
           /\ kernel' = [entry |-> image.entry, base |-> lowest, size |-> align_up(highest) - lowest]
           /\ UNCHANGED <<image, index, lowest, highest, loaded_any, claimed, mem, error>>
  <2>1. /\ lowest \in Nat /\ highest \in Nat /\ image.entry \in Nat /\ image.entry < LIMIT
        /\ lowest < LIMIT /\ LIMIT \in Nat /\ highest + (PAGE - 1) < LIMIT /\ PAGE \in Nat
    BY Headers, Numbers DEF ElfInv, TypeOK, Span
  <2>2. lowest <= highest
    BY <1>2, <2>1 DEF EntryInSpan
  <2>3. align_up(highest) \in Nat /\ highest <= align_up(highest) /\ align_up(highest) <= highest + (PAGE - 1)
    BY <2>1, AlignUp
  <2>4. align_up(highest) - lowest \in Nat /\ align_up(highest) - lowest < LIMIT
    BY <2>1, <2>2, <2>3
  <2>5. kernel' \in [entry : Address, base : Address, size : Address]
    BY <1>2, <2>1, <2>4, Numbers
  <2>6. Reported'
    <3>1. align_up(highest)' = align_up(highest)
      BY <1>2 DEF align_up
    <3>2. kernel'.base = lowest' /\ kernel'.size = align_up(highest)' - lowest'
      BY <1>2, <3>1
    <3>3. QED
      BY <1>2, <2>2, <3>2 DEF Reported
  <2>7. QED
    BY <1>2, <2>5, <2>6, QuietStep
<1>3. QED
  BY <1>1, <1>2 DEF Finish

LEMMA InitInv == Init => ElfInv
<1> SUFFICES ASSUME Init PROVE ElfInv
  OBVIOUS
<1> USE DEF Init
<1>1. LIMIT \in Nat \ {0} /\ PAGE \in Nat \ {0} /\ LIMIT % PAGE = 0
  BY Numbers
<1>2. image.phdrs \in Seq(ProgramHeader) /\ Len(image.phdrs) \in Nat
  BY LoaderAssumption
<1>3. TypeOK
  <2>1. LIMIT - 1 \in Address /\ 0 \in Address
    BY <1>1, Numbers
  <2>2. mem \in [Address -> 0 .. LIMIT]
    BY <1>1 DEF FOREIGN
  <2>3. QED
    BY <1>2, <2>1, <2>2 DEF TypeOK
<1>4. WritesStayInside
  BY DEF WritesStayInside
<1>5. Span
  <2>1. LIMIT >= PAGE
    BY <1>1, MultipleAtLeast
  <2>2. 0 + (PAGE - 1) < LIMIT
    BY <1>1, <2>1
  <2>3. QED
    BY <2>2 DEF Span
<1>6. Reported /\ Dealt = {}
  BY DEF Reported, Dealt
<1>7. QED
  BY <1>3, <1>4, <1>5, <1>6 DEF ElfInv

LEMMA NextKeepsInv == ElfInv /\ [Next]_vars => ElfInv'
<1> SUFFICES ASSUME ElfInv, [Next]_vars PROVE ElfInv'
  OBVIOUS
<1>1. CASE BadHeader
  BY <1>1, FailKeepsInv DEF BadHeader
<1>2. CASE BadSegment
  BY <1>2, FailKeepsInv DEF BadSegment
<1>3. CASE RefusedSegment
  BY <1>3, FailKeepsInv DEF RefusedSegment
<1>4. CASE UNCHANGED vars
  <2>1. Reported'
    BY <1>4 DEF ElfInv, Reported, vars, align_up
  <2>2. QED
    BY <1>4, <2>1, QuietStep DEF vars, ElfInv, TypeOK
<1>5. QED
  BY <1>1, <1>2, <1>3, <1>4, ParseHeaderKeepsInv, SkipHeaderKeepsInv, LoadSegmentKeepsInv,
     FinishKeepsInv DEF Next, Returned

LEMMA ElfInvariant == Spec => []ElfInv
BY InitInv, NextKeepsInv, PTL DEF Spec

-----------------------------------------------------------------------------
(* The theorems *)

LEMMA InvImageIsInPlace == ElfInv => ImageIsInPlace
<1> SUFFICES ASSUME ElfInv, pc = "done", NEW s \in Segments, NEW i \in 0 .. (s.memsz - 1)
             PROVE  mem[s.vaddr + i] = IF i < s.filesz THEN FileByte(s.offset + i) ELSE 0
  BY DEF ImageIsInPlace
<1>1. PICK j \in 1 .. Len(image.phdrs) : image.phdrs[j].load /\ s = image.phdrs[j]
  BY DEF Segments
<1>2. j \in Dealt /\ s = Segment(j)
  BY <1>1 DEF ElfInv, Reported, Dealt, Segment
<1>3. QED
  BY <1>2 DEF ElfInv, InPlace

LEMMA InvSpanCoversPages == ElfInv => SpanCoversPages
<1> SUFFICES ASSUME ElfInv PROVE SpanCoversPages
  OBVIOUS
<1>1. highest + (PAGE - 1) < LIMIT
  BY DEF ElfInv, Span
<1>2. ASSUME pc = "done"
      PROVE  /\ kernel.base % PAGE = 0 /\ kernel.size % PAGE = 0
             /\ \A p \in claimed : kernel.base <= p /\ p + PAGE <= kernel.base + kernel.size
  <2>1. /\ kernel.base = lowest /\ kernel.size = align_up(highest) - lowest
        /\ lowest <= highest /\ lowest % PAGE = 0
    BY <1>2 DEF ElfInv, Reported, Span
  <2>2. lowest \in Nat /\ highest \in Nat /\ PAGE \in Nat \ {0}
    BY Numbers DEF ElfInv, TypeOK
  <2>3. /\ align_up(highest) \in Nat /\ align_up(highest) % PAGE = 0 /\ highest <= align_up(highest)
        /\ \A p \in Nat : p % PAGE = 0 /\ p < highest => p + PAGE <= align_up(highest)
    BY <2>2, AlignUp
  <2>4. lowest <= align_up(highest)
    BY <2>1, <2>2, <2>3
  <2>5. (align_up(highest) - lowest) % PAGE = 0
    BY <2>1, <2>2, <2>3, <2>4, MultipleDiff
  <2>6. ASSUME NEW p \in claimed
        PROVE  lowest <= p /\ p + PAGE <= lowest + (align_up(highest) - lowest)
    <3>1. p \in Nat /\ p % PAGE = 0 /\ lowest <= p /\ p < highest
      BY Numbers, LoaderAssumption DEF ElfInv, TypeOK, Span
    <3>2. p + PAGE <= align_up(highest)
      BY <2>3, <3>1
    <3>3. QED
      BY <2>2, <2>3, <3>1, <3>2
  <2>7. QED
    BY <2>1, <2>5, <2>6
<1>3. QED
  BY <1>1, <1>2 DEF SpanCoversPages

\* ImageIsInPlace: whatever the file, a load that succeeds leaves every
\* PT_LOAD segment in memory, its file bytes and then zeroes, with no segment
\* damaged by the zeroing of another's pages.
THEOREM SegmentsAreInPlace == Spec => []ImageIsInPlace
BY ElfInvariant, InvImageIsInPlace, PTL

\* WritesStayInside: whatever the file, also one that is rejected half-way,
\* the loader writes to no page it was not granted.
THEOREM LoaderStaysInside == Spec => []WritesStayInside
<1>1. ElfInv => WritesStayInside
  BY DEF ElfInv
<1>2. QED
  BY <1>1, ElfInvariant, PTL

\* SpanCoversPages: whatever the file, align_up never overflows, and the span
\* that goes into BootInfo is whole pages and has every page claimed.
THEOREM SpanIsSound == Spec => []SpanCoversPages
BY ElfInvariant, InvSpanCoversPages, PTL
=============================================================================
