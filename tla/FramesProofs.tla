---------------------------- MODULE FramesProofs ----------------------------
(***************************************************************************)
(* Proofs about the frame allocator and about start-up, which composes it  *)
(* with the heap: for every memory map whose runs are disjoint, every page *)
(* size, width of an address and size of the arena, and every sequence of  *)
(* calls.  The heap's half rests on HeapProofs, instantiated at the arena. *)
(***************************************************************************)
EXTENDS Memory, ArithProofs, FiniteSetTheorems

\* Before frame::init has found a run, everything is ahead.
NotYet ==
    pc \in {"boot", "fatal"} => index = 0 /\ cursor = 0 /\ run_end = 0

\* The cursor is in a run of the map, at or before the descriptor that
\* UsableRegions has come to.
CurrentRun ==
    pc \notin {"boot", "fatal"} =>
        \E k \in 1 .. index : /\ Yields(regions[k]) /\ run_end = RunEnd(regions[k])
                              /\ RunStart(regions[k]) <= cursor

\* alloc_frame bumps only when the free stack is empty.
LastResort == pc = "frame" => frames = 1 /\ stack = <<>>

FramesInv ==
    /\ TypeOK /\ NotYet /\ CurrentRun /\ LastResort
    /\ FramesAccounted /\ StackInMemory /\ PanicsOnlyAtTheTop

Descriptor == [start : 0 .. (LIMIT - 1), pages : 0 .. (LIMIT - 1), usable : BOOLEAN]

-----------------------------------------------------------------------------
(* Pages and runs *)

LEMMA Sizes ==
    /\ PAGE \in Nat \ {0} /\ LIMIT \in Nat \ {0} /\ LIMIT % PAGE = 0
    /\ 0 \in Page
    /\ \A a \in Page : a \in Nat /\ a % PAGE = 0 /\ a < LIMIT
<1>1. PAGE \in Nat \ {0} /\ LIMIT \in Nat \ {0} /\ LIMIT % PAGE = 0
  BY FramesAssumption, Zenon
<1>2. 0 % PAGE = 0
  BY <1>1, MultipleIff
<1>3. QED
  BY <1>1, <1>2 DEF Page

\* Pages come PAGE apart, and the last one has room for itself.
LEMMA PagesApart ==
    /\ \A a, b \in Page : a < b => a + PAGE <= b
    /\ \A a \in Page : a + PAGE <= LIMIT
<1>1. \A a \in Page : a \in Nat /\ a % PAGE = 0 /\ a < LIMIT
  BY Sizes
<1>2. ASSUME NEW a \in Page, NEW b \in Page, a < b PROVE a + PAGE <= b
  BY <1>1, <1>2, Sizes, MultiplesApart
<1>3. ASSUME NEW a \in Page PROVE a + PAGE <= LIMIT
  BY <1>1, Sizes, MultiplesApart
<1>4. QED
  BY <1>2, <1>3

\* A run is a non-empty range of pages, above the page at address 0.
LEMMA RunIsPages ==
    ASSUME NEW r \in Descriptor, Yields(r)
    PROVE  /\ RunStart(r) \in Page /\ RunEnd(r) \in Page
           /\ PAGE <= RunStart(r) /\ RunStart(r) < RunEnd(r)
<1>1. r.start \in Nat /\ r.pages \in Nat /\ PAGE \in Nat \ {0} /\ LIMIT \in Nat
  BY Sizes DEF Descriptor
<1>2. PICK x \in Nat : x = AtLeast(r.start, PAGE) /\ x >= PAGE
  BY <1>1 DEF AtLeast
<1>3. RunStart(r) \in Nat /\ RunStart(r) >= x /\ RunStart(r) % PAGE = 0
  BY <1>1, <1>2, NextMultipleIsLeast DEF RunStart
<1>4. PICK y \in Nat : y = r.start + r.pages * PAGE
  BY <1>1
<1>5. y < LIMIT /\ RunStart(r) < LIMIT /\ RunStart(r) < RunEnd(r)
  BY <1>4 DEF Yields
<1>6. RunEnd(r) \in Nat /\ RunEnd(r) <= y /\ RunEnd(r) % PAGE = 0
  BY <1>1, <1>4, PrevMultipleBelow DEF RunEnd
<1>7. QED
  BY <1>1, <1>2, <1>3, <1>5, <1>6 DEF Page

LEMMA MapFacts ==
    ASSUME regions \in Maps
    PROVE  /\ Len(regions) \in Nat
           /\ \A k \in 1 .. Len(regions) : regions[k] \in Descriptor
           /\ \A j, k \in 1 .. Len(regions) : \A a \in Page :
                 Yields(regions[j]) /\ Yields(regions[k]) /\ In(a, regions[j]) /\ In(a, regions[k]) => j = k
<1>1. regions \in Seq(Descriptor)
  BY FramesAssumption, Zenon DEF Descriptor
<1>2. Len(regions) \in Nat /\ \A k \in 1 .. Len(regions) : regions[k] \in Descriptor
  BY <1>1
<1>3. ASSUME NEW j \in 1 .. Len(regions), NEW k \in 1 .. Len(regions), NEW a \in Page,
             Yields(regions[j]), Yields(regions[k]), In(a, regions[j]), In(a, regions[k]), j # k
      PROVE  FALSE
  <2>1. \/ RunEnd(regions[j]) <= RunStart(regions[k]) \/ RunEnd(regions[k]) <= RunStart(regions[j])
    BY <1>3, FramesAssumption, Zenon
  <2>2. /\ RunStart(regions[j]) \in Nat /\ RunEnd(regions[j]) \in Nat
        /\ RunStart(regions[k]) \in Nat /\ RunEnd(regions[k]) \in Nat /\ a \in Nat
    BY <1>2, <1>3, RunIsPages, Sizes
  <2>3. /\ RunStart(regions[j]) <= a /\ a < RunEnd(regions[j])
        /\ RunStart(regions[k]) <= a /\ a < RunEnd(regions[k])
    BY <1>3 DEF In
  <2>4. QED
    BY <2>1, <2>2, <2>3
<1>4. QED
  BY <1>2, <1>3

\* n pages in a row are n.
LEMMA TakenCount ==
    ASSUME NEW c \in Page, NEW n \in Nat, c + n * PAGE <= LIMIT
    PROVE  LET T == {a \in Page : c <= a /\ a < c + n * PAGE}
           IN  IsFiniteSet(T) /\ Cardinality(T) = n
<1> DEFINE T == {a \in Page : c <= a /\ a < c + n * PAGE}
           M == {a \in Nat : a % PAGE = 0 /\ c <= a /\ a < c + n * PAGE}
<1>1. c \in Nat /\ c % PAGE = 0 /\ PAGE \in Nat \ {0} /\ LIMIT \in Nat /\ n * PAGE \in Nat
  BY Sizes
<1>2. T = M
  BY <1>1 DEF Page
<1>3. IsFiniteSet(M) /\ Cardinality(M) = n
  BY <1>1, MultiplesCount
<1> HIDE DEF T, M
<1>4. IsFiniteSet(T) /\ Cardinality(T) = n
  BY <1>2, <1>3
<1>5. QED
  BY <1>4 DEF T

-----------------------------------------------------------------------------
(* What lies ahead *)

LEMMA UsableStays ==
    ASSUME regions' = regions
    PROVE  Usable' = Usable
BY DEF Usable

LEMMA AheadStays ==
    ASSUME regions' = regions, index' = index, cursor' = cursor, run_end' = run_end
    PROVE  Ahead' = Ahead
BY DEF Ahead

\* Going on from a run that is used up to the next one skips no frame.
LEMMA EnterKeepsAhead ==
    ASSUME TypeOK, run_end <= cursor, regions' = regions,
           NEW j \in 1 .. Len(regions), IsNextRun(index, j), EnterRun(j)
    PROVE  /\ Ahead' = Ahead /\ index' = j /\ cursor' \in Page /\ run_end' \in Page /\ cursor' <= run_end'
           /\ Yields(regions[j]) /\ cursor' = RunStart(regions[j]) /\ run_end' = RunEnd(regions[j])
<1>1. /\ regions \in Maps /\ index \in Nat /\ cursor \in Nat /\ run_end \in Nat
  BY Sizes DEF TypeOK
<1>2. /\ Len(regions) \in Nat /\ regions[j] \in Descriptor
  BY <1>1, MapFacts
<1>3. /\ j \in (index + 1) .. Len(regions) /\ Yields(regions[j])
      /\ \A k \in (index + 1) .. (j - 1) : ~Yields(regions[k])
  BY DEF IsNextRun
<1>4. index' = j /\ cursor' = RunStart(regions[j]) /\ run_end' = RunEnd(regions[j])
  BY DEF EnterRun
<1>5. RunStart(regions[j]) \in Page /\ RunEnd(regions[j]) \in Page /\ RunStart(regions[j]) < RunEnd(regions[j])
  BY <1>2, <1>3, RunIsPages
<1>6. ASSUME NEW a \in Page
      PROVE  a \in Ahead' <=> a \in Ahead
  <2>1. a \in Ahead <=> \E k \in (index + 1) .. Len(regions) : Yields(regions[k]) /\ In(a, regions[k])
    <3>1. ~(cursor <= a /\ a < run_end)
      BY <1>1, Sizes
    <3>2. QED
      BY <3>1 DEF Ahead
  <2>2. a \in Ahead' <=> \/ In(a, regions[j])
                         \/ \E k \in (j + 1) .. Len(regions) : Yields(regions[k]) /\ In(a, regions[k])
    BY <1>4 DEF Ahead, In
  <2>3. ASSUME NEW k \in (index + 1) .. Len(regions), Yields(regions[k])
        PROVE  k = j \/ k \in (j + 1) .. Len(regions)
    <3>1. k \notin (index + 1) .. (j - 1)
      BY <1>3, <2>3
    <3>2. QED
      BY <1>1, <1>2, <1>3, <3>1
  <2>4. \A k \in (j + 1) .. Len(regions) : k \in (index + 1) .. Len(regions)
    BY <1>1, <1>2, <1>3
  <2>5. QED
    BY <1>3, <2>1, <2>2, <2>3, <2>4
<1>7. Ahead' \subseteq Page /\ Ahead \subseteq Page
  BY DEF Ahead
<1>8. Ahead' = Ahead
  BY <1>6, <1>7
<1>9. RunStart(regions[j]) <= RunEnd(regions[j])
  BY <1>5, Sizes
<1>10. QED
  BY <1>3, <1>4, <1>5, <1>8, <1>9

\* Moving the cursor over pages of the run takes them, and nothing else, from
\* what lies ahead: no later run holds them.
LEMMA CursorTakes ==
    ASSUME TypeOK, CurrentRun, pc \notin {"boot", "fatal"},
           NEW w \in Nat, w % PAGE = 0, cursor + w <= run_end,
           cursor' = cursor + w, regions' = regions, index' = index, run_end' = run_end
    PROVE  LET T == {a \in Page : cursor <= a /\ a < cursor + w}
           IN  T \subseteq Ahead /\ Ahead' = Ahead \ T /\ cursor' \in Page
<1> DEFINE T == {a \in Page : cursor <= a /\ a < cursor + w}
<1>1. /\ regions \in Maps /\ index \in 0 .. Len(regions) /\ cursor \in Page /\ run_end \in Page
  BY DEF TypeOK
<1>2. /\ cursor \in Nat /\ run_end \in Nat /\ cursor % PAGE = 0 /\ run_end < LIMIT /\ LIMIT \in Nat
      /\ PAGE \in Nat \ {0}
  BY <1>1, Sizes
<1>3. Len(regions) \in Nat
  BY <1>1, MapFacts
<1>4. PICK k \in 1 .. index : /\ Yields(regions[k]) /\ run_end = RunEnd(regions[k])
                              /\ RunStart(regions[k]) <= cursor
  BY DEF CurrentRun
<1>5. k \in 1 .. Len(regions)
  BY <1>1, <1>3
<1>6. RunStart(regions[k]) \in Nat
  BY <1>1, <1>4, <1>5, MapFacts, RunIsPages, Sizes
<1>7. cursor' \in Page
  <2>1. (cursor + w) % PAGE = 0
    BY <1>2, MultipleSum
  <2>2. cursor + w \in 0 .. (LIMIT - 1)
    BY <1>2
  <2>3. QED
    BY <2>1, <2>2 DEF Page
<1>8. ASSUME NEW a \in T
      PROVE  a \in Page /\ a \in Nat /\ cursor <= a /\ a < cursor + w /\ a < run_end
  BY <1>2, Sizes
<1>9. T \subseteq Ahead
  BY <1>8 DEF Ahead
<1>10. ASSUME NEW a \in T, NEW m \in (index + 1) .. Len(regions), Yields(regions[m]), In(a, regions[m])
       PROVE  FALSE
  <2>1. In(a, regions[k])
    BY <1>2, <1>4, <1>6, <1>8 DEF In
  <2>2. m \in 1 .. Len(regions) /\ m # k
    BY <1>1, <1>3, <1>5
  <2>3. QED
    BY <1>1, <1>4, <1>5, <1>8, <1>10, <2>1, <2>2, MapFacts
<1>11. ASSUME NEW a \in Page
       PROVE  a \in Ahead' <=> a \in Ahead /\ a \notin T
  <2>1. a \in Ahead' <=> \/ cursor + w <= a /\ a < run_end
                         \/ \E m \in (index + 1) .. Len(regions) : Yields(regions[m]) /\ In(a, regions[m])
    BY DEF Ahead, In
  <2>2. a \in Ahead <=> \/ cursor <= a /\ a < run_end
                        \/ \E m \in (index + 1) .. Len(regions) : Yields(regions[m]) /\ In(a, regions[m])
    BY DEF Ahead
  <2>3. a \in T <=> cursor <= a /\ a < cursor + w
    OBVIOUS
  <2>4. a \in Nat
    BY Sizes
  <2> HIDE DEF T
  <2>5. QED
    BY <1>2, <1>10, <2>1, <2>2, <2>3, <2>4
<1>12. Ahead' \subseteq Page /\ Ahead \subseteq Page
  BY DEF Ahead
<1> HIDE DEF T
<1>13. Ahead' = Ahead \ T
  BY <1>11, <1>12
<1>14. QED
  BY <1>7, <1>9, <1>13 DEF T

-----------------------------------------------------------------------------
(* The free stack *)

Elements(s) == {s[i] : i \in 1 .. Len(s)}
Distinct(s) == \A i, j \in 1 .. Len(s) : i # j => s[i] # s[j]

\* What StackInMemory says, of any stack, top and frames.
Threaded(s, top, words) ==
    /\ top = IF s = <<>> THEN NONE ELSE Head(s)
    /\ \A i \in 1 .. Len(s) : words[s[i]] = IF i = Len(s) THEN NONE ELSE s[i + 1]

LEMMA PushThreads ==
    ASSUME NEW s \in Seq(Page), NEW top \in Page, NEW words \in [Page -> Nat],
           Threaded(s, top, words), Distinct(s),
           NEW a \in Page, \A i \in 1 .. Len(s) : s[i] # a
    PROVE  LET t == <<a>> \o s
           IN  /\ t \in Seq(Page) /\ Distinct(t) /\ t # <<>>
               /\ Threaded(t, a, [words EXCEPT ![a] = top])
               /\ [words EXCEPT ![a] = top] \in [Page -> Nat]
               /\ Elements(t) = Elements(s) \cup {a}
<1> DEFINE t == <<a>> \o s
           v == [words EXCEPT ![a] = top]
<1>1. Len(s) \in Nat /\ \A i \in 1 .. Len(s) : s[i] \in Page
  OBVIOUS
<1>2. t \in Seq(Page) /\ Len(t) = Len(s) + 1 /\ t[1] = a /\ \A i \in 1 .. Len(s) : t[i + 1] = s[i]
  OBVIOUS
<1>3. t # <<>> /\ Head(t) = a
  BY <1>1, <1>2
<1>4. top \in Nat
  BY Sizes
<1>5. v \in [Page -> Nat] /\ v[a] = top /\ \A b \in Page : b # a => v[b] = words[b]
  BY <1>4
<1> HIDE DEF t, v
<1>6. ASSUME NEW i \in 1 .. Len(t)
      PROVE  i = 1 \/ \E j \in 1 .. Len(s) : i = j + 1
  <2>1. i # 1 => i - 1 \in 1 .. Len(s) /\ i = (i - 1) + 1
    BY <1>1, <1>2
  <2>2. QED
    BY <2>1
<1>7. Distinct(t)
  <2>1. ASSUME NEW i \in 1 .. Len(t), NEW j \in 1 .. Len(t), i # j, t[i] = t[j]
        PROVE  FALSE
    <3>1. CASE i = 1
      <4>1. PICK m \in 1 .. Len(s) : j = m + 1
        BY <1>6, <2>1, <3>1
      <4>2. QED
        BY <1>2, <2>1, <3>1, <4>1
    <3>2. CASE j = 1
      <4>1. PICK m \in 1 .. Len(s) : i = m + 1
        BY <1>6, <2>1, <3>2
      <4>2. QED
        BY <1>2, <2>1, <3>2, <4>1
    <3>3. CASE i # 1 /\ j # 1
      <4>1. PICK m \in 1 .. Len(s) : i = m + 1
        BY <1>6, <3>3
      <4>2. PICK n \in 1 .. Len(s) : j = n + 1
        BY <1>6, <3>3
      <4>3. m # n
        BY <2>1, <4>1, <4>2
      <4>4. s[m] = s[n]
        BY <1>2, <2>1, <4>1, <4>2
      <4>5. QED
        BY <4>3, <4>4 DEF Distinct
    <3>4. QED
      BY <3>1, <3>2, <3>3
  <2>2. QED
    BY <2>1 DEF Distinct
<1>8. Threaded(t, a, v)
  <2>1. ASSUME NEW i \in 1 .. Len(t)
        PROVE  v[t[i]] = IF i = Len(t) THEN NONE ELSE t[i + 1]
    <3>1. CASE i = 1
      <4>1. v[t[i]] = top
        BY <1>2, <1>5, <3>1
      <4>2. CASE Len(s) = 0
        <5>1. s = <<>> /\ i = Len(t)
          BY <1>2, <3>1, <4>2
        <5>2. QED
          BY <4>1, <5>1 DEF Threaded
      <4>3. CASE Len(s) # 0
        <5>1. s # <<>> /\ 1 \in 1 .. Len(s) /\ i # Len(t) /\ Head(s) = s[1]
          BY <1>1, <1>2, <3>1, <4>3
        <5>2. t[1 + 1] = s[1]
          BY <1>2, <5>1
        <5>3. QED
          BY <3>1, <4>1, <5>1, <5>2 DEF Threaded
      <4>4. QED
        BY <4>2, <4>3
    <3>2. CASE i # 1
      <4>1. PICK m \in 1 .. Len(s) : i = m + 1
        BY <1>6, <3>2
      <4>2. t[i] = s[m] /\ s[m] \in Page /\ s[m] # a
        BY <1>1, <1>2, <4>1
      <4>3. v[t[i]] = words[s[m]]
        BY <1>5, <4>2
      <4>4. words[s[m]] = IF m = Len(s) THEN NONE ELSE s[m + 1]
        BY DEF Threaded
      <4>5. ASSUME m # Len(s) PROVE t[i + 1] = s[m + 1]
        <5>1. Len(s) \in Nat
          BY <1>1
        <5>2. m + 1 \in 1 .. Len(s)
          BY <4>5, <5>1
        <5>3. t[(m + 1) + 1] = s[m + 1]
          BY <1>2, <5>2
        <5>4. QED
          BY <4>1, <5>3
      <4>6. i = Len(t) <=> m = Len(s)
        <5>1. Len(s) \in Nat /\ Len(t) = Len(s) + 1
          BY <1>1, <1>2
        <5>2. QED
          BY <4>1, <5>1
      <4>7. QED
        BY <4>3, <4>4, <4>5, <4>6
    <3>3. QED
      BY <3>1, <3>2
  <2>2. QED
    BY <1>3, <2>1 DEF Threaded
<1>9. Elements(t) = Elements(s) \cup {a}
  <2>1. ASSUME NEW i \in 1 .. Len(t)
        PROVE  t[i] = a \/ \E m \in 1 .. Len(s) : t[i] = s[m]
    <3>1. CASE i = 1
      BY <1>2, <3>1
    <3>2. CASE i # 1
      <4>1. PICK m \in 1 .. Len(s) : i = m + 1
        BY <1>6, <3>2
      <4>2. t[i] = s[m]
        BY <1>2, <4>1
      <4>3. QED
        BY <4>2
    <3>3. QED
      BY <3>1, <3>2
  <2>2. ASSUME NEW m \in 1 .. Len(s)
        PROVE  \E i \in 1 .. Len(t) : t[i] = s[m]
    <3>1. m + 1 \in 1 .. Len(t) /\ t[m + 1] = s[m]
      BY <1>1, <1>2
    <3>2. QED
      BY <3>1
  <2>3. \E i \in 1 .. Len(t) : t[i] = a
    <3>1. 1 \in 1 .. Len(t)
      BY <1>1, <1>2
    <3>2. QED
      BY <1>2, <3>1
  <2>4. Elements(t) \subseteq Elements(s) \cup {a}
    BY <2>1 DEF Elements
  <2>5. Elements(s) \cup {a} \subseteq Elements(t)
    BY <2>2, <2>3 DEF Elements
  <2>6. QED
    BY <2>4, <2>5
<1>10. QED
  BY <1>2, <1>3, <1>5, <1>7, <1>8, <1>9 DEF t, v

LEMMA PopThreads ==
    ASSUME NEW s \in Seq(Page), NEW top \in Page, NEW words \in [Page -> Nat],
           Threaded(s, top, words), Distinct(s), top # NONE
    PROVE  LET t == Tail(s)
           IN  /\ t \in Seq(Page) /\ Distinct(t)
               /\ words[top] \in Page /\ Threaded(t, words[top], words)
               /\ top \in Elements(s)
               /\ Elements(t) = Elements(s) \ {top}
<1> DEFINE t == Tail(s)
<1>1. Len(s) \in Nat /\ \A i \in 1 .. Len(s) : s[i] \in Page
  OBVIOUS
<1>2. s # <<>> /\ top = Head(s)
  BY DEF Threaded
<1>3. Len(s) >= 1 /\ top = s[1] /\ 1 \in 1 .. Len(s)
  BY <1>1, <1>2
<1>4. /\ t \in Seq(Page) /\ Len(t) = Len(s) - 1 /\ Len(t) \in Nat
      /\ \A i \in 1 .. Len(t) : t[i] = s[i + 1] /\ i + 1 \in 1 .. Len(s)
  BY <1>2, <1>3
<1> HIDE DEF t
<1>5. words[top] = IF 1 = Len(s) THEN NONE ELSE s[2]
  <2>1. words[s[1]] = IF 1 = Len(s) THEN NONE ELSE s[1 + 1]
    BY <1>3 DEF Threaded
  <2>2. QED
    BY <1>3, <2>1
<1>6. Distinct(t)
  <2>1. ASSUME NEW i \in 1 .. Len(t), NEW j \in 1 .. Len(t), i # j
        PROVE  t[i] # t[j]
    <3>1. i + 1 \in 1 .. Len(s) /\ j + 1 \in 1 .. Len(s) /\ i + 1 # j + 1
      BY <1>4, <2>1
    <3>2. s[i + 1] # s[j + 1]
      BY <3>1 DEF Distinct
    <3>3. QED
      BY <1>4, <3>2
  <2>2. QED
    BY <2>1 DEF Distinct
<1>7. words[top] \in Page /\ words[top] = IF t = <<>> THEN NONE ELSE Head(t)
  <2>1. CASE Len(s) = 1
    <3>1. t = <<>>
      BY <1>4, <2>1
    <3>2. QED
      BY <1>5, <2>1, <3>1, Sizes DEF NONE
  <2>2. CASE Len(s) # 1
    <3>1. 1 \in 1 .. Len(t) /\ 1 + 1 = 2
      BY <1>1, <1>3, <1>4, <2>2
    <3>2. t # <<>> /\ Head(t) = t[1] /\ t[1] = s[2] /\ s[2] \in Page
      BY <1>1, <1>4, <3>1
    <3>3. QED
      BY <1>5, <2>2, <3>2
  <2>3. QED
    BY <2>1, <2>2
<1>8. Threaded(t, words[top], words)
  <2>1. ASSUME NEW i \in 1 .. Len(t)
        PROVE  words[t[i]] = IF i = Len(t) THEN NONE ELSE t[i + 1]
    <3>1. t[i] = s[i + 1] /\ i + 1 \in 1 .. Len(s)
      BY <1>4
    <3>2. words[s[i + 1]] = IF i + 1 = Len(s) THEN NONE ELSE s[(i + 1) + 1]
      BY <3>1 DEF Threaded
    <3>3. i = Len(t) <=> i + 1 = Len(s)
      BY <1>1, <1>4
    <3>4. ASSUME i # Len(t) PROVE t[i + 1] = s[(i + 1) + 1]
      <4>1. Len(t) \in Nat
        BY <1>4
      <4>2. i + 1 \in 1 .. Len(t)
        BY <3>4, <4>1
      <4>3. QED
        BY <1>4, <4>2
    <3>5. QED
      BY <3>1, <3>2, <3>3, <3>4
  <2>2. QED
    BY <1>7, <2>1 DEF Threaded
<1>9. Elements(t) = Elements(s) \ {top}
  <2>1. ASSUME NEW i \in 1 .. Len(t)
        PROVE  t[i] \in Elements(s) \ {top}
    <3>1. i + 1 \in 1 .. Len(s) /\ i + 1 # 1 /\ t[i] = s[i + 1]
      BY <1>4
    <3>2. s[i + 1] # s[1]
      BY <1>3, <3>1 DEF Distinct
    <3>3. QED
      BY <1>3, <3>1, <3>2 DEF Elements
  <2>2. ASSUME NEW m \in 1 .. Len(s), s[m] # top
        PROVE  \E i \in 1 .. Len(t) : t[i] = s[m]
    <3>1. m - 1 \in 1 .. Len(t) /\ (m - 1) + 1 = m
      BY <1>1, <1>3, <1>4, <2>2
    <3>2. QED
      BY <1>4, <3>1
  <2>3. Elements(t) \subseteq Elements(s) \ {top}
    BY <2>1 DEF Elements
  <2>4. ASSUME NEW x \in Elements(s), x # top
        PROVE  x \in Elements(t)
    <3>1. PICK m \in 1 .. Len(s) : x = s[m]
      BY <2>4 DEF Elements
    <3>2. PICK i \in 1 .. Len(t) : t[i] = s[m]
      BY <2>2, <2>4, <3>1
    <3>3. QED
      BY <3>1, <3>2 DEF Elements
  <2>5. QED
    BY <2>3, <2>4
<1>10. top \in Elements(s)
  BY <1>3 DEF Elements
<1>11. QED
  BY <1>4, <1>6, <1>7, <1>8, <1>9, <1>10 DEF t

LEMMA PushKeeps ==
    ASSUME TypeOK, StackInMemory, Distinct(stack), NEW a \in Page, a \notin Stacked, Push(a)
    PROVE  /\ stack' \in Seq(Page) /\ node' \in [Page -> Nat] /\ free' \in Page
           /\ Distinct(stack') /\ StackInMemory' /\ Stacked' = Stacked \cup {a}
<1>1. stack \in Seq(Page) /\ free \in Page /\ node \in [Page -> Nat]
  BY DEF TypeOK
<1>2. Threaded(stack, free, node)
  BY DEF StackInMemory, Threaded
<1>3. \A i \in 1 .. Len(stack) : stack[i] # a
  BY DEF Stacked
<1>4. stack' = <<a>> \o stack /\ free' = a /\ node' = [node EXCEPT ![a] = free]
  BY DEF Push
<1>5. /\ stack' \in Seq(Page) /\ Distinct(stack') /\ Threaded(stack', free', node')
      /\ node' \in [Page -> Nat]
      /\ Elements(stack') = Elements(stack) \cup {a}
  BY <1>1, <1>2, <1>3, <1>4, PushThreads
<1>6. StackInMemory'
  BY <1>5 DEF StackInMemory, Threaded
<1>7. QED
  BY <1>4, <1>5, <1>6 DEF Stacked, Elements

LEMMA PopKeeps ==
    ASSUME TypeOK, StackInMemory, Distinct(stack), free # NONE,
           stack' = Tail(stack), free' = node[free], node' = node
    PROVE  /\ stack' \in Seq(Page) /\ free' \in Page
           /\ Distinct(stack') /\ StackInMemory'
           /\ free \in Stacked /\ Stacked' = Stacked \ {free}
<1>1. stack \in Seq(Page) /\ free \in Page /\ node \in [Page -> Nat]
  BY DEF TypeOK
<1>2. Threaded(stack, free, node)
  BY DEF StackInMemory, Threaded
<1>3. /\ stack' \in Seq(Page) /\ Distinct(stack') /\ free' \in Page /\ Threaded(stack', free', node')
      /\ free \in Elements(stack) /\ Elements(stack') = Elements(stack) \ {free}
  BY <1>1, <1>2, PopThreads
<1>4. StackInMemory'
  BY <1>3 DEF StackInMemory, Threaded
<1>5. QED
  BY <1>3, <1>4 DEF Stacked, Elements

\* Writing to a frame that is not on the stack leaves the stack alone.
LEMMA WriteKeeps ==
    ASSUME TypeOK, StackInMemory, NEW a \in Page, a \notin Stacked, NEW v \in Nat,
           node' = [node EXCEPT ![a] = v], UNCHANGED <<free, stack>>
    PROVE  StackInMemory' /\ node' \in [Page -> Nat]
<1>1. stack \in Seq(Page) /\ node \in [Page -> Nat]
  BY DEF TypeOK
<1>2. \A i \in 1 .. Len(stack) : stack[i] \in Page /\ stack[i] # a
  BY <1>1 DEF Stacked
<1>3. \A i \in 1 .. Len(stack) : node'[stack[i]] = node[stack[i]]
  BY <1>1, <1>2
<1>4. QED
  BY <1>1, <1>3 DEF StackInMemory

-----------------------------------------------------------------------------
(* The steps *)

\* What an invariant state says, in the words of the lemmas.
LEMMA Facts ==
    ASSUME FramesInv
    PROVE  /\ TypeOK /\ NotYet /\ CurrentRun /\ LastResort /\ StackInMemory /\ Distinct(stack)
           /\ Usable = owned \cup Stacked \cup Ahead
           /\ owned \cap Stacked = {} /\ owned \cap Ahead = {} /\ Stacked \cap Ahead = {}
           /\ in_use = Cardinality(owned) /\ IsFiniteSet(owned) /\ in_use \in Nat
           /\ Ahead \subseteq Page /\ owned \subseteq Page
<1>1. owned \subseteq Page /\ in_use \in Nat
  BY DEF FramesInv, TypeOK
<1>2. IsFiniteSet(owned)
  <2>1. IsFiniteSet(0 .. (LIMIT - 1))
    BY Sizes, FS_Interval
  <2>2. owned \in SUBSET (0 .. (LIMIT - 1))
    BY <1>1 DEF Page
  <2>3. QED
    BY <2>1, <2>2, FS_Subset
<1>3. Ahead \subseteq Page
  BY DEF Ahead
<1>4. QED
  BY <1>1, <1>2, <1>3 DEF FramesInv, FramesAccounted, Distinct

\* Only control moves: calls are entered, or given up.
LEMMA ControlKeeps ==
    ASSUME FramesInv, UNCHANGED <<regions, alloc, owned, singles>>,
           \/ UNCHANGED <<pc, frames>>
           \/ pc = "boot" /\ pc' = "fatal" /\ frames' = frames
           \/ pc = "idle" /\ pc' = "frame" /\ frames' = 1 /\ free = NONE
           \/ pc = "idle" /\ pc' = "contiguous" /\ frames' \in Nat
           \/ /\ pc \in {"frame", "contiguous"} /\ pc' = "panic" /\ frames' = frames
              /\ cursor + PAGE >= LIMIT
    PROVE  FramesInv'
<1>1. /\ UNCHANGED <<regions, index, cursor, run_end, free, node, in_use, stack, owned, singles>>
  BY DEF alloc
<1>2. TypeOK'
  BY <1>1 DEF FramesInv, TypeOK
<1>3. NotYet' /\ CurrentRun'
  BY <1>1 DEF FramesInv, NotYet, CurrentRun
<1>4. LastResort'
  <2>1. free = NONE => stack = <<>>
    <3>1. SUFFICES ASSUME free = NONE, stack # <<>> PROVE FALSE
      OBVIOUS
    <3>2. stack \in Seq(Page) /\ 1 \in 1 .. Len(stack) /\ free = stack[1]
      BY <3>1 DEF FramesInv, TypeOK, StackInMemory
    <3>3. 0 \in Stacked
      BY <3>1, <3>2 DEF Stacked, NONE
    <3>4. 0 \in Usable
      BY <3>3, Facts
    <3>5. PICK k \in 1 .. Len(regions) : Yields(regions[k]) /\ In(0, regions[k])
      BY <3>4 DEF Usable
    <3>6. regions[k] \in Descriptor
      BY Facts, MapFacts DEF TypeOK
    <3>7. PAGE <= RunStart(regions[k]) /\ RunStart(regions[k]) <= 0 /\ RunStart(regions[k]) \in Nat
      BY <3>5, <3>6, RunIsPages, Sizes DEF In
    <3>8. QED
      BY <3>7, Sizes
  <2>2. QED
    BY <1>1, <2>1 DEF FramesInv, LastResort
<1>5. Usable' = Usable /\ Ahead' = Ahead /\ Stacked' = Stacked
  BY <1>1, UsableStays, AheadStays DEF Stacked
<1>6. FramesAccounted'
  BY <1>1, <1>5 DEF FramesInv, FramesAccounted
<1>7. StackInMemory'
  BY <1>1 DEF FramesInv, StackInMemory
<1>8. PanicsOnlyAtTheTop'
  <2>1. CASE pc' = "panic" /\ pc # "panic"
    <3>1. cursor + PAGE >= LIMIT /\ cursor \in Page /\ run_end \in Page /\ cursor <= run_end
      BY <2>1 DEF FramesInv, TypeOK
    <3>2. cursor \in Nat /\ run_end \in Nat /\ cursor + PAGE <= LIMIT /\ run_end + PAGE <= LIMIT
      BY <3>1, Sizes, PagesApart
    <3>3. cursor = LIMIT - PAGE /\ run_end = LIMIT - PAGE
      BY <3>1, <3>2, Sizes
    <3>4. QED
      BY <1>1, <3>3 DEF PanicsOnlyAtTheTop
  <2>2. CASE pc' # "panic" \/ pc = "panic"
    BY <1>1, <2>2 DEF FramesInv, PanicsOnlyAtTheTop
  <2>3. QED
    BY <2>1, <2>2
<1>9. QED
  BY <1>2, <1>3, <1>4, <1>6, <1>7, <1>8 DEF FramesInv

LEMMA PopStep ==
    ASSUME FramesInv, AllocPop
    PROVE  FramesInv'
<1>1. /\ pc = "idle" /\ free # NONE /\ free' = node[free] /\ in_use' = in_use + 1
      /\ owned' = owned \cup {free} /\ singles' = singles \cup {free} /\ stack' = Tail(stack)
      /\ UNCHANGED <<regions, index, cursor, run_end, node, pc, frames>>
  BY DEF AllocPop
<1>2. /\ stack' \in Seq(Page) /\ free' \in Page /\ Distinct(stack') /\ StackInMemory'
      /\ free \in Stacked /\ Stacked' = Stacked \ {free}
  BY <1>1, Facts, PopKeeps
<1>3. TypeOK'
  BY <1>1, <1>2 DEF FramesInv, TypeOK
<1>4. Usable' = Usable /\ Ahead' = Ahead
  BY <1>1, UsableStays, AheadStays
<1>5. in_use' = Cardinality(owned')
  BY <1>1, <1>2, Facts, FS_AddElement
<1>6. FramesAccounted'
  <2>1. /\ Usable' = owned' \cup Stacked' \cup Ahead'
        /\ owned' \cap Stacked' = {} /\ owned' \cap Ahead' = {} /\ Stacked' \cap Ahead' = {}
    BY <1>1, <1>2, <1>4, Facts
  <2>2. QED
    BY <1>2, <1>5, <2>1 DEF FramesAccounted, Distinct
<1>7. NotYet' /\ CurrentRun' /\ LastResort' /\ PanicsOnlyAtTheTop'
  BY <1>1 DEF FramesInv, NotYet, CurrentRun, LastResort, PanicsOnlyAtTheTop
<1>8. QED
  BY <1>2, <1>3, <1>6, <1>7 DEF FramesInv

LEMMA DeallocStep ==
    ASSUME FramesInv, NEW a \in singles, Dealloc(a)
    PROVE  FramesInv'
<1>1. /\ pc = "idle" /\ Push(a) /\ owned' = owned \ {a} /\ singles' = singles \ {a}
      /\ in_use' = (IF in_use > 0 THEN in_use - 1 ELSE 0)
      /\ UNCHANGED <<regions, index, cursor, run_end, pc, frames>>
  BY DEF Dealloc
<1>2. a \in owned /\ a \in Page
  BY DEF FramesInv, TypeOK
<1>3. a \notin Stacked
  BY <1>2, Facts
<1>4. /\ stack' \in Seq(Page) /\ node' \in [Page -> Nat] /\ free' \in Page
      /\ Distinct(stack') /\ StackInMemory' /\ Stacked' = Stacked \cup {a}
  BY <1>1, <1>2, <1>3, Facts, PushKeeps
<1>5. in_use' = Cardinality(owned') /\ in_use' \in Nat
  <2>1. Cardinality(owned') = Cardinality(owned) - 1
    BY <1>1, <1>2, Facts, FS_RemoveElement
  <2>2. IsFiniteSet(owned') /\ Cardinality(owned') \in Nat
    BY <1>1, Facts, FS_RemoveElement, FS_CardinalityType
  <2>3. QED
    BY <1>1, <2>1, <2>2, Facts
<1>6. TypeOK'
  BY <1>1, <1>4, <1>5 DEF FramesInv, TypeOK
<1>7. Usable' = Usable /\ Ahead' = Ahead
  BY <1>1, UsableStays, AheadStays
<1>8. FramesAccounted'
  <2>1. /\ Usable' = owned' \cup Stacked' \cup Ahead'
        /\ owned' \cap Stacked' = {} /\ owned' \cap Ahead' = {} /\ Stacked' \cap Ahead' = {}
    BY <1>1, <1>2, <1>4, <1>7, Facts
  <2>2. QED
    BY <1>4, <1>5, <2>1 DEF FramesAccounted, Distinct
<1>9. NotYet' /\ CurrentRun' /\ LastResort' /\ PanicsOnlyAtTheTop'
  BY <1>1 DEF FramesInv, NotYet, CurrentRun, LastResort, PanicsOnlyAtTheTop
<1>10. QED
  BY <1>4, <1>6, <1>8, <1>9 DEF FramesInv

LEMMA WriteStep ==
    ASSUME FramesInv, ClientWrite
    PROVE  FramesInv'
<1>1. PICK a \in owned, v \in Junk : node' = [node EXCEPT ![a] = v]
  BY DEF ClientWrite
<1>2. /\ pc = "idle"
      /\ UNCHANGED <<regions, index, cursor, run_end, free, in_use, stack, owned, singles, pc, frames>>
  BY DEF ClientWrite
<1>3. a \in Page /\ a \notin Stacked /\ v \in Nat
  BY Facts, FramesAssumption
<1>4. StackInMemory' /\ node' \in [Page -> Nat]
  BY <1>1, <1>2, <1>3, Facts, WriteKeeps
<1>5. TypeOK'
  BY <1>2, <1>4 DEF FramesInv, TypeOK
<1>6. Usable' = Usable /\ Ahead' = Ahead /\ Stacked' = Stacked
  BY <1>2, UsableStays, AheadStays DEF Stacked
<1>7. FramesAccounted'
  BY <1>2, <1>6 DEF FramesInv, FramesAccounted
<1>8. NotYet' /\ CurrentRun' /\ LastResort' /\ PanicsOnlyAtTheTop'
  BY <1>2 DEF FramesInv, NotYet, CurrentRun, LastResort, PanicsOnlyAtTheTop
<1>9. QED
  BY <1>4, <1>5, <1>7, <1>8 DEF FramesInv

\* frame::init and bump go to the next run when nothing is left of this one.
LEMMA RunStep ==
    ASSUME FramesInv, run_end <= cursor, pc' \notin {"boot", "fatal", "panic"},
           pc' = "frame" => pc = "frame",
           pc' \in {"idle", "frame", "contiguous"}, frames' = frames,
           UNCHANGED <<regions, free, node, in_use, stack, owned, singles>>,
           NEW j \in 1 .. Len(regions), IsNextRun(index, j), EnterRun(j)
    PROVE  FramesInv'
<1>1. /\ Ahead' = Ahead /\ index' = j /\ cursor' \in Page /\ run_end' \in Page /\ cursor' <= run_end'
      /\ Yields(regions[j]) /\ cursor' = RunStart(regions[j]) /\ run_end' = RunEnd(regions[j])
  BY Facts, EnterKeepsAhead
<1>2. TypeOK'
  <2>1. j \in 0 .. Len(regions)
    BY Facts, MapFacts DEF TypeOK
  <2>2. QED
    BY <1>1, <2>1 DEF FramesInv, TypeOK
<1>3. CurrentRun'
  <2>1. RunStart(regions[j]) <= RunStart(regions[j]) /\ j \in 1 .. j
    BY <1>1, Sizes, Facts, MapFacts, SMTT(30) DEF TypeOK
  <2>2. QED
    BY <1>1, <2>1 DEF CurrentRun
<1>4. NotYet' /\ LastResort' /\ PanicsOnlyAtTheTop'
  BY DEF FramesInv, NotYet, LastResort, PanicsOnlyAtTheTop
<1>5. Usable' = Usable /\ Stacked' = Stacked
  BY UsableStays DEF Stacked
<1>6. FramesAccounted'
  BY <1>1, <1>5 DEF FramesInv, FramesAccounted
<1>7. StackInMemory'
  BY DEF FramesInv, StackInMemory
<1>8. QED
  BY <1>2, <1>3, <1>4, <1>6, <1>7 DEF FramesInv

LEMMA TakeStep ==
    ASSUME FramesInv, BumpTake
    PROVE  FramesInv'
<1> DEFINE T == {a \in Page : cursor <= a /\ a < cursor + Wanted}
<1>1. /\ pc \in {"frame", "contiguous"} /\ Fits
      /\ cursor' = cursor + Wanted /\ in_use' = in_use + frames
      /\ owned' = owned \cup T
      /\ singles' = (IF pc = "frame" THEN singles \cup T ELSE singles)
      /\ pc' = "idle" /\ frames' = 0
      /\ UNCHANGED <<regions, index, run_end, free, node, stack>>
  BY DEF BumpTake
<1>2. cursor \in Nat /\ run_end \in Nat /\ frames \in Nat /\ cursor \in Page /\ run_end < LIMIT
  BY Sizes DEF FramesInv, TypeOK
<1>3. PICK w \in Nat : w = Wanted /\ w % PAGE = 0 /\ cursor + w <= run_end
  <2>1. frames * PAGE \in Nat /\ frames * PAGE = PAGE * frames
    BY <1>2, Sizes
  <2>2. (frames * PAGE) % PAGE = 0
    BY <1>2, <2>1, Sizes, MultipleIff
  <2>3. cursor + frames * PAGE <= run_end
    BY <1>1, <1>2, <2>1 DEF Fits, Wanted
  <2>4. QED
    BY <2>1, <2>2, <2>3 DEF Wanted
<1>4. T \subseteq Ahead /\ Ahead' = Ahead \ T /\ cursor' \in Page
  <2>1. pc \notin {"boot", "fatal"}
    BY <1>1
  <2>2. QED
    BY <1>1, <1>3, <2>1, Facts, CursorTakes
<1>5. IsFiniteSet(T) /\ Cardinality(T) = frames
  <2>1. cursor + frames * PAGE <= LIMIT
    BY <1>2, <1>3, Sizes DEF Wanted
  <2>2. QED
    BY <1>2, <2>1, TakenCount DEF Wanted
<1> HIDE DEF T
<1>6. T \cap owned = {}
  BY <1>4, Facts
<1>7. in_use' = Cardinality(owned')
  <2>1. Cardinality(owned \cup T) = Cardinality(owned) + Cardinality(T) - Cardinality(owned \cap T)
    BY <1>5, Facts, FS_Union
  <2>2. Cardinality(owned \cap T) = 0
    BY <1>6, FS_EmptySet
  <2>3. QED
    BY <1>1, <1>2, <1>5, <2>1, <2>2, Facts
<1>8. TypeOK'
  <2>1. in_use' \in Nat /\ cursor' <= run_end'
    BY <1>1, <1>2, <1>3, Facts
  <2>2. owned' \subseteq Page /\ singles' \subseteq owned'
    BY <1>1, <1>4, Facts DEF TypeOK
  <2>3. QED
    BY <1>1, <1>4, <2>1, <2>2 DEF FramesInv, TypeOK
<1>9. Usable' = Usable /\ Stacked' = Stacked
  BY <1>1, UsableStays DEF Stacked
<1>10. FramesAccounted'
  <2>1. /\ Usable' = owned' \cup Stacked' \cup Ahead'
        /\ owned' \cap Stacked' = {} /\ owned' \cap Ahead' = {} /\ Stacked' \cap Ahead' = {}
    BY <1>1, <1>4, <1>9, Facts
  <2>2. QED
    BY <1>1, <1>7, <2>1 DEF FramesInv, FramesAccounted
<1>11. CurrentRun'
  <2>1. PICK k \in 1 .. index : /\ Yields(regions[k]) /\ run_end = RunEnd(regions[k])
                                /\ RunStart(regions[k]) <= cursor
    BY <1>1, Facts DEF CurrentRun
  <2>2. RunStart(regions[k]) \in Nat
    <3>1. regions \in Maps /\ index \in 0 .. Len(regions)
      BY Facts DEF TypeOK
    <3>2. k \in 1 .. Len(regions)
      BY <3>1, MapFacts
    <3>3. QED
      BY <2>1, <3>1, <3>2, MapFacts, RunIsPages, Sizes
  <2>3. RunStart(regions[k]) <= cursor'
    BY <1>1, <1>2, <1>3, <2>1, <2>2
  <2>4. QED
    BY <1>1, <2>1, <2>3 DEF CurrentRun
<1>12. NotYet' /\ LastResort' /\ PanicsOnlyAtTheTop' /\ StackInMemory'
  BY <1>1 DEF FramesInv, NotYet, LastResort, PanicsOnlyAtTheTop, StackInMemory
<1>13. QED
  BY <1>8, <1>10, <1>11, <1>12 DEF FramesInv

LEMMA StrandStep ==
    ASSUME FramesInv, BumpStrand
    PROVE  FramesInv'
<1>1. /\ pc \in {"frame", "contiguous"} /\ ~Fits /\ cursor + PAGE <= run_end
      /\ cursor' = cursor + PAGE /\ Push(cursor)
      /\ UNCHANGED <<regions, index, run_end, in_use, owned, singles, pc, frames>>
  BY DEF BumpStrand, Remaining
<1>2. /\ cursor \in Nat /\ run_end \in Nat /\ frames \in Nat /\ cursor \in Page
      /\ PAGE \in Nat \ {0} /\ PAGE % PAGE = 0
  <2>1. PAGE \in Nat \ {0} /\ PAGE = PAGE * 1
    BY Sizes
  <2>2. PAGE % PAGE = 0
    BY <2>1, MultipleIff
  <2>3. QED
    BY <2>1, <2>2, Sizes DEF FramesInv, TypeOK
<1>3. {a \in Page : cursor <= a /\ a < cursor + PAGE} = {cursor}
  <2>1. ASSUME NEW a \in Page, cursor <= a, a < cursor + PAGE
        PROVE  a = cursor
    BY <1>2, <2>1, Sizes, PagesApart
  <2>2. cursor <= cursor /\ cursor < cursor + PAGE
    BY <1>2
  <2>3. QED
    BY <1>2, <2>1, <2>2
<1>4. cursor \in Ahead /\ Ahead' = Ahead \ {cursor} /\ cursor' \in Page
  <2>1. pc \notin {"boot", "fatal"}
    BY <1>1
  <2>2. PICK w \in Nat : w = PAGE
    BY <1>2
  <2>3. {cursor} \subseteq Ahead /\ Ahead' = Ahead \ {cursor} /\ cursor' \in Page
    BY <1>1, <1>2, <1>3, <2>1, <2>2, Facts, CursorTakes
  <2>4. QED
    BY <2>3
<1>5. /\ stack' \in Seq(Page) /\ node' \in [Page -> Nat] /\ free' \in Page
      /\ Distinct(stack') /\ StackInMemory' /\ Stacked' = Stacked \cup {cursor}
  <2>1. cursor \notin Stacked
    BY <1>4, Facts
  <2>2. QED
    BY <1>1, <1>2, <2>1, Facts, PushKeeps
<1>6. TypeOK'
  BY <1>1, <1>4, <1>5 DEF FramesInv, TypeOK
<1>7. FramesAccounted'
  <2>1. Usable' = Usable
    BY <1>1, UsableStays
  <2>2. /\ Usable' = owned' \cup Stacked' \cup Ahead'
        /\ owned' \cap Stacked' = {} /\ owned' \cap Ahead' = {} /\ Stacked' \cap Ahead' = {}
    BY <1>1, <1>4, <1>5, <2>1, Facts
  <2>3. QED
    BY <1>1, <1>5, <2>2, Facts DEF FramesAccounted, Distinct
<1>8. CurrentRun'
  <2>1. PICK k \in 1 .. index : /\ Yields(regions[k]) /\ run_end = RunEnd(regions[k])
                                /\ RunStart(regions[k]) <= cursor
    BY <1>1, Facts DEF CurrentRun
  <2>2. RunStart(regions[k]) \in Nat
    <3>1. regions \in Maps /\ index \in 0 .. Len(regions)
      BY Facts DEF TypeOK
    <3>2. k \in 1 .. Len(regions)
      BY <3>1, MapFacts
    <3>3. QED
      BY <2>1, <3>1, <3>2, MapFacts, RunIsPages, Sizes
  <2>3. RunStart(regions[k]) <= cursor'
    BY <1>1, <1>2, <2>1, <2>2
  <2>4. QED
    BY <1>1, <2>1, <2>3 DEF CurrentRun
<1>9. LastResort'
  <2>1. frames # 1
    BY <1>1, <1>2 DEF Fits, Wanted
  <2>2. QED
    BY <1>1, <2>1, Facts DEF LastResort
<1>10. NotYet' /\ PanicsOnlyAtTheTop'
  BY <1>1 DEF FramesInv, NotYet, PanicsOnlyAtTheTop
<1>11. QED
  BY <1>5, <1>6, <1>7, <1>8, <1>9, <1>10 DEF FramesInv

\* A run with no whole frame left is used up: its end is page aligned.
LEMMA UsedUp ==
    ASSUME FramesInv, ~Remaining
    PROVE  run_end <= cursor
<1>1. cursor \in Page /\ run_end \in Page /\ cursor <= run_end /\ ~(cursor + PAGE <= run_end)
  BY DEF FramesInv, TypeOK, Remaining
<1>2. ~(cursor < run_end)
  BY <1>1, PagesApart
<1>3. QED
  BY <1>1, <1>2, Sizes

\* And with no run left, nothing is ahead.
LEMMA NothingAhead ==
    ASSUME FramesInv, ~Remaining, NoMoreRuns(index)
    PROVE  Ahead = {}
<1>1. run_end <= cursor /\ cursor \in Nat /\ run_end \in Nat
  BY UsedUp, Sizes DEF FramesInv, TypeOK
<1>2. ASSUME NEW a \in Ahead PROVE FALSE
  <2>1. a \in Page /\ a \in Nat
    BY Sizes DEF Ahead
  <2>2. ~(cursor <= a /\ a < run_end)
    BY <1>1, <2>1
  <2>3. QED
    BY <2>2 DEF Ahead, NoMoreRuns
<1>3. QED
  BY <1>2

LEMMA NoneStep ==
    ASSUME FramesInv, BumpNone
    PROVE  FramesInv'
<1>1. /\ pc \in {"frame", "contiguous"} /\ ~Remaining /\ NoMoreRuns(index)
      /\ index' = Len(regions) /\ pc' = "idle" /\ frames' = 0
      /\ UNCHANGED <<regions, cursor, run_end, free, node, in_use, stack, owned, singles>>
  BY DEF BumpNone
<1>2. /\ regions \in Maps /\ index \in 0 .. Len(regions) /\ Len(regions) \in Nat
      /\ cursor \in Nat /\ run_end \in Nat
  BY MapFacts, Sizes DEF FramesInv, TypeOK
<1>3. Ahead' = Ahead
  <2>1. run_end <= cursor
    BY <1>1, UsedUp
  <2>2. ASSUME NEW a \in Ahead' PROVE FALSE
    <3>1. a \in Page /\ a \in Nat
      BY Sizes DEF Ahead
    <3>2. ~(cursor' <= a /\ a < run_end')
      BY <1>1, <1>2, <2>1, <3>1
    <3>3. (index' + 1) .. Len(regions') = {}
      BY <1>1, <1>2
    <3>4. QED
      BY <3>2, <3>3 DEF Ahead
  <2>3. Ahead = {}
    BY <1>1, NothingAhead
  <2>4. QED
    BY <2>2, <2>3
<1>4. TypeOK'
  BY <1>1, <1>2 DEF FramesInv, TypeOK
<1>5. Usable' = Usable /\ Stacked' = Stacked
  BY <1>1, UsableStays DEF Stacked
<1>6. FramesAccounted'
  BY <1>1, <1>3, <1>5 DEF FramesInv, FramesAccounted
<1>7. CurrentRun'
  <2>1. PICK k \in 1 .. index : /\ Yields(regions[k]) /\ run_end = RunEnd(regions[k])
                                /\ RunStart(regions[k]) <= cursor
    BY <1>1, Facts DEF CurrentRun
  <2>2. k \in 1 .. index'
    BY <1>1, <1>2
  <2>3. QED
    BY <1>1, <2>1, <2>2 DEF CurrentRun
<1>8. NotYet' /\ LastResort' /\ PanicsOnlyAtTheTop' /\ StackInMemory'
  BY <1>1 DEF FramesInv, NotYet, LastResort, PanicsOnlyAtTheTop, StackInMemory
<1>9. QED
  BY <1>4, <1>6, <1>7, <1>8 DEF FramesInv

LEMMA NextRunStep ==
    ASSUME FramesInv, BumpNextRun
    PROVE  FramesInv'
<1>1. PICK j \in 1 .. Len(regions) : IsNextRun(index, j) /\ EnterRun(j)
  BY DEF BumpNextRun
<1>2. /\ pc \in {"frame", "contiguous"} /\ ~Remaining
      /\ UNCHANGED <<regions, free, node, in_use, stack, owned, singles, pc, frames>>
  BY DEF BumpNextRun
<1>3. run_end <= cursor
  BY <1>2, UsedUp
<1>4. /\ pc' \notin {"boot", "fatal", "panic"} /\ (pc' = "frame" => pc = "frame")
      /\ pc' \in {"idle", "frame", "contiguous"}
  BY <1>2
<1>5. QED
  BY <1>1, <1>2, <1>3, <1>4, RunStep

LEMMA SeedStep ==
    ASSUME FramesInv, Seed
    PROVE  FramesInv'
<1>1. PICK j \in 1 .. Len(regions) : IsNextRun(0, j) /\ EnterRun(j)
  BY DEF Seed
<1>2. /\ pc = "boot" /\ pc' = "idle"
      /\ UNCHANGED <<regions, free, node, in_use, stack, owned, singles, frames>>
  BY DEF Seed
<1>3. index = 0 /\ cursor = 0 /\ run_end = 0
  BY <1>2 DEF FramesInv, NotYet
<1>4. run_end <= cursor /\ IsNextRun(index, j)
  BY <1>1, <1>3
<1>5. /\ pc' \notin {"boot", "fatal", "panic"} /\ (pc' = "frame" => pc = "frame")
      /\ pc' \in {"idle", "frame", "contiguous"}
  BY <1>2
<1>6. QED
  BY <1>1, <1>2, <1>4, <1>5, RunStep

-----------------------------------------------------------------------------
(* The invariant *)

LEMMA InitHolds == Init => FramesInv
<1> SUFFICES ASSUME Init PROVE FramesInv
  OBVIOUS
<1>1. /\ regions \in Maps /\ index = 0 /\ cursor = 0 /\ run_end = 0
      /\ free = 0 /\ in_use = 0 /\ stack = <<>> /\ owned = {} /\ singles = {}
      /\ pc = "boot" /\ frames = 0
  BY DEF Init, NONE
<1>2. PICK v \in Junk : node = [a \in Page |-> v]
  BY DEF Init
<1>3. v \in Nat /\ 0 \in Page /\ Len(regions) \in Nat
  BY <1>1, FramesAssumption, Sizes, MapFacts
<1>4. TypeOK
  BY <1>1, <1>2, <1>3 DEF TypeOK
<1>5. Len(stack) = 0
  BY <1>1
<1>6. Stacked = {}
  BY <1>5 DEF Stacked
<1>7. Ahead = Usable
  <2>1. \A a \in Page : ~(cursor <= a /\ a < run_end)
    BY <1>1, Sizes
  <2>2. index + 1 = 1
    BY <1>1
  <2>3. QED
    BY <2>1, <2>2 DEF Ahead, Usable
<1>8. FramesAccounted
  <2>1. Cardinality({}) = 0
    BY FS_EmptySet
  <2>2. QED
    BY <1>1, <1>5, <1>6, <1>7, <2>1 DEF FramesAccounted
<1>9. StackInMemory
  BY <1>1, <1>5 DEF StackInMemory, NONE
<1>10. NotYet /\ CurrentRun /\ LastResort /\ PanicsOnlyAtTheTop
  BY <1>1 DEF NotYet, CurrentRun, LastResort, PanicsOnlyAtTheTop
<1>11. QED
  BY <1>4, <1>8, <1>9, <1>10 DEF FramesInv

LEMMA StutterStep ==
    ASSUME FramesInv, UNCHANGED vars
    PROVE  FramesInv'
BY ControlKeeps DEF vars

LEMMA SeedFailsStep ==
    ASSUME FramesInv, SeedFails
    PROVE  FramesInv'
BY ControlKeeps DEF SeedFails

LEMMA AllocBumpStep ==
    ASSUME FramesInv, AllocBump
    PROVE  FramesInv'
BY ControlKeeps DEF AllocBump

LEMMA ContiguousStep ==
    ASSUME FramesInv, NEW n \in Nat, ContiguousCall(n)
    PROVE  FramesInv'
BY ControlKeeps DEF ContiguousCall

LEMMA PanicStep ==
    ASSUME FramesInv, BumpPanic
    PROVE  FramesInv'
BY ControlKeeps DEF BumpPanic

LEMMA BumpStep ==
    ASSUME FramesInv, Bump
    PROVE  FramesInv'
BY TakeStep, StrandStep, PanicStep, NextRunStep, NoneStep DEF Bump

LEMMA ClientStep ==
    ASSUME FramesInv, Client
    PROVE  FramesInv'
<1>1. ASSUME NEW n \in Requests, ContiguousCall(n) PROVE FramesInv'
  <2>1. n \in Nat
    BY FramesAssumption
  <2>2. QED
    BY <1>1, <2>1, ContiguousStep
<1>2. ASSUME NEW a \in singles, Dealloc(a) PROVE FramesInv'
  BY <1>2, DeallocStep
<1>3. QED
  BY <1>1, <1>2, PopStep, AllocBumpStep, WriteStep DEF Client

LEMMA NextHolds == FramesInv /\ [Next]_vars => FramesInv'
BY SeedStep, SeedFailsStep, ClientStep, BumpStep, StutterStep DEF Next

\* Start-up and what follows it take only steps of the frame allocator, or
\* leave it alone.
LEMMA MemoryStep ==
    ASSUME FramesInv, [MemoryNext]_everything
    PROVE  FramesInv'
<1>1. CASE FrameInit
  BY <1>1, SeedStep, SeedFailsStep DEF FrameInit
<1>2. CASE FrameCall
  <2>1. HEAP_FRAMES \in Nat
    BY MemoryAssumption
  <2>2. ASSUME Dealloc(slot[Op.name]) PROVE FramesInv'
    <3>1. slot[Op.name] \in singles
      BY <2>2 DEF Dealloc
    <3>2. QED
      BY <2>2, <3>1, DeallocStep
  <2>3. QED
    BY <1>2, <2>1, <2>2, PopStep, AllocBumpStep, ContiguousStep DEF FrameCall
<1>3. CASE FrameStep
  BY <1>3, BumpStep DEF FrameStep, Bump
<1>4. CASE HeapCall \/ HeapStep \/ Stopped \/ UNCHANGED everything
  <2>1. UNCHANGED vars
    BY <1>4 DEF HeapCall, HeapStep, Stopped, everything
  <2>2. QED
    BY <2>1, StutterStep
<1>5. CASE UpStep
  BY <1>5, ClientStep DEF UpStep
<1>6. CASE UpBump
  BY <1>6, BumpStep DEF UpBump
<1>7. QED
  BY <1>1, <1>2, <1>3, <1>4, <1>5, <1>6 DEF MemoryNext

LEMMA Invariance == Spec => []FramesInv
BY InitHolds, NextHolds, PTL DEF Spec

LEMMA MemoryInvariance == MemorySpec => []FramesInv
<1>1. MemoryInit => FramesInv
  BY InitHolds DEF MemoryInit
<1>2. FramesInv /\ [MemoryNext]_everything => FramesInv'
  BY MemoryStep
<1>3. QED
  BY <1>1, <1>2, PTL DEF MemorySpec

-----------------------------------------------------------------------------
(* The theorems *)

\* Every usable frame of any memory map is held by a client, on the free stack
\* or ahead of the cursor, and only one of these, and in_use counts those held:
\* alone and under kernel_main's start-up (frame.rs: alloc_frame, dealloc_frame,
\* alloc_contiguous, bump).
THEOREM FramesAreAccounted ==
    /\ Spec => []FramesAccounted
    /\ MemorySpec => []FramesAccounted
<1>1. FramesInv => FramesAccounted
  BY DEF FramesInv
<1>2. QED
  BY <1>1, Invariance, MemoryInvariance, PTL

\* The links left in freed frames spell out the frames pushed and not popped,
\* whatever clients write into frames they hold (frame.rs: push_free, pop).
THEOREM StackIsInMemory ==
    /\ Spec => []StackInMemory
    /\ MemorySpec => []StackInMemory
<1>1. FramesInv => StackInMemory
  BY DEF FramesInv
<1>2. QED
  BY <1>1, Invariance, MemoryInvariance, PTL

\* bump's unguarded addition overflows only at a run that ends on the last
\* page but one of the address space, and only once that run is used up.
THEOREM PanicIsAtTheTop ==
    /\ Spec => []PanicsOnlyAtTheTop
    /\ MemorySpec => []PanicsOnlyAtTheTop
<1>1. FramesInv => PanicsOnlyAtTheTop
  BY DEF FramesInv
<1>2. QED
  BY <1>1, Invariance, MemoryInvariance, PTL

LEMMA NoneFacts ==
    ASSUME FramesInv, BumpNone
    PROVE  Usable \ owned = Stacked /\ (pc = "frame" => owned = Usable)
<1>1. ~Remaining /\ NoMoreRuns(index)
  BY DEF BumpNone
<1>2. Ahead = {}
  BY <1>1, NothingAhead
<1>3. pc = "frame" => Stacked = {}
  <2>1. pc = "frame" => Len(stack) = 0
    BY Facts DEF LastResort
  <2>2. QED
    BY <2>1 DEF Stacked
<1>4. QED
  BY <1>2, <1>3, Facts

\* alloc_frame returns None only when clients hold every usable frame, and a
\* contiguous request that fails leaves every other frame on the free stack
\* (frame.rs, bump: the tails it steps over are pushed, none is dropped).
THEOREM NoneIsExhaustion ==
    /\ Spec => NoneMeansExhausted
    /\ MemorySpec => NoneMeansExhausted
<1>1. FramesInv => [BumpNone => /\ Usable \ owned = Stacked
                                /\ pc = "frame" => owned = Usable]_vars
  BY NoneFacts
<1>2. QED
  BY <1>1, Invariance, MemoryInvariance, PTL DEF NoneMeansExhausted

LEMMA StrandKeepsRoom ==
    ASSUME BumpStrand, RoomAhead
    PROVE  RoomAhead'
<1>1. ~Fits /\ UNCHANGED <<regions, index, frames>>
  BY DEF BumpStrand
<1>2. PICK k \in (index + 1) .. Len(regions) :
         Yields(regions[k]) /\ RunEnd(regions[k]) - RunStart(regions[k]) >= Wanted
  BY <1>1 DEF RoomAhead
<1>3. Wanted' = Wanted
  BY <1>1 DEF Wanted
<1>4. QED
  BY <1>1, <1>2, <1>3 DEF RoomAhead

LEMMA NextRunKeepsRoom ==
    ASSUME FramesInv, BumpNextRun, RoomAhead
    PROVE  RoomAhead'
<1>1. ~Fits /\ UNCHANGED <<regions, frames>>
  BY DEF BumpNextRun
<1>2. PICK j \in 1 .. Len(regions) : IsNextRun(index, j) /\ EnterRun(j)
  BY DEF BumpNextRun
<1>3. PICK k \in (index + 1) .. Len(regions) :
         Yields(regions[k]) /\ RunEnd(regions[k]) - RunStart(regions[k]) >= Wanted
  BY <1>1 DEF RoomAhead
<1>4. Wanted' = Wanted
  BY <1>1 DEF Wanted
<1>5. /\ index \in Nat /\ Len(regions) \in Nat /\ regions[j] \in Descriptor
  BY MapFacts DEF FramesInv, TypeOK
<1>6. /\ index' = j /\ cursor' = RunStart(regions[j]) /\ run_end' = RunEnd(regions[j])
  BY <1>2 DEF EnterRun
<1>7. k = j \/ k \in (j + 1) .. Len(regions)
  <2>1. j \in (index + 1) .. Len(regions) /\ k \notin (index + 1) .. (j - 1)
    BY <1>2, <1>3 DEF IsNextRun
  <2>2. QED
    BY <1>3, <1>5, <2>1
<1>8. CASE k = j
  <2>1. /\ RunStart(regions[j]) \in Nat /\ RunEnd(regions[j]) \in Nat
        /\ RunStart(regions[j]) < RunEnd(regions[j])
    BY <1>3, <1>5, <1>8, RunIsPages, Sizes
  <2>2. Fits'
    BY <1>3, <1>4, <1>6, <1>8, <2>1 DEF Fits
  <2>3. QED
    BY <2>2 DEF RoomAhead
<1>9. CASE k \in (j + 1) .. Len(regions)
  BY <1>1, <1>3, <1>4, <1>6, <1>9 DEF RoomAhead
<1>10. QED
  BY <1>7, <1>8, <1>9

\* bump passes over no run that could have served the request: as long as one
\* is ahead, the loop hands it out or keeps it ahead (frame.rs, bump).
THEOREM NoRoomIsMissed ==
    /\ Spec => RoomIsFound
    /\ MemorySpec => RoomIsFound
<1>1. FramesInv => [Bump /\ RoomAhead => BumpTake \/ RoomAhead' \/ BumpPanic]_vars
  <2>1. ASSUME BumpNone, RoomAhead PROVE FALSE
    BY <2>1 DEF BumpNone, NoMoreRuns, RoomAhead
  <2>2. QED
    BY <2>1, StrandKeepsRoom, NextRunKeepsRoom DEF Bump
<1>2. QED
  BY <1>1, Invariance, MemoryInvariance, PTL DEF RoomIsFound

-----------------------------------------------------------------------------
(* What start-up calls *)

Call ==
    [op     : {"alloc_frame", "dealloc_frame", "heap_init", "alloc", "dealloc", "stat"},
     name   : {"first", "again", "a", "b", "heap", "before", "box", "odd", "even",
               "middle", "last", "bytes", "blocks"},
     layout : [size : Nat, align : Nat]]

\* Where the calls of the growing string, and of the three blocks, begin.
TextAt   == 12 + 2 * Len(Growth)
BlocksAt == TextAt + 2 * Len(Text)

\* What the heap's self-test holds before its i-th call: the block that the
\* slot of that name points to, with the layout it was allocated with.
Hold(n, l) == [name |-> n, layout |-> l]
HoldOf(c)  == Hold(c.name, c.layout)
Buffers(caps, i) ==
    {Hold(Buffer(k), Bytes(caps[k])) :
        k \in {j \in 1 .. Len(caps) : /\ 1 < i /\ i <= 2 * Len(caps)
                                     /\ 2 * j <= i + 1 /\ i <= 2 * j + 1}}
HeldAt(i) ==
    {h \in {Hold("box", Word64)} : i = 12}
    \cup Buffers(Growth, i - 12) \cup Buffers(Text, i - TextAt)
    \cup {h \in {Hold("first", Block)} : i - BlocksAt \in 2 .. 4}
    \cup {h \in {Hold("middle", Block)} : i - BlocksAt \in 3 .. 6}
    \cup {h \in {Hold("last", Block)} : i - BlocksAt \in 4 .. 5}

LEMMA Concat ==
    ASSUME NEW S, NEW s \in Seq(S), NEW t \in Seq(S)
    PROVE  /\ s \o t \in Seq(S) /\ Len(s \o t) = Len(s) + Len(t)
           /\ \A i \in 1 .. Len(s) : (s \o t)[i] = s[i]
           /\ \A i \in 1 .. Len(t) : (s \o t)[Len(s) + i] = t[i]
  OBVIOUS

LEMMA LayoutTypes ==
    /\ Word64 \in [size : Nat, align : Nat] /\ Block \in [size : Nat, align : Nat]
    /\ \A n \in Nat : Bytes(n) \in [size : Nat, align : Nat]
<1>1. GRAIN \in Nat /\ GRAIN \div 2 \in Nat /\ 4 * GRAIN \in Nat
  BY MemoryAssumption
<1>2. QED
  BY <1>1 DEF Word64, Block, Bytes

\* A vector's calls, by the capacity they are about.
LEMMA GrowShape ==
    ASSUME NEW caps \in Seq(Nat \ {0})
    PROVE  /\ Grow(caps) \in Seq(Call) /\ Len(Grow(caps)) = 2 * Len(caps)
           /\ 1 <= Len(caps) => Grow(caps)[1] = Alloc(Buffer(1), Bytes(caps[1]))
           /\ \A k \in 1 .. Len(caps) :
                 /\ k < Len(caps) => /\ Grow(caps)[2 * k] = Alloc(Buffer(k + 1), Bytes(caps[k + 1]))
                                     /\ Grow(caps)[2 * k + 1] = Free(Buffer(k), Bytes(caps[k]))
                 /\ k = Len(caps) => Grow(caps)[2 * k] = Free(Buffer(k), Bytes(caps[k]))
<1> DEFINE n == Len(caps)
           at_(i) == LET k == i \div 2
                     IN  IF i = 2 * Len(caps) \/ (i > 1 /\ i % 2 = 1)
                         THEN Free(Buffer(k), Bytes(caps[k]))
                         ELSE Alloc(Buffer(k + 1), Bytes(caps[k + 1]))
<1>1. n \in Nat /\ \A k \in 1 .. n : caps[k] \in Nat
  OBVIOUS
<1>2. Grow(caps) = [i \in 1 .. (2 * n) |-> at_(i)]
  BY DEF Grow
<1>3. ASSUME NEW k \in Nat
      PROVE  (2 * k) \div 2 = k /\ (2 * k) % 2 = 0 /\ (2 * k + 1) \div 2 = k /\ (2 * k + 1) % 2 = 1
  OBVIOUS
<1>4. \A k \in Nat : Buffer(k) \in {"odd", "even"}
  BY DEF Buffer
<1>5. ASSUME NEW i \in 1 .. (2 * n) PROVE at_(i) \in Call
  <2>1. i \div 2 \in Nat /\ i \div 2 <= n
    BY <1>1, <1>5, Z3
  <2>2. CASE i = 2 * n \/ (i > 1 /\ i % 2 = 1)
    <3>1. i \div 2 \in 1 .. n
      BY <2>1, <2>2, <1>1, <1>5
    <3>2. at_(i) = Free(Buffer(i \div 2), Bytes(caps[i \div 2]))
      BY <2>2
    <3>3. Buffer(i \div 2) \in {"odd", "even"} /\ Bytes(caps[i \div 2]) \in [size : Nat, align : Nat]
      <4>1. PICK j \in 1 .. n : j = i \div 2
        BY <3>1
      <4>2. j \in Nat /\ caps[j] \in Nat
        BY <1>1
      <4>3. QED
        BY <4>1, <4>2, <1>4, LayoutTypes
    <3>4. QED
      BY <3>2, <3>3 DEF Call, Free
  <2>3. CASE ~(i = 2 * n \/ (i > 1 /\ i % 2 = 1))
    <3>1. (i \div 2) + 1 \in 1 .. n
      BY <2>1, <2>3, <1>1, <1>5, SMTT(30)
    <3>2. at_(i) = Alloc(Buffer((i \div 2) + 1), Bytes(caps[(i \div 2) + 1]))
      BY <2>3
    <3>3. Buffer((i \div 2) + 1) \in {"odd", "even"} /\ Bytes(caps[(i \div 2) + 1]) \in [size : Nat, align : Nat]
      <4>1. PICK j \in 1 .. n : j = (i \div 2) + 1
        BY <3>1
      <4>2. j \in Nat /\ caps[j] \in Nat
        BY <1>1
      <4>3. QED
        BY <4>1, <4>2, <1>4, LayoutTypes
    <3>4. QED
      BY <3>2, <3>3 DEF Call, Alloc
  <2>4. QED
    BY <2>2, <2>3
<1> HIDE DEF n
<1>6. Grow(caps) \in Seq(Call) /\ Len(Grow(caps)) = 2 * n
  <2>1. Grow(caps) \in [1 .. (2 * n) -> Call]
    BY <1>2, <1>5
  <2>2. 2 * n \in Nat
    BY <1>1
  <2>3. QED
    BY <2>1, <2>2
<1> USE DEF n
<1>7. 1 <= n => Grow(caps)[1] = Alloc(Buffer(1), Bytes(caps[1]))
  <2>1. 1 \div 2 = 0 /\ 1 # 2 * n /\ 0 + 1 = 1
    BY <1>1
  <2>2. QED
    BY <1>1, <1>2, <2>1
<1>8. ASSUME NEW k \in 1 .. n, k < n
      PROVE  /\ Grow(caps)[2 * k] = Alloc(Buffer(k + 1), Bytes(caps[k + 1]))
             /\ Grow(caps)[2 * k + 1] = Free(Buffer(k), Bytes(caps[k]))
  <2>1. 2 * k \in 1 .. (2 * n) /\ 2 * k + 1 \in 1 .. (2 * n) /\ 2 * k # 2 * n /\ 2 * k + 1 > 1
    BY <1>1, <1>8
  <2>2. (2 * k) \div 2 = k /\ (2 * k) % 2 = 0 /\ (2 * k + 1) \div 2 = k /\ (2 * k + 1) % 2 = 1
    BY <1>3
  <2>3. QED
    BY <1>2, <2>1, <2>2
<1>9. ASSUME NEW k \in 1 .. n, k = n
      PROVE  Grow(caps)[2 * k] = Free(Buffer(k), Bytes(caps[k]))
  <2>1. 2 * k \in 1 .. (2 * n) /\ (2 * k) \div 2 = k
    BY <1>1, <1>3, <1>9
  <2>2. QED
    BY <1>2, <1>9, <2>1
<1>10. QED
  BY <1>6, <1>7, <1>8, <1>9

\* What is held of a vector before each of its calls: nothing at first, one
\* buffer after an even number of calls to go, two in between.
LEMMA BuffersShape ==
    ASSUME NEW caps \in Seq(Nat \ {0})
    PROVE  /\ \A i \in Int : i <= 1 \/ 2 * Len(caps) < i => Buffers(caps, i) = {}
           /\ \A k \in 1 .. Len(caps) :
                 /\ Buffers(caps, 2 * k) = {Hold(Buffer(k), Bytes(caps[k]))}
                 /\ k < Len(caps) =>
                       Buffers(caps, 2 * k + 1) = {Hold(Buffer(k), Bytes(caps[k])),
                                                   Hold(Buffer(k + 1), Bytes(caps[k + 1]))}
<1> DEFINE n == Len(caps)
           B(k) == Hold(Buffer(k), Bytes(caps[k]))
           J(i) == {j \in 1 .. n : 1 < i /\ i <= 2 * n /\ 2 * j <= i + 1 /\ i <= 2 * j + 1}
<1>1. n \in Nat
  OBVIOUS
<1>2. \A i : Buffers(caps, i) = {B(k) : k \in J(i)}
  BY DEF Buffers
<1>3. ASSUME NEW i \in Int, i <= 1 \/ 2 * n < i PROVE Buffers(caps, i) = {}
  <2>1. J(i) = {}
    BY <1>1, <1>3
  <2>2. QED
    BY <1>2, <2>1, ZenonT(60)
<1>4. ASSUME NEW k \in 1 .. n PROVE Buffers(caps, 2 * k) = {B(k)}
  <2>1. J(2 * k) = {k}
    BY <1>1
  <2>2. QED
    BY <1>2, <2>1
<1>5. ASSUME NEW k \in 1 .. n, k < n PROVE Buffers(caps, 2 * k + 1) = {B(k), B(k + 1)}
  <2>1. J(2 * k + 1) \subseteq {k, k + 1}
    BY <1>1, <1>5, SMTT(30)
  <2>2. k \in J(2 * k + 1) /\ k + 1 \in J(2 * k + 1)
    BY <1>1, <1>5
  <2>3. J(2 * k + 1) = {k, k + 1}
    BY <2>1, <2>2
  <2> HIDE DEF J, B
  <2>4. {B(j) : j \in J(2 * k + 1)} = {B(k), B(k + 1)}
    BY <2>3
  <2>5. QED
    BY <1>2, <2>4
<1>6. QED
  BY <1>3, <1>4, <1>5

\* The call c, made while H is held, leaves N held: it allocates under a name
\* that is not in use, or frees what is held under its name.
Accounts(c, H_, N_) ==
    /\ c.op = "alloc" => N_ = H_ \cup {HoldOf(c)} /\ \A h \in H_ : h.name # c.name
    /\ c.op = "dealloc" => /\ HoldOf(c) \in H_ /\ N_ = H_ \ {HoldOf(c)}
                           /\ \A h \in H_ : h.name = c.name => h = HoldOf(c)
    /\ c.op = "stat" => H_ = {} /\ N_ = {} /\ c.name \in {"before", "bytes", "blocks"}
    /\ c.op \in {"alloc", "dealloc", "stat"}

LEMMA BufferNames == \A k \in Nat : Buffer(k) # Buffer(k + 1)
<1> SUFFICES ASSUME NEW k \in Nat PROVE Buffer(k) # Buffer(k + 1)
  OBVIOUS
<1>1. (k % 2 = 1) <=> ~((k + 1) % 2 = 1)
  OBVIOUS
<1>2. QED
  BY <1>1 DEF Buffer

LEMMA GrowAccounts ==
    ASSUME NEW caps \in Seq(Nat \ {0}), NEW i \in 1 .. (2 * Len(caps))
    PROVE  Accounts(Grow(caps)[i], Buffers(caps, i), Buffers(caps, i + 1))
<1> DEFINE n == Len(caps)
           B(k) == Hold(Buffer(k), Bytes(caps[k]))
<1>1. n \in Nat
  OBVIOUS
<1>2. \A k : /\ HoldOf(Alloc(Buffer(k), Bytes(caps[k]))) = B(k)
             /\ HoldOf(Free(Buffer(k), Bytes(caps[k]))) = B(k)
             /\ Alloc(Buffer(k), Bytes(caps[k])).op = "alloc"
             /\ Alloc(Buffer(k), Bytes(caps[k])).name = Buffer(k)
             /\ Free(Buffer(k), Bytes(caps[k])).op = "dealloc"
             /\ Free(Buffer(k), Bytes(caps[k])).name = Buffer(k)
             /\ B(k).name = Buffer(k)
  BY DEF HoldOf, Hold, Alloc, Free
<1> HIDE DEF B, n
<1>3. CASE i = 1
  <2>1. 1 \in 1 .. n /\ 1 \in Int /\ i + 1 = 2 * 1
    BY <1>1, <1>3 DEF n
  <2>2. Grow(caps)[i] = Alloc(Buffer(1), Bytes(caps[1]))
    BY <1>3, <2>1, GrowShape DEF n
  <2>3. Buffers(caps, i) = {} /\ Buffers(caps, i + 1) = {B(1)}
    BY <1>3, <2>1, BuffersShape DEF n, B
  <2>4. QED
    BY <2>2, <2>3, <1>2 DEF Accounts
<1>4. ASSUME NEW k \in 1 .. n, i = 2 * k, k < n
      PROVE  Accounts(Grow(caps)[i], Buffers(caps, i), Buffers(caps, i + 1))
  <2>1. Grow(caps)[i] = Alloc(Buffer(k + 1), Bytes(caps[k + 1]))
    BY <1>4, GrowShape DEF n
  <2>2. Buffers(caps, i) = {B(k)} /\ Buffers(caps, i + 1) = {B(k), B(k + 1)}
    BY <1>4, BuffersShape DEF n, B
  <2>3. Buffer(k) # Buffer(k + 1)
    BY BufferNames
  <2>4. QED
    BY <2>1, <2>2, <2>3, <1>2 DEF Accounts
<1>5. ASSUME NEW k \in 1 .. n, i = 2 * k, k = n
      PROVE  Accounts(Grow(caps)[i], Buffers(caps, i), Buffers(caps, i + 1))
  <2>1. Grow(caps)[i] = Free(Buffer(k), Bytes(caps[k]))
    BY <1>5, GrowShape DEF n
  <2>2. i + 1 \in Int /\ 2 * n < i + 1
    BY <1>1, <1>5
  <2>3. Buffers(caps, i) = {B(k)} /\ Buffers(caps, i + 1) = {}
    BY <1>5, <2>2, BuffersShape DEF n, B
  <2>4. QED
    BY <2>1, <2>3, <1>2 DEF Accounts
<1>6. ASSUME NEW k \in 1 .. n, i = 2 * k + 1, k < n
      PROVE  Accounts(Grow(caps)[i], Buffers(caps, i), Buffers(caps, i + 1))
  <2>1. Grow(caps)[i] = Free(Buffer(k), Bytes(caps[k]))
    BY <1>6, GrowShape DEF n
  <2>2. k + 1 \in 1 .. n /\ i + 1 = 2 * (k + 1)
    BY <1>1, <1>6
  <2>3. Buffers(caps, i) = {B(k), B(k + 1)}
    BY <1>6, BuffersShape DEF n, B
  <2>4. Buffers(caps, i + 1) = {B(k + 1)}
    BY <2>2, BuffersShape DEF n, B
  <2>5. Buffer(k) # Buffer(k + 1)
    BY BufferNames
  <2>6. QED
    BY <2>1, <2>3, <2>4, <2>5, <1>2 DEF Accounts
<1>7. CASE i # 1
  <2>1. PICK k \in Nat : i = 2 * k \/ i = 2 * k + 1
    <3>1. i \div 2 \in Nat /\ (i = 2 * (i \div 2) \/ i = 2 * (i \div 2) + 1)
      BY <1>1 DEF n
    <3>2. QED
      BY <3>1
  <2>2. k \in 1 .. n /\ (i = 2 * k + 1 => k < n)
    BY <1>1, <1>7, <2>1 DEF n
  <2>3. CASE i = 2 * k + 1
    BY <2>2, <2>3, <1>6
  <2>4. CASE i = 2 * k /\ k < n
    BY <2>2, <2>4, <1>4
  <2>5. CASE i = 2 * k /\ k = n
    BY <2>2, <2>5, <1>5
  <2>6. QED
    BY <2>1, <2>2, <2>3, <2>4, <2>5, <1>1
<1>8. QED
  BY <1>3, <1>7

\* The calls of start-up, by their place.
LEMMA ScriptIs ==
    /\ TextAt \in Nat /\ BlocksAt \in Nat /\ 12 <= TextAt /\ TextAt <= BlocksAt
    /\ Script \in Seq(Call) /\ Len(Script) = BlocksAt + 8
    /\ \A i \in 1 .. 8 : Script[i] = FrameSelftest[i]
    /\ Script[9] = Frame("heap_init", "heap") /\ Script[10] = Frame("stat", "before")
    /\ Script[11] = Alloc("box", Word64) /\ Script[12] = Free("box", Word64)
    /\ \A i \in 1 .. (2 * Len(Growth)) : Script[12 + i] = Grow(Growth)[i]
    /\ \A i \in 1 .. (2 * Len(Text)) : Script[TextAt + i] = Grow(Text)[i]
    /\ Script[BlocksAt + 1] = Alloc("first", Block)
    /\ Script[BlocksAt + 2] = Alloc("middle", Block)
    /\ Script[BlocksAt + 3] = Alloc("last", Block)
    /\ Script[BlocksAt + 4] = Free("first", Block)
    /\ Script[BlocksAt + 5] = Free("last", Block)
    /\ Script[BlocksAt + 6] = Free("middle", Block)
    /\ Script[BlocksAt + 7] = Frame("stat", "bytes")
    /\ Script[BlocksAt + 8] = Frame("stat", "blocks")
<1> DEFINE h  == << Frame("heap_init", "heap") >>
           s1 == << Frame("stat", "before"), Alloc("box", Word64), Free("box", Word64) >>
           s2 == Grow(Growth)
           s3 == Grow(Text)
           s4 == << Alloc("first", Block), Alloc("middle", Block), Alloc("last", Block),
                    Free("first", Block), Free("last", Block), Free("middle", Block),
                    Frame("stat", "bytes"), Frame("stat", "blocks") >>
           g  == 2 * Len(Growth)
           t  == 2 * Len(Text)
<1>1. FrameSelftest \in Seq(Call) /\ h \in Seq(Call) /\ s1 \in Seq(Call) /\ s4 \in Seq(Call)
  <2>1. /\ \A o \in {"alloc_frame", "dealloc_frame", "heap_init", "stat"},
              n \in {"first", "again", "a", "b", "heap", "before", "bytes", "blocks"} :
              Frame(o, n) \in Call
        /\ \A n \in {"box", "first", "middle", "last"}, l \in {Word64, Block} :
              Alloc(n, l) \in Call /\ Free(n, l) \in Call
    BY LayoutTypes DEF Call, Frame, Alloc, Free
  <2>2. FrameSelftest \in Seq(Call)
    BY <2>1 DEF FrameSelftest
  <2>3. h \in Seq(Call) /\ s1 \in Seq(Call)
    BY <2>1
  <2>4. s4 \in Seq(Call)
    BY <2>1
  <2>5. QED
    BY <2>2, <2>3, <2>4
<1>2. Len(FrameSelftest) = 8 /\ Len(h) = 1 /\ Len(s1) = 3 /\ Len(s4) = 8
  BY DEF FrameSelftest
<1>3. /\ s2 \in Seq(Call) /\ Len(s2) = g /\ g \in Nat
      /\ s3 \in Seq(Call) /\ Len(s3) = t /\ t \in Nat
  BY GrowShape, MemoryAssumption
<1>4. /\ h[1] = Frame("heap_init", "heap")
      /\ s1[1] = Frame("stat", "before") /\ s1[2] = Alloc("box", Word64) /\ s1[3] = Free("box", Word64)
      /\ s4[1] = Alloc("first", Block) /\ s4[2] = Alloc("middle", Block)
      /\ s4[3] = Alloc("last", Block) /\ s4[4] = Free("first", Block)
      /\ s4[5] = Free("last", Block) /\ s4[6] = Free("middle", Block)
      /\ s4[7] = Frame("stat", "bytes") /\ s4[8] = Frame("stat", "blocks")
  OBVIOUS
<1>5. Script = (FrameSelftest \o h) \o (((s1 \o s2) \o s3) \o s4)
  BY DEF Script, HeapSelftest
<1>6. TextAt = 12 + g /\ BlocksAt = 12 + g + t
  BY <1>3 DEF TextAt, BlocksAt
<1> HIDE DEF h, s1, s2, s3, s4, g, t
<1> DEFINE p == FrameSelftest \o h
           q == s1 \o s2
           r == q \o s3
           u == r \o s4
<1>7. /\ p \in Seq(Call) /\ Len(p) = 9 /\ p[9] = h[1]
      /\ \A i \in 1 .. 8 : p[i] = FrameSelftest[i]
  <2>1. /\ FrameSelftest \o h \in Seq(Call) /\ Len(FrameSelftest \o h) = Len(FrameSelftest) + Len(h)
        /\ \A i \in 1 .. Len(FrameSelftest) : (FrameSelftest \o h)[i] = FrameSelftest[i]
        /\ \A i \in 1 .. Len(h) : (FrameSelftest \o h)[Len(FrameSelftest) + i] = h[i]
    BY <1>1, Concat
  <2>2. QED
    BY <2>1, <1>2, SMTT(30)
<1>8. /\ q \in Seq(Call) /\ Len(q) = 3 + g
      /\ \A i \in 1 .. 3 : q[i] = s1[i]
      /\ \A i \in 1 .. g : q[3 + i] = s2[i]
  <2>1. /\ s1 \o s2 \in Seq(Call) /\ Len(s1 \o s2) = Len(s1) + Len(s2)
        /\ \A i \in 1 .. Len(s1) : (s1 \o s2)[i] = s1[i]
        /\ \A i \in 1 .. Len(s2) : (s1 \o s2)[Len(s1) + i] = s2[i]
    BY <1>1, <1>3, Concat
  <2>2. QED
    BY <2>1, <1>2, <1>3
<1>9. /\ r \in Seq(Call) /\ Len(r) = 3 + g + t
      /\ \A i \in 1 .. (3 + g) : r[i] = q[i]
      /\ \A i \in 1 .. t : r[3 + g + i] = s3[i]
  <2> HIDE DEF q
  <2>0. q \in Seq(Call) /\ s3 \in Seq(Call)
    BY <1>3, <1>8
  <2>1. /\ q \o s3 \in Seq(Call) /\ Len(q \o s3) = Len(q) + Len(s3)
        /\ \A i \in 1 .. Len(q) : (q \o s3)[i] = q[i]
        /\ \A i \in 1 .. Len(s3) : (q \o s3)[Len(q) + i] = s3[i]
    BY <2>0, Concat
  <2>2. QED
    BY <2>1, <1>3, <1>8 DEF r
<1>10. /\ u \in Seq(Call) /\ Len(u) = 3 + g + t + 8
       /\ \A i \in 1 .. (3 + g + t) : u[i] = r[i]
       /\ \A i \in 1 .. 8 : u[3 + g + t + i] = s4[i]
  <2> HIDE DEF r
  <2>0. r \in Seq(Call) /\ s4 \in Seq(Call)
    BY <1>1, <1>9
  <2>1. /\ r \o s4 \in Seq(Call) /\ Len(r \o s4) = Len(r) + Len(s4)
        /\ \A i \in 1 .. Len(r) : (r \o s4)[i] = r[i]
        /\ \A i \in 1 .. Len(s4) : (r \o s4)[Len(r) + i] = s4[i]
    BY <2>0, Concat
  <2>2. QED
    BY <2>1, <1>2, <1>3, <1>9 DEF u
<1>11. Script = p \o u
  BY <1>5
<1> HIDE DEF p, q, r, u
<1>12. /\ Script \in Seq(Call) /\ Len(Script) = 9 + (3 + g + t + 8)
       /\ \A i \in 1 .. 9 : Script[i] = p[i]
       /\ \A i \in 1 .. (3 + g + t + 8) : Script[9 + i] = u[i]
  <2>0. p \in Seq(Call) /\ u \in Seq(Call)
    BY <1>7, <1>10
  <2>1. /\ p \o u \in Seq(Call) /\ Len(p \o u) = Len(p) + Len(u)
        /\ \A i \in 1 .. Len(p) : (p \o u)[i] = p[i]
        /\ \A i \in 1 .. Len(u) : (p \o u)[Len(p) + i] = u[i]
    BY <2>0, Concat
  <2>2. QED
    BY <2>1, <1>3, <1>7, <1>10, <1>11, ZenonT(60)
<1>13. ASSUME NEW i \in 1 .. 3 PROVE Script[9 + i] = s1[i]
  <2>1. i \in 1 .. (3 + g) /\ i \in 1 .. (3 + g + t) /\ i \in 1 .. (3 + g + t + 8)
    BY <1>3
  <2>2. QED
    BY <2>1, <1>8, <1>9, <1>10, <1>12
<1>14. ASSUME NEW i \in 1 .. g PROVE Script[12 + i] = s2[i]
  <2>1. 3 + i \in 1 .. (3 + g) /\ 3 + i \in 1 .. (3 + g + t) /\ 3 + i \in 1 .. (3 + g + t + 8)
        /\ 9 + (3 + i) = 12 + i
    BY <1>3
  <2>2. Script[12 + i] = u[3 + i]
    BY <2>1, <1>12
  <2>3. u[3 + i] = q[3 + i]
    BY <2>1, <1>9, <1>10
  <2>4. QED
    BY <2>2, <2>3, <1>8
<1>15. ASSUME NEW i \in 1 .. t PROVE Script[TextAt + i] = s3[i]
  <2>1. 3 + g + i \in 1 .. (3 + g + t) /\ 3 + g + i \in 1 .. (3 + g + t + 8)
        /\ 9 + (3 + g + i) = TextAt + i
    BY <1>3, <1>6
  <2>2. Script[TextAt + i] = u[3 + g + i]
    BY <2>1, <1>12
  <2>3. u[3 + g + i] = r[3 + g + i]
    BY <2>1, <1>10
  <2>4. QED
    BY <2>2, <2>3, <1>9
<1>16. ASSUME NEW i \in 1 .. 8 PROVE Script[BlocksAt + i] = s4[i]
  <2>1. 3 + g + t + i \in 1 .. (3 + g + t + 8) /\ 9 + (3 + g + t + i) = BlocksAt + i
    BY <1>3, <1>6
  <2>2. Script[BlocksAt + i] = u[3 + g + t + i]
    BY <2>1, <1>12
  <2>3. QED
    BY <2>2, <1>10
<1>17. /\ Script[9] = h[1] /\ Script[10] = s1[1] /\ Script[11] = s1[2] /\ Script[12] = s1[3]
       /\ \A i \in 1 .. 8 : Script[i] = FrameSelftest[i]
  <2>1. Script[9 + 1] = s1[1] /\ Script[9 + 2] = s1[2] /\ Script[9 + 3] = s1[3]
    BY <1>13
  <2>2. QED
    BY <2>1, <1>7, <1>12, SMTT(30)
<1>18. /\ TextAt \in Nat /\ BlocksAt \in Nat /\ 12 <= TextAt /\ TextAt <= BlocksAt
       /\ Script \in Seq(Call) /\ Len(Script) = BlocksAt + 8
  BY <1>3, <1>6, <1>12
<1>19. /\ \A i \in 1 .. (2 * Len(Growth)) : Script[12 + i] = Grow(Growth)[i]
       /\ \A i \in 1 .. (2 * Len(Text)) : Script[TextAt + i] = Grow(Text)[i]
  BY <1>14, <1>15 DEF g, t, s2, s3
<1>20. QED
  BY <1>4, <1>16, <1>17, <1>18, <1>19, SMTT(30)

LEMMA ScriptLength ==
    /\ TextAt \in Nat /\ BlocksAt \in Nat /\ 12 <= TextAt /\ TextAt <= BlocksAt
    /\ Len(Script) \in Nat /\ Len(Script) = BlocksAt + 8 /\ Len(Script) >= 20
<1>1. /\ TextAt \in Nat /\ BlocksAt \in Nat /\ 12 <= TextAt /\ TextAt <= BlocksAt
      /\ Len(Script) = BlocksAt + 8
  BY ScriptIs, Zenon
<1>2. QED
  BY <1>1

\* What is held, by place.
LEMMA HeldShape ==
    /\ HeldAt(10) = {} /\ HeldAt(11) = {} /\ HeldAt(12) = {Hold("box", Word64)}
    /\ \A j \in 1 .. (2 * Len(Growth) + 1) : HeldAt(12 + j) = Buffers(Growth, j)
    /\ \A j \in 1 .. (2 * Len(Text) + 1) : HeldAt(TextAt + j) = Buffers(Text, j)
    /\ HeldAt(BlocksAt + 1) = {}
    /\ HeldAt(BlocksAt + 2) = {Hold("first", Block)}
    /\ HeldAt(BlocksAt + 3) = {Hold("first", Block), Hold("middle", Block)}
    /\ HeldAt(BlocksAt + 4) = {Hold("first", Block), Hold("middle", Block), Hold("last", Block)}
    /\ HeldAt(BlocksAt + 5) = {Hold("middle", Block), Hold("last", Block)}
    /\ HeldAt(BlocksAt + 6) = {Hold("middle", Block)}
    /\ HeldAt(BlocksAt + 7) = {} /\ HeldAt(BlocksAt + 8) = {} /\ HeldAt(BlocksAt + 9) = {}
<1> DEFINE g == 2 * Len(Growth)
           t == 2 * Len(Text)
           Third(i) == {h \in {Hold("first", Block)} : i - BlocksAt \in 2 .. 4}
                       \cup {h \in {Hold("middle", Block)} : i - BlocksAt \in 3 .. 6}
                       \cup {h \in {Hold("last", Block)} : i - BlocksAt \in 4 .. 5}
<1>1. g \in Nat /\ t \in Nat /\ TextAt = 12 + g /\ BlocksAt = 12 + g + t
  BY MemoryAssumption DEF TextAt, BlocksAt
<1>2. /\ \A i \in Int : i <= 1 \/ g < i => Buffers(Growth, i) = {}
      /\ \A i \in Int : i <= 1 \/ t < i => Buffers(Text, i) = {}
  BY BuffersShape, MemoryAssumption
<1>3. \A i : HeldAt(i) = {h \in {Hold("box", Word64)} : i = 12}
                         \cup Buffers(Growth, i - 12) \cup Buffers(Text, i - TextAt) \cup Third(i)
  BY DEF HeldAt
<1> HIDE DEF g, t
<1>4. \A i \in Int : i <= BlocksAt + 1 \/ BlocksAt + 7 <= i => Third(i) = {}
  BY <1>1
<1>5. /\ Third(BlocksAt + 2) = {Hold("first", Block)}
      /\ Third(BlocksAt + 3) = {Hold("first", Block), Hold("middle", Block)}
      /\ Third(BlocksAt + 4) = {Hold("first", Block), Hold("middle", Block), Hold("last", Block)}
      /\ Third(BlocksAt + 5) = {Hold("middle", Block), Hold("last", Block)}
      /\ Third(BlocksAt + 6) = {Hold("middle", Block)}
  <2>1. /\ (BlocksAt + 2) - BlocksAt = 2 /\ (BlocksAt + 3) - BlocksAt = 3
        /\ (BlocksAt + 4) - BlocksAt = 4 /\ (BlocksAt + 5) - BlocksAt = 5
        /\ (BlocksAt + 6) - BlocksAt = 6
    BY <1>1
  <2>2. QED
    BY <2>1
<1> HIDE DEF Third
<1>6. HeldAt(10) = {} /\ HeldAt(11) = {} /\ HeldAt(12) = {Hold("box", Word64)}
  <2>1. ASSUME NEW i \in 10 .. 12
        PROVE  Buffers(Growth, i - 12) = {} /\ Buffers(Text, i - TextAt) = {} /\ Third(i) = {}
    BY <1>1, <1>2, <1>4
  <2>2. QED
    BY <2>1, <1>3
<1>7. ASSUME NEW j \in 1 .. (g + 1) PROVE HeldAt(12 + j) = Buffers(Growth, j)
  <2>1. /\ (12 + j) - TextAt \in Int /\ (12 + j) - TextAt <= 1 /\ (12 + j) - 12 = j /\ 12 + j # 12
        /\ 12 + j \in Int /\ 12 + j <= BlocksAt + 1
    BY <1>1
  <2>2. QED
    BY <2>1, <1>2, <1>3, <1>4
<1>8. ASSUME NEW j \in 1 .. (t + 1) PROVE HeldAt(TextAt + j) = Buffers(Text, j)
  <2>1. /\ (TextAt + j) - 12 \in Int /\ g < (TextAt + j) - 12 /\ (TextAt + j) - TextAt = j
        /\ TextAt + j # 12 /\ TextAt + j \in Int /\ TextAt + j <= BlocksAt + 1
    BY <1>1
  <2>2. QED
    BY <2>1, <1>2, <1>3, <1>4
<1>9. ASSUME NEW j \in 1 .. 9 PROVE HeldAt(BlocksAt + j) = Third(BlocksAt + j)
  <2>1. /\ (BlocksAt + j) - 12 \in Int /\ g < (BlocksAt + j) - 12
        /\ (BlocksAt + j) - TextAt \in Int /\ t < (BlocksAt + j) - TextAt /\ BlocksAt + j # 12
    BY <1>1
  <2>2. QED
    BY <2>1, <1>2, <1>3
<1>10. \A j \in {1, 7, 8, 9} : Third(BlocksAt + j) = {}
  BY <1>1, <1>4
<1>11. QED
  BY <1>5, <1>6, <1>7, <1>8, <1>9, <1>10 DEF g, t

\* Every call of heap::selftest allocates under a free name, or frees what is
\* held; it takes its statistics when nothing is.
LEMMA ScriptAccounts ==
    ASSUME NEW i \in 10 .. Len(Script)
    PROVE  Accounts(Script[i], HeldAt(i), HeldAt(i + 1))
<1> DEFINE g == 2 * Len(Growth)
           t == 2 * Len(Text)
<1>1. g \in Nat /\ t \in Nat /\ TextAt = 12 + g /\ BlocksAt = 12 + g + t
  BY MemoryAssumption DEF TextAt, BlocksAt
<1>2. CASE i = 10
  BY <1>2, ScriptIs, HeldShape, SMTT(30) DEF Accounts, Frame
<1>3. CASE i = 11
  BY <1>3, ScriptIs, HeldShape, SMTT(30) DEF Accounts, Alloc, HoldOf, Hold
<1>4. CASE i = 12
  <2>1. HeldAt(12 + 1) = {}
    <3>1. 1 \in 1 .. (g + 1) /\ Buffers(Growth, 1) = {}
      BY <1>1, BuffersShape, MemoryAssumption, SMTT(30)
    <3>2. QED
      BY <3>1, HeldShape
  <2>2. QED
    BY <1>4, <2>1, ScriptIs, HeldShape, SMTT(30) DEF Accounts, Free, HoldOf, Hold
<1>5. ASSUME NEW j \in 1 .. g, i = 12 + j
      PROVE  Accounts(Script[i], HeldAt(i), HeldAt(i + 1))
  <2>1. j \in 1 .. (g + 1) /\ j + 1 \in 1 .. (g + 1) /\ i + 1 = 12 + (j + 1)
    BY <1>1, <1>5
  <2>2. HeldAt(i) = Buffers(Growth, j) /\ HeldAt(i + 1) = Buffers(Growth, j + 1)
    BY <1>5, <2>1, HeldShape
  <2>3. Script[i] = Grow(Growth)[j]
    BY <1>5, ScriptIs
  <2>4. QED
    BY <2>2, <2>3, GrowAccounts, MemoryAssumption
<1>6. ASSUME NEW j \in 1 .. t, i = TextAt + j
      PROVE  Accounts(Script[i], HeldAt(i), HeldAt(i + 1))
  <2>1. j \in 1 .. (t + 1) /\ j + 1 \in 1 .. (t + 1) /\ i + 1 = TextAt + (j + 1)
    BY <1>1, <1>6
  <2>2. HeldAt(i) = Buffers(Text, j) /\ HeldAt(i + 1) = Buffers(Text, j + 1)
    BY <1>6, <2>1, HeldShape
  <2>3. Script[i] = Grow(Text)[j]
    BY <1>6, ScriptIs
  <2>4. QED
    BY <2>2, <2>3, GrowAccounts, MemoryAssumption
<1>7. ASSUME NEW j \in 1 .. 8, i = BlocksAt + j
      PROVE  Accounts(Script[i], HeldAt(i), HeldAt(i + 1))
  <2>2. CASE j = 1
    <3>1. i = BlocksAt + 1 /\ i + 1 = BlocksAt + 2
      BY <1>1, <1>7, <2>2
    <3>2. QED
      BY <3>1, ScriptIs, HeldShape, SMTT(30) DEF Accounts, Alloc, HoldOf, Hold
  <2>3. CASE j = 2
    <3>1. i = BlocksAt + 2 /\ i + 1 = BlocksAt + 3
      BY <1>1, <1>7, <2>3
    <3>2. QED
      BY <3>1, ScriptIs, HeldShape, SMTT(30) DEF Accounts, Alloc, HoldOf, Hold
  <2>4. CASE j = 3
    <3>1. i = BlocksAt + 3 /\ i + 1 = BlocksAt + 4
      BY <1>1, <1>7, <2>4
    <3>2. /\ Script[i] = [op |-> "alloc", name |-> "last", layout |-> Block]
          /\ HeldAt(i) = {Hold("first", Block), Hold("middle", Block)}
          /\ HeldAt(i + 1) = {Hold("first", Block), Hold("middle", Block), Hold("last", Block)}
      BY <3>1, ScriptIs, HeldShape DEF Alloc
    <3>3. HoldOf(Script[i]) = Hold("last", Block)
      BY <3>2 DEF HoldOf
    <3>4. Hold("first", Block).name = "first" /\ Hold("middle", Block).name = "middle" /\ Hold("last", Block).name = "last"
      BY DEF Hold
    <3>5. QED
      BY <3>2, <3>3, <3>4 DEF Accounts
  <2>5. CASE j = 4
    <3>1. i = BlocksAt + 4 /\ i + 1 = BlocksAt + 5
      BY <1>1, <1>7, <2>5
    <3>2. QED
      BY <3>1, ScriptIs, HeldShape, SMTT(30) DEF Accounts, Free, HoldOf, Hold
  <2>6. CASE j = 5
    <3>1. i = BlocksAt + 5 /\ i + 1 = BlocksAt + 6
      BY <1>1, <1>7, <2>6
    <3>2. /\ Script[i] = [op |-> "dealloc", name |-> "last", layout |-> Block]
          /\ HeldAt(i) = {Hold("middle", Block), Hold("last", Block)}
          /\ HeldAt(i + 1) = {Hold("middle", Block)}
      BY <3>1, ScriptIs, HeldShape DEF Free
    <3>3. HoldOf(Script[i]) = Hold("last", Block)
      BY <3>2 DEF HoldOf
    <3>4. Hold("first", Block).name = "first" /\ Hold("middle", Block).name = "middle" /\ Hold("last", Block).name = "last"
      BY DEF Hold
    <3>5. QED
      BY <3>2, <3>3, <3>4 DEF Accounts
  <2>7. CASE j = 6
    <3>1. i = BlocksAt + 6 /\ i + 1 = BlocksAt + 7
      BY <1>1, <1>7, <2>7
    <3>2. QED
      BY <3>1, ScriptIs, HeldShape, SMTT(30) DEF Accounts, Free, HoldOf, Hold
  <2>8. CASE j = 7
    <3>1. i = BlocksAt + 7 /\ i + 1 = BlocksAt + 8
      BY <1>1, <1>7, <2>8
    <3>2. QED
      BY <3>1, ScriptIs, HeldShape, SMTT(30) DEF Accounts, Frame
  <2>9. CASE j = 8
    <3>1. i = BlocksAt + 8 /\ i + 1 = BlocksAt + 9
      BY <1>1, <1>7, <2>9
    <3>2. QED
      BY <3>1, ScriptIs, HeldShape, SMTT(30) DEF Accounts, Frame
  <2>10. QED
    BY <2>2, <2>3, <2>4, <2>5, <2>6, <2>7, <2>8, <2>9
<1>8. \/ i = 10 \/ i = 11 \/ i = 12
      \/ \E j \in 1 .. g : i = 12 + j
      \/ \E j \in 1 .. t : i = TextAt + j
      \/ \E j \in 1 .. 8 : i = BlocksAt + j
  <2>1. i \in Nat /\ i <= BlocksAt + 8 /\ 10 <= i
    BY ScriptIs
  <2>2. CASE 12 < i /\ i <= TextAt
    <3>1. i - 12 \in 1 .. g /\ i = 12 + (i - 12)
      BY <1>1, <2>1, <2>2
    <3>2. QED
      BY <3>1
  <2>3. CASE TextAt < i /\ i <= BlocksAt
    <3>1. i - TextAt \in 1 .. t /\ i = TextAt + (i - TextAt)
      BY <1>1, <2>1, <2>3
    <3>2. QED
      BY <3>1
  <2>4. CASE BlocksAt < i
    <3>1. i - BlocksAt \in 1 .. 8 /\ i = BlocksAt + (i - BlocksAt)
      BY <1>1, <2>1, <2>4, SMTT(30)
    <3>2. QED
      BY <3>1
  <2>5. QED
    BY <1>1, <2>1, <2>2, <2>3, <2>4, SMTT(30)
<1>9. QED
  BY <1>2, <1>3, <1>4, <1>5, <1>6, <1>7, <1>8

-----------------------------------------------------------------------------
(* The heap inside start-up *)

\* What has been proved of the heap alone, for the heap that start-up arms.
HP == INSTANCE HeapProofs WITH Start <- PAGE, HeapSize <- HEAP_FRAMES * PAGE, Junk <- HeapJunk,
        Layouts <- SelftestLayouts, pc <- hpc

LEMMA EvenGrain == GRAIN \div 2 \in Nat \ {0} /\ GRAIN % (GRAIN \div 2) = 0 /\ GRAIN \div 2 <= GRAIN
<1>1. GRAIN \in Nat \ {0} /\ GRAIN % 2 = 0
  BY MemoryAssumption
<1>2. PICK m \in Nat : m = GRAIN \div 2
  BY <1>1
<1>3. GRAIN = m * 2 /\ m # 0
  BY <1>1, <1>2
<1>4. GRAIN % m = 0
  BY <1>1, <1>3, MultipleIff
<1>5. QED
  BY <1>2, <1>3, <1>4

\* Every alignment the self-test asks for divides the grain.
LEMMA SelftestAligns ==
    ASSUME NEW l \in SelftestLayouts
    PROVE  l \in [size : Nat, align : Nat \ {0}] /\ GRAIN % l.align = 0 /\ l.align <= GRAIN
<1>1. GRAIN \in Nat \ {0} /\ 4 * GRAIN \in Nat /\ GRAIN % 1 = 0 /\ 1 <= GRAIN
  BY MemoryAssumption
<1>2. \A n \in Nat : /\ Bytes(n) \in [size : Nat, align : Nat \ {0}]
                     /\ GRAIN % Bytes(n).align = 0 /\ Bytes(n).align <= GRAIN
  BY <1>1 DEF Bytes
<1>3. CASE l = Word64
  BY <1>3, EvenGrain DEF Word64
<1>4. CASE l = Block
  BY <1>1, <1>2, <1>4 DEF Block
<1>5. CASE \E i \in DOMAIN Growth : l = Bytes(Growth[i])
  <2>1. PICK i \in DOMAIN Growth : l = Bytes(Growth[i])
    BY <1>5
  <2>2. Growth[i] \in Nat
    BY MemoryAssumption
  <2>3. QED
    BY <2>1, <2>2, <1>2
<1>6. CASE \E i \in DOMAIN Text : l = Bytes(Text[i])
  <2>1. PICK i \in DOMAIN Text : l = Bytes(Text[i])
    BY <1>6
  <2>2. Text[i] \in Nat
    BY MemoryAssumption
  <2>3. QED
    BY <2>1, <2>2, <1>2
<1>7. QED
  BY <1>3, <1>4, <1>5, <1>6 DEF SelftestLayouts

LEMMA ArenaGrid == HEAP_FRAMES * PAGE \in Nat \ {0} /\ (HEAP_FRAMES * PAGE) % GRAIN = 0
<1>1. GRAIN \in Nat \ {0} /\ PAGE \in Nat \ {0} /\ PAGE % GRAIN = 0 /\ HEAP_FRAMES \in Nat \ {0}
  BY MemoryAssumption, FramesAssumption
<1>2. HEAP_FRAMES * PAGE \in Nat \ {0} /\ HEAP_FRAMES * PAGE = PAGE * HEAP_FRAMES
  BY <1>1, Z3
<1>3. (HEAP_FRAMES * PAGE) % PAGE = 0
  BY <1>1, <1>2, MultipleIff
<1>4. QED
  BY <1>1, <1>2, <1>3, MultipleTrans

\* The heap that start-up arms meets the assumptions made of a heap.
LEMMA ArenaAssumption == HP!HeapAssumption
<1>1. GRAIN \in Nat \ {0} /\ PAGE \in Nat \ {0} /\ PAGE % GRAIN = 0
  BY MemoryAssumption, FramesAssumption
<1>2. HeapJunk \subseteq [size : Nat, next : Nat] /\ HeapJunk # {}
  BY MemoryAssumption
<1>3. SelftestLayouts \subseteq [size : Nat, align : Nat \ {0}]
  BY SelftestAligns
<1>4. \A l \in SelftestLayouts : GRAIN % l.align = 0 \/ l.align % GRAIN = 0
  BY SelftestAligns
<1>5. QED
  BY <1>1, <1>2, <1>3, <1>4, ArenaGrid DEF HP!HeapAssumption

LEMMA SelftestSizes ==
    ASSUME NEW l \in SelftestLayouts
    PROVE  /\ HP!Align(l) = GRAIN /\ HP!Size(l) \in Nat \ {0} /\ HP!Size(l) % GRAIN = 0
           /\ HP!Size(l) = H!Size(l)
<1>1. GRAIN \in Nat \ {0} /\ l.align \in Nat /\ l.align <= GRAIN
  BY SelftestAligns, MemoryAssumption
<1>2. HP!Align(l) = GRAIN
  BY <1>1 DEF HP!Align, HP!AtLeast
<1>3. HP!Size(l) \in Nat /\ HP!Size(l) % GRAIN = 0 /\ HP!Size(l) >= GRAIN
  BY HP!NormalisedLayout, ArenaAssumption
<1>4. HP!Size(l) = H!Size(l)
  BY DEF HP!Size, HP!NextMultiple, HP!AtLeast, H!Size, H!NextMultiple, H!AtLeast
<1>5. QED
  BY <1>1, <1>2, <1>3, <1>4

LEMMA FixedSizes ==
    /\ Word64 \in SelftestLayouts /\ Block \in SelftestLayouts
    /\ HP!Size(Word64) = GRAIN /\ HP!Size(Block) = 4 * GRAIN
<1>1. GRAIN \in Nat \ {0} /\ GRAIN % GRAIN = 0 /\ (4 * GRAIN) % GRAIN = 0 /\ ~(4 * GRAIN < GRAIN)
  <2>1. GRAIN \in Nat \ {0} /\ 4 * GRAIN \in Nat /\ 4 * GRAIN = GRAIN * 4 /\ GRAIN = GRAIN * 1
    BY MemoryAssumption
  <2>2. QED
    BY <2>1, MultipleIff
<1>2. HP!Size(Word64) = GRAIN
  <2>1. GRAIN \div 2 \in Nat /\ GRAIN \div 2 <= GRAIN /\ Word64.size = GRAIN \div 2
    BY EvenGrain DEF Word64
  <2>2. HP!AtLeast(Word64.size, GRAIN) = GRAIN
    BY <1>1, <2>1 DEF HP!AtLeast
  <2>3. QED
    BY <1>1, <2>2 DEF HP!Size, HP!NextMultiple
<1>3. HP!Size(Block) = 4 * GRAIN
  <2>1. HP!AtLeast(Block.size, GRAIN) = 4 * GRAIN
    BY <1>1 DEF HP!AtLeast, Block, Bytes
  <2>2. QED
    BY <1>1, <2>1 DEF HP!Size, HP!NextMultiple
<1>4. QED
  BY <1>2, <1>3 DEF SelftestLayouts

\* Start-up's heap takes the steps of the heap alone.
LEMMA HeapNames ==
    /\ H!NULL = HP!NULL /\ H!NULL = 0 /\ H!NoReq = HP!NoReq /\ H!Grid = HP!Grid
    /\ \A a, l : H!Payload(a, l) = HP!Payload(a, l)
  BY DEF H!NULL, HP!NULL, H!NoReq, HP!NoReq, H!Grid, HP!Grid, H!End, HP!End, H!Payload, HP!Payload,
     H!NextMultiple, HP!NextMultiple, H!Align, HP!Align, H!AtLeast, HP!AtLeast

LEMMA HeapWalks ==
    /\ H!AllocNext => HP!AllocNext
    /\ H!DeallocNext => HP!DeallocNext
    /\ H!StatNext => HP!StatNext
    /\ H!AllocNull => HP!AllocNull
    /\ H!StatReturn => HP!StatReturn
    /\ \A c, r : H!Enter(c, r) => HP!Enter(c, r)
<1>1. /\ H!AllocNull => HP!AllocNull
      /\ H!StatReturn => HP!StatReturn
  BY DEF H!AllocNull, HP!AllocNull, H!StatReturn, HP!StatReturn, H!Return, HP!Return,
     H!NoReq, HP!NoReq, H!NULL, HP!NULL
<1>2. \A c, r : H!Enter(c, r) => HP!Enter(c, r)
  BY DEF H!Enter, HP!Enter, H!NULL, HP!NULL
<1>3. /\ H!DeallocNext => HP!DeallocNext
      /\ H!StatNext => HP!StatNext
  BY DEF H!DeallocNext, HP!DeallocNext, H!StatNext, HP!StatNext, H!Advance, HP!Advance,
     H!NULL, HP!NULL
<1>4. H!AllocNext => HP!AllocNext
  <2>1. H!Suffices(cur, req.layout) <=> HP!Suffices(cur, req.layout)
    BY ZenonT(60) DEF H!Suffices, HP!Suffices, H!Payload, HP!Payload, H!Size, HP!Size,
       H!Align, HP!Align, H!NextMultiple, HP!NextMultiple, H!AtLeast, HP!AtLeast
  <2>2. QED
    BY <2>1 DEF H!AllocNext, HP!AllocNext, H!Advance, HP!Advance, H!NULL, HP!NULL
<1>5. QED
  BY <1>1, <1>2, <1>3, <1>4

LEMMA HeapCarves == H!AllocCarve => HP!AllocCarve
  BY ZenonT(60) DEF H!AllocCarve, HP!AllocCarve, H!Suffices, HP!Suffices, H!Payload, HP!Payload,
     H!Size, HP!Size, H!WholeBlock, HP!WholeBlock, H!Align, HP!Align,
     H!NextMultiple, HP!NextMultiple, H!AtLeast, HP!AtLeast, H!NULL, HP!NULL,
     H!Return, HP!Return, H!NoReq, HP!NoReq

LEMMA HeapFinishes == H!DeallocFinish => HP!DeallocFinish
  BY DEF H!DeallocFinish, HP!DeallocFinish, H!MergesForward, HP!MergesForward,
     H!MergesBackward, HP!MergesBackward, H!Size, HP!Size,
     H!NextMultiple, HP!NextMultiple, H!AtLeast, HP!AtLeast, H!NULL, HP!NULL,
     H!Return, HP!Return, H!NoReq, HP!NoReq

\* Layouts and names of the calls.
LEMMA HeldLayouts == \A i : \A h \in HeldAt(i) : h.layout \in SelftestLayouts
<1>1. /\ Hold("box", Word64).layout = Word64 /\ Hold("first", Block).layout = Block
      /\ Hold("middle", Block).layout = Block /\ Hold("last", Block).layout = Block
  BY DEF Hold
<1>2. ASSUME NEW caps \in {Growth, Text}, NEW i, NEW h \in Buffers(caps, i)
      PROVE  h.layout \in SelftestLayouts
  <2>1. PICK k \in 1 .. Len(caps) : h = Hold(Buffer(k), Bytes(caps[k]))
    BY DEF Buffers
  <2>2. h.layout = Bytes(caps[k])
    BY <2>1 DEF Hold
  <2>3. k \in DOMAIN caps
    BY MemoryAssumption
  <2>4. QED
    BY <2>2, <2>3 DEF SelftestLayouts
<1>3. QED
  BY <1>1, <1>2, FixedSizes DEF HeldAt

LEMMA CallLayouts ==
    ASSUME NEW i \in 10 .. Len(Script), Script[i].op \in {"alloc", "dealloc"}
    PROVE  Script[i].layout \in SelftestLayouts
<1>1. Accounts(Script[i], HeldAt(i), HeldAt(i + 1))
  BY ScriptAccounts
<1>2. HoldOf(Script[i]).layout = Script[i].layout
  BY DEF HoldOf, Hold
<1>3. QED
  BY <1>1, <1>2, HeldLayouts DEF Accounts

LEMMA CallNames ==
    /\ \A i \in 1 .. Len(Script) : Script[i].name \in Names
    /\ {"first", "again", "a", "b", "heap", "before", "middle"} \subseteq Names
<1>1. DOMAIN Script = 1 .. Len(Script)
  BY ScriptIs
<1>2. \A i \in 1 .. Len(Script) : Script[i].name \in Names
  BY <1>1 DEF Names
<1>3. Len(Script) \in Nat /\ Len(Script) >= BlocksAt + 2 /\ Len(Script) >= 20 /\ BlocksAt + 2 \in 1 .. Len(Script)
  BY ScriptLength
<1>4. /\ Script[1].name = "first" /\ Script[3].name = "again" /\ Script[5].name = "a" /\ Script[6].name = "b"
  BY ScriptIs, SMTT(30) DEF FrameSelftest, Frame
<1>5. Script[9].name = "heap" /\ Script[10].name = "before" /\ Script[BlocksAt + 2].name = "middle"
  BY ScriptIs DEF Frame, Alloc
<1>6. QED
  BY <1>2, <1>3, <1>4, <1>5, SMTT(30)

\* The block each held name stands for.
Held == {[ptr |-> slot[h.name], layout |-> h.layout] : h \in HeldAt(at)}

\* Before every allocation nothing is held, or one block that leaves twice the
\* room; the last of the three adjacent blocks is the exception.
LEMMA ScriptFits ==
    ASSUME NEW i \in 10 .. Len(Script), Script[i].op = "alloc"
    PROVE  LET s == HP!Size(Script[i].layout) IN
           \/ HeldAt(i) = {} /\ s <= HEAP_FRAMES * PAGE
           \/ \E h \in HeldAt(i) : HeldAt(i) = {h} /\ HP!Size(h.layout) + 2 * s <= HEAP_FRAMES * PAGE
           \/ i = BlocksAt + 3
<1> DEFINE g == 2 * Len(Growth)
           t == 2 * Len(Text)
           z == HEAP_FRAMES * PAGE
           s == HP!Size(Script[i].layout)
           Goal == \/ HeldAt(i) = {} /\ s <= z
                   \/ \E h \in HeldAt(i) : HeldAt(i) = {h} /\ HP!Size(h.layout) + 2 * s <= z
                   \/ i = BlocksAt + 3
<1>1. /\ g \in Nat /\ t \in Nat /\ TextAt = 12 + g /\ BlocksAt = 12 + g + t
      /\ GRAIN \in Nat \ {0} /\ z \in Nat /\ 12 * GRAIN <= z
  <2>1. 3 * (4 * GRAIN) <= z
    BY SelftestFits
  <2>2. QED
    BY <2>1, MemoryAssumption, FramesAssumption, ArenaGrid DEF TextAt, BlocksAt
<1>2. ASSUME NEW caps \in {Growth, Text}, NEW j \in 1 .. (2 * Len(caps)),
             HeldAt(i) = Buffers(caps, j), Script[i] = Grow(caps)[j]
      PROVE  Goal
  <2> DEFINE n == Len(caps)
  <2>1. caps \in Seq(Nat \ {0}) /\ n \in Nat
    BY MemoryAssumption
  <2>2. \A k \in 1 .. n : /\ Bytes(caps[k]) \in SelftestLayouts
                          /\ HP!Size(Bytes(caps[k])) = H!Size(Bytes(caps[k]))
    <3>1. \A k \in 1 .. n : Bytes(caps[k]) \in SelftestLayouts
      BY <2>1 DEF SelftestLayouts
    <3>2. QED
      BY <3>1, SelftestSizes
  <2>3. \A k : /\ Alloc(Buffer(k), Bytes(caps[k])).layout = Bytes(caps[k])
               /\ Free(Buffer(k), Bytes(caps[k])).op = "dealloc"
               /\ Hold(Buffer(k), Bytes(caps[k])).layout = Bytes(caps[k])
    BY DEF Alloc, Free, Hold
  <2>4. CASE j = 1
    <3>1. 1 \in 1 .. n
      BY <2>1, <2>4
    <3>2. Script[i].layout = Bytes(caps[1])
      BY <1>2, <2>1, <2>3, <2>4, <3>1, GrowShape
    <3>3. HeldAt(i) = {}
      BY <1>2, <2>1, <2>4, BuffersShape
    <3>4. H!Size(Bytes(caps[1])) <= z
      BY <3>1, SelftestFits
    <3>5. QED
      BY <2>2, <3>1, <3>2, <3>3, <3>4
  <2>5. ASSUME NEW k \in 1 .. n, j = 2 * k, k < n PROVE Goal
    <3>1. k + 1 \in 1 .. n
      BY <2>1, <2>5
    <3>2. Script[i].layout = Bytes(caps[k + 1])
      <4>1. Grow(caps)[2 * k] = Alloc(Buffer(k + 1), Bytes(caps[k + 1]))
        BY <2>1, <2>5, GrowShape
      <4>2. QED
        BY <4>1, <1>2, <2>3, <2>5
    <3>3. HeldAt(i) = {Hold(Buffer(k), Bytes(caps[k]))}
      BY <1>2, <2>1, <2>5, BuffersShape
    <3>4. H!Size(Bytes(caps[k])) + 2 * H!Size(Bytes(caps[k + 1])) <= z
      BY <2>5, SelftestFits
    <3>5. QED
      BY <2>2, <2>3, <3>1, <3>2, <3>3, <3>4
  <2>6. ASSUME NEW k \in 1 .. n, j = 2 * k, k = n PROVE FALSE
    <3>1. Grow(caps)[2 * k] = Free(Buffer(k), Bytes(caps[k]))
      BY <2>1, <2>6, GrowShape
    <3>2. QED
      BY <3>1, <1>2, <2>3, <2>6
  <2>7. ASSUME NEW k \in 1 .. n, j = 2 * k + 1, k < n PROVE FALSE
    <3>1. Grow(caps)[2 * k + 1] = Free(Buffer(k), Bytes(caps[k]))
      BY <2>1, <2>7, GrowShape
    <3>2. QED
      BY <3>1, <1>2, <2>3, <2>7
  <2>8. PICK k \in Nat : j = 2 * k \/ j = 2 * k + 1
    <3>1. j \div 2 \in Nat /\ (j = 2 * (j \div 2) \/ j = 2 * (j \div 2) + 1)
      BY <2>1
    <3>2. QED
      BY <3>1
  <2>9. CASE j # 1
    <3>1. k \in 1 .. n /\ (j = 2 * k + 1 => k < n)
      BY <2>1, <2>8, <2>9
    <3>2. CASE j = 2 * k + 1
      BY <3>1, <3>2, <2>7
    <3>3. CASE j = 2 * k /\ k < n
      BY <3>1, <3>3, <2>5
    <3>4. CASE j = 2 * k /\ k = n
      BY <3>1, <3>4, <2>6
    <3>5. QED
      BY <3>1, <3>2, <3>3, <3>4, <2>1, <2>8
  <2>10. QED
    BY <2>4, <2>9
<1>3. CASE i = 11
  <2>1. HeldAt(i) = {} /\ Script[i].layout = Word64
    BY <1>3, ScriptIs, HeldShape DEF Alloc
  <2>2. QED
    BY <2>1, <1>1, FixedSizes
<1>4. CASE i = BlocksAt + 1
  <2>1. HeldAt(i) = {} /\ Script[i].layout = Block
    BY <1>4, ScriptIs, HeldShape DEF Alloc
  <2>2. QED
    BY <2>1, <1>1, FixedSizes
<1>5. CASE i = BlocksAt + 2
  <2>1. HeldAt(i) = {Hold("first", Block)} /\ Script[i].layout = Block
    BY <1>5, ScriptIs, HeldShape DEF Alloc
  <2>2. Hold("first", Block).layout = Block
    BY DEF Hold
  <2>3. 4 * GRAIN + 2 * (4 * GRAIN) <= z
    BY <1>1, SMTT(30)
  <2>4. QED
    BY <2>1, <2>2, <2>3, FixedSizes
<1>6. ASSUME i \in {10, 12} \/ i \in {BlocksAt + 4, BlocksAt + 5, BlocksAt + 6, BlocksAt + 7, BlocksAt + 8}
      PROVE  FALSE
  <2>1. /\ Script[10].op = "stat" /\ Script[12].op = "dealloc"
        /\ Script[BlocksAt + 4].op = "dealloc" /\ Script[BlocksAt + 5].op = "dealloc"
        /\ Script[BlocksAt + 6].op = "dealloc"
        /\ Script[BlocksAt + 7].op = "stat" /\ Script[BlocksAt + 8].op = "stat"
    BY ScriptIs DEF Frame, Free
  <2>2. QED
    BY <1>6, <2>1
<1>7. CASE 12 < i /\ i <= TextAt
  <2>1. i - 12 \in 1 .. g /\ i - 12 \in 1 .. (g + 1) /\ i = 12 + (i - 12)
    BY <1>1, <1>7
  <2>2. PICK j \in 1 .. g : j = i - 12
    BY <2>1
  <2>3. HeldAt(i) = Buffers(Growth, j) /\ Script[i] = Grow(Growth)[j]
    <3>1. j \in 1 .. (g + 1) /\ i = 12 + j
      BY <2>1, <2>2
    <3>2. HeldAt(12 + j) = Buffers(Growth, j)
      BY <3>1, HeldShape, ZenonT(60)
    <3>3. Script[12 + j] = Grow(Growth)[j]
      BY ScriptIs, ZenonT(60)
    <3>4. QED
      BY <3>1, <3>2, <3>3
  <2>4. QED
    BY <2>3, <1>2
<1>8. CASE TextAt < i /\ i <= BlocksAt
  <2>1. i - TextAt \in 1 .. t /\ i - TextAt \in 1 .. (t + 1) /\ i = TextAt + (i - TextAt)
    BY <1>1, <1>8
  <2>2. PICK j \in 1 .. t : j = i - TextAt
    BY <2>1
  <2>3. HeldAt(i) = Buffers(Text, j) /\ Script[i] = Grow(Text)[j]
    <3>1. j \in 1 .. (t + 1) /\ i = TextAt + j
      BY <2>1, <2>2
    <3>2. HeldAt(TextAt + j) = Buffers(Text, j)
      BY <3>1, HeldShape, ZenonT(60)
    <3>3. Script[TextAt + j] = Grow(Text)[j]
      BY ScriptIs, ZenonT(60)
    <3>4. QED
      BY <3>1, <3>2, <3>3
  <2>4. QED
    BY <2>3, <1>2
<1>9. \/ i \in {10, 11, 12} \/ (12 < i /\ i <= TextAt) \/ (TextAt < i /\ i <= BlocksAt)
      \/ i \in {BlocksAt + 1, BlocksAt + 2, BlocksAt + 3, BlocksAt + 4,
                BlocksAt + 5, BlocksAt + 6, BlocksAt + 7, BlocksAt + 8}
  <2>1. i \in Nat /\ 10 <= i /\ i <= BlocksAt + 8 /\ BlocksAt \in Nat /\ TextAt \in Nat
    BY ScriptLength
  <2>2. i <= 12 => i \in {10, 11, 12}
    BY <2>1
  <2>3. i > BlocksAt => i \in {BlocksAt + 1, BlocksAt + 2, BlocksAt + 3, BlocksAt + 4,
                               BlocksAt + 5, BlocksAt + 6, BlocksAt + 7, BlocksAt + 8}
    BY <2>1
  <2>4. i <= 12 \/ (12 < i /\ i <= TextAt) \/ (TextAt < i /\ i <= BlocksAt) \/ i > BlocksAt
    BY <2>1
  <2> HIDE DEF g, t, z, s, Goal
  <2>5. QED
    BY <2>2, <2>3, <2>4
<1>10. QED
  BY <1>3, <1>4, <1>5, <1>6, <1>7, <1>8, <1>9

\* What start-up's heap is like when it is whole.
LEMMA ArenaFacts ==
    /\ HP!End = PAGE + HEAP_FRAMES * PAGE /\ HP!NULL = 0
    /\ \A a : a \in HP!Grid <=> a \in Nat /\ PAGE <= a /\ a < PAGE + HEAP_FRAMES * PAGE /\ a % GRAIN = 0
  BY HP!GridFacts, ArenaAssumption DEF HP!End, HP!NULL

LEMMA LiveFacts ==
    ASSUME HP!IInv, NEW b \in live
    PROVE  /\ b.ptr \in HP!Grid /\ b.layout \in SelftestLayouts
           /\ b.ptr + HP!Size(b.layout) <= HP!End
  BY DEF HP!IInv, HP!HeapWhole, HP!LiveBlocksOK

\* The allocation that the script makes never meets the end of the free list.
LEMMA NeverNull ==
    ASSUME HP!IInv, HP!AllocNull, at \in 10 .. Len(Script), live = Held,
           Op.op = "alloc", req.layout = Op.layout,
           at = BlocksAt + 3 => slot["first"] = PAGE /\ slot["middle"] = PAGE + 4 * GRAIN
    PROVE  FALSE
<1> DEFINE z == HEAP_FRAMES * PAGE
           l == req.layout
           s == HP!Size(l)
<1>1. /\ PAGE \in Nat \ {0} /\ GRAIN \in Nat \ {0} /\ PAGE % GRAIN = 0 /\ z \in Nat /\ 12 * GRAIN <= z
  <2>1. 3 * (4 * GRAIN) <= z
    BY SelftestFits
  <2>2. QED
    BY <2>1, MemoryAssumption, FramesAssumption, ArenaGrid
<1>2. l \in SelftestLayouts /\ s \in Nat \ {0} /\ HP!Align(l) = GRAIN /\ s % GRAIN = 0
  <2>1. l \in SelftestLayouts
    BY CallLayouts DEF Op
  <2>2. QED
    BY <2>1, SelftestSizes
<1> HIDE DEF z, l, s
<1>3. ASSUME NEW q \in Nat, PAGE <= q, q % GRAIN = 0, q + s <= PAGE + z,
             \A b \in live : HP!Before(q, s, b.ptr, HP!Size(b.layout))
      PROVE  FALSE
  <2>1. q \in HP!Grid /\ q + HP!Size(req.layout) <= HP!End /\ q % HP!Align(req.layout) = 0
    BY <1>1, <1>2, <1>3, ArenaFacts, SMTT(30) DEF z, l, s
  <2>2. \A b \in live : HP!Before(q, HP!Size(req.layout), b.ptr, HP!Size(b.layout))
    BY <1>3 DEF l, s
  <2>3. QED
    BY <2>1, <2>2, HP!NullStepIsFull, ArenaAssumption
<1>4. CASE HeldAt(at) = {} /\ s <= z
  <2>1. live = {}
    BY <1>4 DEF Held
  <2>2. QED
    BY <2>1, <1>1, <1>2, <1>3, <1>4
<1>5. ASSUME NEW h \in HeldAt(at), HeldAt(at) = {h}, HP!Size(h.layout) + 2 * s <= z
      PROVE  FALSE
  <2> DEFINE b == [ptr |-> slot[h.name], layout |-> h.layout]
             p == b.ptr
             m == HP!Size(b.layout)
  <2>1. live = {b}
    BY <1>5 DEF Held
  <2>2. p \in HP!Grid /\ b.layout \in SelftestLayouts /\ p + m <= HP!End /\ b.layout = h.layout
    BY <2>1, LiveFacts
  <2>3. /\ p \in Nat /\ PAGE <= p /\ p % GRAIN = 0 /\ p + m <= PAGE + z
        /\ m \in Nat /\ m % GRAIN = 0 /\ m + 2 * s <= z
    BY <1>5, <2>2, SelftestSizes, ArenaFacts DEF z
  <2> HIDE DEF p, m
  <2>4. CASE PAGE + s <= p
    <3>1. HP!Before(PAGE, s, p, m)
      BY <2>4 DEF HP!Before
    <3>2. \A c \in live : HP!Before(PAGE, s, c.ptr, HP!Size(c.layout))
      BY <2>1, <3>1 DEF p, m
    <3>3. PAGE + s <= PAGE + z
      BY <1>1, <1>2, <2>3, SMTT(30)
    <3>4. QED
      BY <3>2, <3>3, <1>1, <1>3
  <2>5. CASE p < PAGE + s
    <3>1. p + m \in Nat /\ PAGE <= p + m /\ (p + m) + s <= PAGE + z
      BY <1>1, <1>2, <2>3, <2>5
    <3>2. (p + m) % GRAIN = 0
      BY <1>1, <2>3, MultipleSum
    <3>3. HP!Before(p + m, s, p, m)
      BY <2>3 DEF HP!Before
    <3>4. \A c \in live : HP!Before(p + m, s, c.ptr, HP!Size(c.layout))
      BY <2>1, <3>3 DEF p, m
    <3>5. QED
      BY <3>1, <3>2, <3>4, <1>3
  <2>6. QED
    BY <2>3, <2>4, <2>5, <1>1, <1>2
<1>6. CASE at = BlocksAt + 3
  <2>1. HeldAt(at) = {Hold("first", Block), Hold("middle", Block)} /\ Op.layout = Block
    BY <1>6, ScriptIs, HeldShape DEF Op, Alloc
  <2>2. live = {[ptr |-> PAGE, layout |-> Block], [ptr |-> PAGE + 4 * GRAIN, layout |-> Block]}
    BY <2>1, <1>6 DEF Held, Hold
  <2>3. s = 4 * GRAIN /\ HP!Size(Block) = 4 * GRAIN
    BY <2>1, FixedSizes DEF s, l
  <2>4. PICK q \in Nat : q = PAGE + 8 * GRAIN
    BY <1>1
  <2>5. PAGE <= q /\ q + s <= PAGE + z
    BY <1>1, <2>3, <2>4
  <2>6. q % GRAIN = 0
    <3>1. 8 * GRAIN \in Nat /\ 8 * GRAIN = GRAIN * 8
      BY <1>1
    <3>2. (8 * GRAIN) % GRAIN = 0
      BY <3>1, <1>1, MultipleIff
    <3>3. PICK w \in Nat : w = 8 * GRAIN /\ w % GRAIN = 0
      BY <3>1, <3>2
    <3>4. PAGE \in Nat /\ PAGE % GRAIN = 0 /\ GRAIN \in Nat \ {0}
      BY <1>1
    <3>5. (PAGE + w) % GRAIN = 0
      BY <3>3, <3>4, MultipleSum
    <3>6. QED
      BY <2>4, <3>3, <3>5
  <2>7. HP!Before(q, s, PAGE, 4 * GRAIN) /\ HP!Before(q, s, PAGE + 4 * GRAIN, 4 * GRAIN)
    BY <1>1, <2>4 DEF HP!Before
  <2>8. QED
    BY <2>2, <2>3, <2>5, <2>6, <2>7, <1>3
<1>7. QED
  BY <1>4, <1>5, <1>6, ScriptFits DEF z, s, l, Op

\* The three adjacent blocks are adjacent: first fit puts the first at the
\* start of the arena and the second after it.
LEMMA FirstBlockIsLowest ==
    ASSUME HP!IInv, HP!AllocCarve, at = BlocksAt + 1, live = Held, req.layout = Op.layout
    PROVE  HP!Payload(cur, req.layout) = PAGE
<1>1. /\ PAGE \in Nat \ {0} /\ GRAIN \in Nat \ {0} /\ PAGE % GRAIN = 0 /\ HEAP_FRAMES * PAGE \in Nat
      /\ 12 * GRAIN <= HEAP_FRAMES * PAGE
  <2>1. 3 * (4 * GRAIN) <= HEAP_FRAMES * PAGE
    BY SelftestFits
  <2>2. QED
    BY <2>1, MemoryAssumption, FramesAssumption, ArenaGrid
<1>2. live = {} /\ req.layout = Block
  BY ScriptIs, HeldShape DEF Op, Alloc, Held
<1>3. HP!Size(req.layout) = 4 * GRAIN /\ HP!Align(req.layout) = GRAIN
  BY <1>2, FixedSizes, SelftestSizes
<1>4. PAGE \in HP!Grid /\ PAGE + HP!Size(req.layout) <= HP!End
  BY <1>1, <1>3, ArenaFacts
<1>5. HP!Payload(cur, req.layout) <= PAGE
  BY <1>1, <1>2, <1>3, <1>4, HP!CarveIsLowest, ArenaAssumption
<1>6. HP!Payload(cur, req.layout) \in HP!Grid
  BY HP!CarveIsClear, ArenaAssumption
<1>7. QED
  BY <1>1, <1>5, <1>6, ArenaFacts

LEMMA SecondBlockFollows ==
    ASSUME HP!IInv, HP!AllocCarve, at = BlocksAt + 2, live = Held, req.layout = Op.layout,
           slot["first"] = PAGE
    PROVE  HP!Payload(cur, req.layout) = PAGE + 4 * GRAIN
<1> DEFINE p == HP!Payload(cur, req.layout)
<1>1. /\ PAGE \in Nat \ {0} /\ GRAIN \in Nat \ {0} /\ PAGE % GRAIN = 0 /\ HEAP_FRAMES * PAGE \in Nat
      /\ 12 * GRAIN <= HEAP_FRAMES * PAGE
  <2>1. 3 * (4 * GRAIN) <= HEAP_FRAMES * PAGE
    BY SelftestFits
  <2>2. QED
    BY <2>1, MemoryAssumption, FramesAssumption, ArenaGrid
<1>2. live = {[ptr |-> PAGE, layout |-> Block]} /\ req.layout = Block
  <2>1. HeldAt(at) = {Hold("first", Block)} /\ Op.layout = Block
    BY ScriptIs, HeldShape DEF Op, Alloc
  <2>2. Hold("first", Block).name = "first" /\ Hold("first", Block).layout = Block
    BY DEF Hold
  <2>3. \A b : b \in live <=> b = [ptr |-> PAGE, layout |-> Block]
    BY <2>1, <2>2 DEF Held
  <2>4. QED
    BY <2>1, <2>3
<1>3. HP!Size(req.layout) = 4 * GRAIN /\ HP!Size(Block) = 4 * GRAIN /\ HP!Align(req.layout) = GRAIN
  BY <1>2, FixedSizes, SelftestSizes
<1>4. PICK q \in Nat : q = PAGE + 4 * GRAIN
  BY <1>1
<1>5. q % GRAIN = 0
  <2>1. 4 * GRAIN \in Nat /\ 4 * GRAIN = GRAIN * 4
    BY <1>1
  <2>2. (4 * GRAIN) % GRAIN = 0
    BY <2>1, <1>1, MultipleIff
  <2>3. QED
    BY <2>1, <2>2, <1>1, <1>4, MultipleSum
<1>6. q \in HP!Grid /\ q + HP!Size(req.layout) <= HP!End
  BY <1>1, <1>3, <1>4, <1>5, ArenaFacts
<1>7. \A b \in live : HP!Before(q, HP!Size(req.layout), b.ptr, HP!Size(b.layout))
  BY <1>1, <1>2, <1>3, <1>4 DEF HP!Before
<1>8. p <= q
  BY <1>3, <1>5, <1>6, <1>7, HP!CarveIsLowest, ArenaAssumption
<1>9. p \in HP!Grid /\ \A b \in live : HP!Before(b.ptr, HP!Size(b.layout), p, HP!Size(req.layout))
  BY HP!CarveIsClear, ArenaAssumption
<1> HIDE DEF p
<1>10. p \in Nat /\ PAGE <= p /\ HP!Before(PAGE, 4 * GRAIN, p, 4 * GRAIN)
  BY <1>2, <1>3, <1>9, ArenaFacts
<1>11. p = q
  BY <1>1, <1>4, <1>8, <1>10 DEF HP!Before
<1>12. QED
  BY <1>4, <1>11 DEF p

-----------------------------------------------------------------------------
(* Where start-up is *)

\* A call in progress is the one the script has come to.
Control ==
    /\ at \in Nat \ {0} /\ verdict \in {"none", "Failed"} /\ DOMAIN slot = Names
    /\ hpc \in {"idle", "alloc", "dealloc", "stat"}
    /\ pc = "boot" => verdict = "none" /\ at = 1
    /\ pc = "fatal" => verdict = "Failed"
    /\ Starting => /\ pc = "frame" => Op.op = "alloc_frame"
                   /\ pc = "contiguous" => Op.op = "heap_init"
                   /\ hpc # "idle" => hpc = Op.op
    /\ Up => hpc = "idle"

LEMMA ControlInit == MemoryInit => Control
<1> SUFFICES ASSUME MemoryInit PROVE Control
  OBVIOUS
<1>1. Len(Script) \in Nat /\ 1 <= Len(Script)
  BY ScriptLength
<1>2. QED
  BY <1>1 DEF MemoryInit, Init, Control, Starting, Up

LEMMA ControlStep ==
    ASSUME Control, [MemoryNext]_everything
    PROVE  Control'
<1>1. /\ at \in Nat \ {0} /\ verdict \in {"none", "Failed"} /\ DOMAIN slot = Names
      /\ Len(Script) \in Nat /\ Script[1].op = "alloc_frame" /\ 1 <= Len(Script)
  BY ScriptIs DEF Control, FrameSelftest, Frame
<1>2. CASE UNCHANGED <<at, slot, verdict, pc, hpc>>
  BY <1>2 DEF Control, Starting, Up, Op
<1>3. ASSUME verdict' \in {"none", "Failed"}, at' = at + 1, pc' = "idle" \/ pc' = pc, hpc' = "idle",
             pc \notin {"boot", "fatal", "frame", "contiguous"} \/ pc' = "idle",
             \E n, v : slot' = [slot EXCEPT ![n] = v]
      PROVE  Control'
  <2>1. DOMAIN slot' = Names
    BY <1>1, <1>3
  <2>2. pc' \notin {"boot", "fatal", "frame", "contiguous"} /\ at' \in Nat \ {0}
    BY <1>1, <1>3
  <2>3. QED
    BY <1>3, <2>1, <2>2 DEF Control
<1>4. \A v, e : Returned(v, e) => /\ verdict' \in {"none", "Failed"} /\ at' = at + 1
                                  /\ \E n, w : slot' = [slot EXCEPT ![n] = w]
  BY DEF Returned
<1>5. CASE FrameInit /\ UNCHANGED <<heap, at, slot>>
  <2>1. UNCHANGED <<at, slot, hpc>> /\ pc = "boot"
    BY <1>5 DEF heap, FrameInit, Seed, SeedFails
  <2>2. CASE pc' = "idle" /\ verdict' = verdict
    BY <1>1, <2>1, <2>2 DEF Control, Starting, Up, Op
  <2>3. CASE pc' = "fatal" /\ verdict' = "Failed"
    BY <1>1, <2>1, <2>3 DEF Control, Starting, Up
  <2>4. QED
    BY <1>5, <2>2, <2>3 DEF FrameInit, Seed, SeedFails
<1>6. CASE FrameCall
  <2>1. hpc = "idle" /\ hpc' = "idle" /\ pc = "idle" /\ Starting
    BY <1>6 DEF FrameCall, Calling, heap
  <2>2. CASE Calling("alloc_frame") /\ AllocPop /\ Returned(free, Expected(free))
    BY <2>1, <2>2, <1>3, <1>4 DEF AllocPop
  <2>3. CASE Calling("alloc_frame") /\ AllocBump /\ Within
    BY <1>1, <2>1, <2>3 DEF Calling, AllocBump, Within, Control, Starting, Up, Op
  <2>4. CASE Calling("dealloc_frame") /\ Dealloc(slot[Op.name]) /\ Returned(slot[Op.name], TRUE)
    BY <2>1, <2>4, <1>3, <1>4 DEF Dealloc
  <2>5. CASE Calling("heap_init") /\ ContiguousCall(HEAP_FRAMES) /\ Within
    BY <1>1, <2>1, <2>5 DEF Calling, ContiguousCall, Within, Control, Starting, Up, Op
  <2>6. QED
    BY <1>6, <2>2, <2>3, <2>4, <2>5 DEF FrameCall
<1>7. CASE FrameStep
  <2>1. pc \in {"frame", "contiguous"} /\ Starting
    BY <1>7 DEF FrameStep, BumpTake, BumpNone, BumpPanic, BumpStrand, BumpNextRun
  <2>2. hpc = "idle"
    BY <2>1 DEF Control
  <2>3. hpc' = "idle"
    BY <1>7, <2>2 DEF FrameStep, heap
  <2>4. CASE BumpTake /\ Returned(cursor, Expected(cursor))
    BY <2>1, <2>3, <2>4, <1>3, <1>4 DEF BumpTake
  <2>5. CASE BumpNone /\ Returned(NONE, FALSE)
    BY <2>1, <2>3, <2>5, <1>3, <1>4 DEF BumpNone
  <2>6. CASE BumpPanic /\ Panic
    BY <1>1, <2>1, <2>3, <2>6 DEF BumpPanic, Panic, Control, Starting, Up
  <2>7. CASE (BumpStrand \/ BumpNextRun) /\ Within
    BY <1>2, <2>2, <2>3, <2>7 DEF BumpStrand, BumpNextRun, Within
  <2>8. QED
    BY <1>7, <2>4, <2>5, <2>6, <2>7 DEF FrameStep
<1>8. CASE HeapCall
  <2>1. pc = "idle" /\ hpc = "idle" /\ Starting /\ UNCHANGED <<pc, at, slot, verdict>>
        /\ hpc' = Op.op /\ hpc' \in {"alloc", "dealloc", "stat"}
    BY <1>8 DEF HeapCall, Calling, Within, H!Enter, H!StatCall, vars
  <2>2. QED
    BY <1>1, <2>1 DEF Control, Starting, Up, Op
<1>9. CASE HeapStep
  <2>1. hpc \in {"alloc", "dealloc", "stat"} /\ Starting /\ pc' = pc
    BY <1>9 DEF HeapStep, vars, H!AllocNext, H!DeallocNext, H!StatNext, H!AllocCarve, H!AllocNull,
       H!DeallocFinish, H!StatReturn
  <2>2. pc \notin {"boot", "fatal", "frame", "contiguous"}
    BY <1>1, <2>1 DEF Control, Starting, Op
  <2>3. CASE (H!AllocNext \/ H!DeallocNext \/ H!StatNext) /\ Within
    BY <2>1, <2>3, <1>2 DEF H!AllocNext, H!DeallocNext, H!StatNext, H!Advance, Within
  <2>4. CASE H!AllocNull /\ Panic
    BY <1>1, <2>1, <2>2, <2>4 DEF H!AllocNull, H!Return, Panic, Control, Starting, Up
  <2>5. CASE \/ H!AllocCarve /\ Returned(H!Payload(cur, req.layout), TRUE)
             \/ H!DeallocFinish /\ Returned(req.ptr, TRUE)
             \/ /\ H!StatReturn
                /\ Returned(total, /\ Op.name = "bytes" => total = slot["before"]
                                   /\ Op.name = "blocks" => count = 1)
    <3>1. hpc' = "idle"
      BY <2>5 DEF H!AllocCarve, H!DeallocFinish, H!StatReturn, H!Return
    <3>2. QED
      BY <2>1, <2>2, <2>5, <3>1, <1>3, <1>4
  <2>6. QED
    BY <1>9, <2>3, <2>4, <2>5 DEF HeapStep
<1>10. CASE UpStep \/ UpBump
  <2>1. Up /\ UNCHANGED <<at, slot, verdict, hpc>> /\ pc' \notin {"boot", "fatal"}
    BY <1>10 DEF UpStep, UpBump, heap, Client, AllocPop, AllocBump, ClientWrite, ContiguousCall, Dealloc,
       Bump, BumpTake, BumpStrand, BumpPanic, BumpNextRun, BumpNone
  <2>2. ~Starting'
    BY <1>1, <2>1 DEF Up, Starting
  <2>3. QED
    BY <1>1, <2>1, <2>2 DEF Control, Up
<1>11. CASE Stopped \/ UNCHANGED everything
  BY <1>2, <1>11 DEF Stopped, everything, vars, heap
<1>12. QED
  BY <1>5, <1>6, <1>7, <1>8, <1>9, <1>10, <1>11 DEF MemoryNext

-----------------------------------------------------------------------------
(* The heap's half of start-up *)

Unarmed ==
    /\ head = HP!NULL /\ \E v \in HeapJunk : mem = [a \in HP!Grid |-> v]
    /\ live = {} /\ hpc = "idle" /\ req = HP!NoReq
    /\ prev = HP!NULL /\ cur = HP!NULL /\ total = 0 /\ count = 0

\* What free_bytes returns while nothing is allocated.
ArenaBytes == HP!Cardinality(HP!Grid) * GRAIN

\* From heap::init on the heap is whole, what is live is what the script
\* holds, and no two names share a block.
Armed ==
    /\ HP!IInv /\ HP!StatInv /\ live = Held
    /\ \A h \in HeldAt(at) : h.name \in Names
    /\ \A h, k \in HeldAt(at) : h # k => slot[h.name] # slot[k.name]
    /\ hpc = "alloc" => req.layout = Op.layout
    /\ hpc = "dealloc" => req = [ptr |-> slot[Op.name], layout |-> Op.layout]
    /\ at > 10 => slot["before"] = ArenaBytes
    /\ at = BlocksAt + 2 \/ at = BlocksAt + 3 => slot["first"] = PAGE
    /\ at = BlocksAt + 3 => slot["middle"] = PAGE + 4 * GRAIN

HeapScript == (at <= 9 => Unarmed) /\ (at > 9 => Armed)

LEMMA HeapKeeps ==
    ASSUME HP!IInv, HP!StatInv, [HP!Next]_HP!vars
    PROVE  HP!IInv' /\ HP!StatInv'
  BY HP!StepWhole, HP!StatStep, ArenaAssumption

LEMMA HeapArms ==
    ASSUME Unarmed, head' = PAGE, UNCHANGED <<live, hpc, req, prev, cur, total, count>>,
           mem' = [mem EXCEPT ![PAGE] = [size |-> HEAP_FRAMES * PAGE, next |-> H!NULL]]
    PROVE  HP!IInv' /\ HP!StatInv' /\ live' = {}
<1>1. PICK v \in HeapJunk : mem = [a \in HP!Grid |-> v]
  BY DEF Unarmed
<1>2. PAGE \in HP!Grid
  BY HP!GridFacts, ArenaAssumption
<1>3. mem' = [a \in HP!Grid |-> IF a = PAGE THEN [size |-> HEAP_FRAMES * PAGE, next |-> HP!NULL] ELSE v]
  BY <1>1, <1>2, HeapNames
<1>4. HP!Init'
  BY <1>3 DEF Unarmed, HP!Init
<1>5. (HP!Init => HP!IInv)'
  BY HP!InitWhole, ArenaAssumption, PTL
<1>6. QED
  BY <1>4, <1>5 DEF Unarmed, HP!StatInv

\* Which half of the script a call belongs to.
LEMMA CallPlaces ==
    /\ \A i \in 1 .. 8 : Script[i].op \in {"alloc_frame", "dealloc_frame"}
    /\ Script[9].op = "heap_init" /\ Script[10].op = "stat" /\ Script[10].name = "before"
    /\ \A i \in 10 .. Len(Script) : Script[i].op \in {"alloc", "dealloc", "stat"}
<1>1. \A i \in 1 .. 8 : FrameSelftest[i].op \in {"alloc_frame", "dealloc_frame"}
  BY DEF FrameSelftest, Frame
<1>2. \A i \in 1 .. 8 : Script[i].op \in {"alloc_frame", "dealloc_frame"}
  BY <1>1, ScriptIs
<1>3. Script[9] = Frame("heap_init", "heap") /\ Script[10] = Frame("stat", "before")
  BY ScriptIs, Zenon
<1>4. Script[9].op = "heap_init" /\ Script[10].op = "stat" /\ Script[10].name = "before"
  BY <1>3 DEF Frame
<1>5. \A i \in 10 .. Len(Script) : Script[i].op \in {"alloc", "dealloc", "stat"}
  BY ScriptAccounts DEF Accounts
<1>6. QED
  BY <1>2, <1>4, <1>5

LEMMA HeapUntouched ==
    ASSUME HeapScript, UNCHANGED <<heap, at, slot>>
    PROVE  HeapScript'
<1>1. Unarmed => Unarmed'
  BY DEF Unarmed, heap
<1>2. [HP!Next]_HP!vars
  BY DEF HP!vars, HP!regs, heap
<1>3. ASSUME Armed PROVE Armed'
  <2>1. HP!IInv' /\ HP!StatInv'
    BY <1>2, <1>3, HeapKeeps DEF Armed
  <2>2. QED
    BY <1>3, <2>1 DEF Armed, Held, Op, heap
<1>4. QED
  BY <1>1, <1>3 DEF HeapScript

\* An allocation: what it carves becomes held, under its name.
LEMMA CarveHolds ==
    ASSUME Control, Armed, Starting, at > 9, HP!AllocCarve, Returned(HP!Payload(cur, req.layout), TRUE)
    PROVE  Armed'
<1> DEFINE p == HP!Payload(cur, req.layout)
           n == Op.name
<1>1. at \in 10 .. Len(Script) /\ at \in Nat /\ at' = at + 1
  BY ScriptLength DEF Control, Starting, Returned
<1>2. hpc = "alloc" /\ Op.op = "alloc" /\ req.layout = Op.layout /\ Op.layout \in SelftestLayouts
  <2>1. hpc = "alloc" /\ Op.op = "alloc" /\ req.layout = Op.layout
    BY DEF HP!AllocCarve, Control, Armed
  <2>2. QED
    BY <1>1, <2>1, CallLayouts DEF Op
<1>3. /\ HeldAt(at') = HeldAt(at) \cup {Hold(n, Op.layout)}
      /\ \A h \in HeldAt(at) : h.name # n
  BY <1>1, <1>2, ScriptAccounts DEF Accounts, HoldOf, Op
<1>4. /\ DOMAIN slot = Names /\ n \in Names /\ slot' = [slot EXCEPT ![n] = p]
      /\ hpc' = "idle" /\ live' = live \cup {[ptr |-> p, layout |-> Op.layout]}
  BY <1>1, <1>2, CallNames DEF Control, Returned, Op, HP!AllocCarve, HP!Return
<1>5. HP!IInv' /\ HP!StatInv'
  BY HeapKeeps DEF Armed, HP!Next, HP!Step
<1>6. /\ \A h \in HeldAt(at) : h.name \in Names /\ slot'[h.name] = slot[h.name]
      /\ slot'[n] = p
  BY <1>3, <1>4 DEF Armed
<1>7. Hold(n, Op.layout).name = n /\ Hold(n, Op.layout).layout = Op.layout
  BY DEF Hold
<1>8. live' = Held'
  <2>1. live = {[ptr |-> slot[h.name], layout |-> h.layout] : h \in HeldAt(at)}
    BY DEF Armed, Held
  <2>2. Held' = {[ptr |-> slot'[h.name], layout |-> h.layout] : h \in HeldAt(at')}
    BY DEF Held
  <2> HIDE DEF n, p
  <2>3. live' \subseteq Held'
    BY <1>3, <1>4, <1>6, <1>7, <2>1, <2>2
  <2>4. Held' \subseteq live'
    BY <1>3, <1>4, <1>6, <1>7, <2>1, <2>2
  <2>5. QED
    BY <2>3, <2>4
<1>9. \A h \in HeldAt(at) : slot[h.name] # p
  <2> SUFFICES ASSUME NEW h \in HeldAt(at) PROVE slot[h.name] # p
    OBVIOUS
  <2> DEFINE b == [ptr |-> slot[h.name], layout |-> h.layout]
  <2>1. b \in live
    BY DEF Armed, Held
  <2>2. HP!Before(b.ptr, HP!Size(b.layout), p, HP!Size(req.layout)) /\ p \in HP!Grid
    BY <2>1, HP!CarveIsClear, ArenaAssumption DEF Armed
  <2>3. /\ b.ptr \in Nat /\ p \in Nat
        /\ HP!Size(b.layout) \in Nat \ {0} /\ HP!Size(req.layout) \in Nat \ {0}
    BY <1>2, <2>1, <2>2, LiveFacts, SelftestSizes, ArenaFacts DEF Armed
  <2>4. b.ptr # p
    BY <2>2, <2>3 DEF HP!Before
  <2>5. QED
    BY <2>4
<1>10. /\ \A h \in HeldAt(at') : h.name \in Names
       /\ \A h, k \in HeldAt(at') : h # k => slot'[h.name] # slot'[k.name]
  <2>1. \A h, k \in HeldAt(at) : h # k => slot'[h.name] # slot'[k.name]
    BY <1>6 DEF Armed
  <2> HIDE DEF n, p
  <2>2. QED
    BY <1>3, <1>4, <1>6, <1>7, <1>9, <2>1
<1>11. slot'["before"] = ArenaBytes
  <2>1. at # 10
    BY <1>2, CallPlaces DEF Op
  <2>2. n # "before"
    <3>1. Hold(n, Op.layout) \in HeldAt(at + 1)
      BY <1>1, <1>3
    <3>2. n \in {"box", "odd", "even", "first", "middle", "last"}
      BY <1>7, <3>1 DEF HeldAt, Buffers, Hold, Buffer
    <3>3. QED
      BY <3>2
  <2>3. QED
    BY <1>1, <1>4, <2>1, <2>2, CallNames DEF Armed
<1>12. at' = BlocksAt + 2 => slot'["first"] = PAGE
  <2> SUFFICES ASSUME at' = BlocksAt + 2 PROVE slot'["first"] = PAGE
    OBVIOUS
  <2>1. at = BlocksAt + 1
    <3>1. BlocksAt \in Nat
      BY ScriptLength
    <3>2. QED
      BY <1>1, <3>1
  <2>2. n = "first" /\ p = PAGE
    <3>1. n = "first"
      BY <2>1, ScriptIs DEF Op, Alloc
    <3>2. HP!IInv /\ live = Held
      BY DEF Armed
    <3>3. p = PAGE
      BY <1>2, <2>1, <3>2, FirstBlockIsLowest
    <3>4. QED
      BY <3>1, <3>3
  <2>3. QED
    BY <1>6, <2>2
<1>13. at' = BlocksAt + 3 => slot'["first"] = PAGE /\ slot'["middle"] = PAGE + 4 * GRAIN
  <2> SUFFICES ASSUME at' = BlocksAt + 3 PROVE slot'["first"] = PAGE /\ slot'["middle"] = PAGE + 4 * GRAIN
    OBVIOUS
  <2>1. at = BlocksAt + 2 /\ slot["first"] = PAGE
    <3>1. BlocksAt \in Nat
      BY ScriptLength
    <3>2. at = BlocksAt + 2
      BY <1>1, <3>1
    <3>3. QED
      BY <3>2 DEF Armed
  <2>2. n = "middle" /\ p = PAGE + 4 * GRAIN
    <3>1. n = "middle"
      BY <2>1, ScriptIs DEF Op, Alloc
    <3>2. HP!IInv /\ live = Held
      BY DEF Armed
    <3>3. p = PAGE + 4 * GRAIN
      BY <1>2, <2>1, <3>2, SecondBlockFollows
    <3>4. QED
      BY <3>1, <3>3
  <2>3. QED
    BY <1>4, <1>6, <2>1, <2>2, CallNames
<1>14. QED
  BY <1>4, <1>5, <1>8, <1>10, <1>11, <1>12, <1>13 DEF Armed

\* A free: what its name holds is held no more.
LEMMA FinishReleases ==
    ASSUME Control, Armed, Starting, at > 9, HP!DeallocFinish, Returned(req.ptr, TRUE)
    PROVE  Armed'
<1> DEFINE n == Op.name
           d == Hold(n, Op.layout)
<1>1. at \in 10 .. Len(Script) /\ at \in Nat /\ at' = at + 1
  BY ScriptLength DEF Control, Starting, Returned
<1>2. hpc = "dealloc" /\ Op.op = "dealloc" /\ req = [ptr |-> slot[n], layout |-> Op.layout]
  BY DEF HP!DeallocFinish, Control, Armed
<1>3. d \in HeldAt(at) /\ HeldAt(at') = HeldAt(at) \ {d}
  BY <1>1, <1>2, ScriptAccounts DEF Accounts, HoldOf, Op
<1>4. /\ DOMAIN slot = Names /\ n \in Names /\ slot' = [slot EXCEPT ![n] = slot[n]]
      /\ hpc' = "idle" /\ live' = live \ {req}
  BY <1>1, <1>2, CallNames DEF Control, Returned, Op, HP!DeallocFinish, HP!Return
<1>5. HP!IInv' /\ HP!StatInv'
  BY HeapKeeps DEF Armed, HP!Next, HP!Step
<1>6. \A m \in Names : slot'[m] = slot[m]
  BY <1>4
<1>7. d.name = n /\ d.layout = Op.layout
  BY DEF Hold
<1>8. live' = Held'
  <2>1. live = {[ptr |-> slot[h.name], layout |-> h.layout] : h \in HeldAt(at)}
    BY DEF Armed, Held
  <2>2. Held' = {[ptr |-> slot'[h.name], layout |-> h.layout] : h \in HeldAt(at')}
    BY DEF Held
  <2>3. /\ \A h \in HeldAt(at) : h.name \in Names /\ slot'[h.name] = slot[h.name]
        /\ \A h \in HeldAt(at) : h # d => slot[h.name] # slot[n]
    BY <1>3, <1>6, <1>7 DEF Armed
  <2> HIDE DEF n, d
  <2>4. live' \subseteq Held'
    <3> SUFFICES ASSUME NEW b \in live, b # req PROVE b \in Held'
      BY <1>4
    <3>1. PICK h \in HeldAt(at) : b = [ptr |-> slot[h.name], layout |-> h.layout]
      BY <2>1
    <3>2. h # d
      BY <1>2, <1>7, <3>1 DEF n
    <3>3. QED
      BY <1>3, <2>2, <2>3, <3>1, <3>2
  <2>5. Held' \subseteq live'
    <3> SUFFICES ASSUME NEW h \in HeldAt(at') PROVE [ptr |-> slot'[h.name], layout |-> h.layout] \in live'
      BY <2>2
    <3>1. h \in HeldAt(at) /\ h # d
      BY <1>3
    <3>2. slot'[h.name] = slot[h.name] /\ slot[h.name] # slot[n]
      BY <2>3, <3>1
    <3>3. [ptr |-> slot[h.name], layout |-> h.layout] # req
      BY <1>2, <3>2 DEF n
    <3>4. QED
      BY <1>4, <2>1, <3>1, <3>2, <3>3
  <2>6. QED
    BY <2>4, <2>5
<1>9. /\ \A h \in HeldAt(at') : h.name \in Names
      /\ \A h, k \in HeldAt(at') : h # k => slot'[h.name] # slot'[k.name]
  <2>1. HeldAt(at') \subseteq HeldAt(at)
    BY <1>3
  <2>2. QED
    BY <2>1, <1>6 DEF Armed
<1>10. slot'["before"] = ArenaBytes
  <2>1. at # 10
    BY <1>2, CallPlaces DEF Op
  <2>2. QED
    BY <1>1, <1>6, <2>1, CallNames DEF Armed
<1>11. at' # BlocksAt + 2 /\ at' # BlocksAt + 3
  <2>1. Script[BlocksAt + 1].op = "alloc" /\ Script[BlocksAt + 2].op = "alloc"
    BY ScriptIs DEF Alloc
  <2>2. at # BlocksAt + 1 /\ at # BlocksAt + 2
    BY <1>2, <2>1 DEF Op
  <2>3. QED
    BY <1>1, <2>2, ScriptLength
<1>12. QED
  BY <1>4, <1>5, <1>8, <1>9, <1>10, <1>11 DEF Armed

\* The statistics are taken with nothing held, so they are the same each time.
LEMMA StatsAgree ==
    ASSUME Control, Armed, Starting, at > 9, HP!StatReturn
    PROVE  /\ Op.op = "stat" /\ HeldAt(at) = {} /\ HeldAt(at + 1) = {}
           /\ total = ArenaBytes /\ count = 1
           /\ Op.name = "bytes" => total = slot["before"]
<1>1. at \in 10 .. Len(Script)
  BY ScriptLength DEF Control, Starting
<1>2. hpc = "stat" /\ cur = HP!NULL /\ Op.op = "stat"
  BY DEF HP!StatReturn, Control
<1>3. HeldAt(at) = {} /\ HeldAt(at + 1) = {}
  BY <1>1, <1>2, ScriptAccounts DEF Accounts, Op
<1>4. live = {}
  BY <1>3 DEF Armed, Held
<1>5. total = ArenaBytes /\ count = 1
  <2>1. HP!IInv /\ HP!StatInv
    BY DEF Armed
  <2>2. QED
    BY <1>2, <1>4, <2>1, HP!EmptyWalkCounts, ArenaAssumption DEF ArenaBytes
<1>6. Op.name = "bytes" => at > 10
  <2>1. Script[10].name = "before"
    BY CallPlaces
  <2>2. Op.name = "bytes" => at # 10
    BY <2>1 DEF Op
  <2>3. QED
    BY <1>1, <2>2
<1>7. QED
  BY <1>2, <1>3, <1>5, <1>6 DEF Armed

LEMMA StatReturns ==
    ASSUME Control, Armed, Starting, at > 9, HP!StatReturn, NEW e, Returned(total, e)
    PROVE  Armed'
<1>1. at \in 10 .. Len(Script) /\ at \in Nat /\ at' = at + 1
  BY ScriptLength DEF Control, Starting, Returned
<1>2. /\ Op.op = "stat" /\ HeldAt(at) = {} /\ HeldAt(at') = {} /\ total = ArenaBytes
  BY <1>1, StatsAgree
<1>3. /\ DOMAIN slot = Names /\ Op.name \in Names /\ slot' = [slot EXCEPT ![Op.name] = total]
      /\ hpc' = "idle" /\ live' = live
  BY <1>1, CallNames DEF Control, Returned, Op, HP!StatReturn, HP!Return
<1>4. HP!IInv' /\ HP!StatInv'
  BY HeapKeeps DEF Armed, HP!Next, HP!Step
<1>5. live' = Held'
  BY <1>2, <1>3 DEF Armed, Held
<1>6. slot'["before"] = ArenaBytes
  <2>1. at = 10 => Op.name = "before"
    BY CallPlaces DEF Op
  <2>2. CASE Op.name = "before"
    BY <1>2, <1>3, <2>2
  <2>3. CASE Op.name # "before"
    BY <1>1, <1>3, <2>1, <2>3, CallNames DEF Armed
  <2>4. QED
    BY <2>2, <2>3
<1>7. at' # BlocksAt + 2 /\ at' # BlocksAt + 3
  <2>1. Script[BlocksAt + 1].op = "alloc" /\ Script[BlocksAt + 2].op = "alloc"
    BY ScriptIs DEF Alloc
  <2>2. at # BlocksAt + 1 /\ at # BlocksAt + 2
    BY <1>2, <2>1 DEF Op
  <2>3. QED
    BY <1>1, <2>2, ScriptLength
<1>8. QED
  BY <1>2, <1>3, <1>4, <1>5, <1>6, <1>7 DEF Armed

\* The walks, and the entries to calls.
LEMMA HeapRuns ==
    ASSUME Control, Armed, Starting, at > 9, Within,
           \/ HP!AllocNext \/ HP!DeallocNext \/ HP!StatNext
           \/ Op.op = "alloc" /\ HP!Enter("alloc", [ptr |-> HP!NULL, layout |-> Op.layout])
           \/ Op.op = "dealloc" /\ HP!Enter("dealloc", [ptr |-> slot[Op.name], layout |-> Op.layout])
           \/ Op.op = "stat" /\ HP!StatCall
    PROVE  Armed'
<1>1. at \in 10 .. Len(Script) /\ UNCHANGED <<at, slot, verdict>>
  BY ScriptLength DEF Control, Starting, Within
<1>2. live' = live
  BY DEF HP!AllocNext, HP!DeallocNext, HP!StatNext, HP!Advance, HP!Enter, HP!StatCall
<1>3. HP!Next
  <2>1. ASSUME Op.op = "alloc", HP!Enter("alloc", [ptr |-> HP!NULL, layout |-> Op.layout])
        PROVE  HP!AllocCall
    <3>1. Op.layout \in SelftestLayouts
      BY <1>1, <2>1, CallLayouts DEF Op
    <3>2. QED
      BY <2>1, <3>1 DEF HP!AllocCall
  <2>2. ASSUME Op.op = "dealloc", HP!Enter("dealloc", [ptr |-> slot[Op.name], layout |-> Op.layout])
        PROVE  HP!DeallocCall
    <3>1. Hold(Op.name, Op.layout) \in HeldAt(at)
      BY <1>1, <2>2, ScriptAccounts DEF Accounts, HoldOf, Op
    <3>2. [ptr |-> slot[Op.name], layout |-> Op.layout] \in live
      BY <3>1 DEF Armed, Held, Hold
    <3>3. QED
      BY <2>2, <3>2 DEF HP!DeallocCall
  <2>3. QED
    BY <2>1, <2>2 DEF HP!Next, HP!Step
<1>4. HP!IInv' /\ HP!StatInv'
  BY <1>3, HeapKeeps DEF Armed
<1>5. /\ hpc' = "alloc" => req'.layout = Op.layout
      /\ hpc' = "dealloc" => req' = [ptr |-> slot[Op.name], layout |-> Op.layout]
  BY DEF Armed, HP!AllocNext, HP!DeallocNext, HP!StatNext, HP!Advance, HP!Enter, HP!StatCall
<1>6. QED
  BY <1>1, <1>2, <1>4, <1>5 DEF Armed, Held, Op

LEMMA HeapCalls == H!StatCall => HP!StatCall
  BY HeapWalks, HeapNames DEF H!StatCall, HP!StatCall

LEMMA HeapScriptInit == MemoryInit => HeapScript
<1> SUFFICES ASSUME MemoryInit PROVE HeapScript
  OBVIOUS
<1>1. Unarmed
  BY HeapNames DEF MemoryInit, Unarmed
<1>2. at = 1
  BY DEF MemoryInit
<1>3. QED
  BY <1>1, <1>2 DEF HeapScript

\* Start-up that has given up takes no further step.
LEMMA Resting ==
    ASSUME Control, [MemoryNext]_everything, verdict = "Failed"
    PROVE  UNCHANGED everything
<1>1. ~FrameInit
  BY DEF FrameInit, Seed, SeedFails, Control
<1>2. ~(FrameCall \/ FrameStep \/ HeapCall \/ HeapStep)
  BY DEF FrameCall, FrameStep, HeapCall, HeapStep, Calling, Starting
<1>3. ~(UpStep \/ UpBump)
  BY DEF UpStep, UpBump, Up
<1>4. QED
  BY <1>1, <1>2, <1>3 DEF MemoryNext, Stopped

LEMMA StillStarting ==
    ASSUME Control, [MemoryNext]_everything, verdict' = "none"
    PROVE  verdict = "none"
<1>1. verdict = "Failed" => verdict' = "Failed"
  BY Resting DEF everything
<1>2. QED
  BY <1>1 DEF Control

\* Which call start-up is at, by what runs.
LEMMA FrameHalf ==
    ASSUME Control, Starting, Op.op \in {"alloc_frame", "dealloc_frame"}
    PROVE  at \in 1 .. 8
<1>1. at \in 1 .. Len(Script) /\ Len(Script) \in Nat
  BY ScriptLength DEF Control, Starting
<1>2. at # 9
  BY CallPlaces DEF Op
<1>3. at \notin 10 .. Len(Script)
  BY CallPlaces DEF Op
<1>4. QED
  BY <1>1, <1>2, <1>3

LEMMA HeapHalf ==
    ASSUME Control, Starting, Op.op \in {"alloc", "dealloc", "stat"}
    PROVE  at > 9
<1>1. at \in 1 .. Len(Script) /\ Len(Script) \in Nat
  BY ScriptLength DEF Control, Starting
<1>2. at # 9
  BY CallPlaces DEF Op
<1>3. at \notin 1 .. 8
  BY CallPlaces DEF Op
<1>4. QED
  BY <1>1, <1>2, <1>3

LEMMA ArenaCall ==
    ASSUME Control, Starting, Op.op = "heap_init"
    PROVE  at = 9
<1>1. at \in 1 .. Len(Script) /\ Len(Script) \in Nat
  BY ScriptLength DEF Control, Starting
<1>2. at \notin 1 .. 8
  BY CallPlaces DEF Op
<1>3. at \notin 10 .. Len(Script)
  BY CallPlaces DEF Op
<1>4. QED
  BY <1>1, <1>2, <1>3

LEMMA HeapScriptStep ==
    ASSUME Control, HeapScript, [MemoryNext]_everything, verdict' = "none"
    PROVE  HeapScript'
<1>1. verdict = "none" /\ at \in Nat \ {0} /\ BlocksAt \in Nat /\ Len(Script) = BlocksAt + 8
  BY StillStarting, ScriptLength DEF Control
<1>2. ASSUME at > 9, Armed', at' = at \/ at' = at + 1 PROVE HeapScript'
  <2>1. at' > 9 /\ ~(at' <= 9)
    BY <1>1, <1>2
  <2>2. QED
    BY <1>2, <2>1 DEF HeapScript
<1>3. CASE FrameInit /\ UNCHANGED <<heap, at, slot>>
  BY <1>3, HeapUntouched
<1>4. ASSUME UNCHANGED heap, at \in 1 .. 8, at' = at + 1 PROVE HeapScript'
  <2>1. Unarmed
    BY <1>4 DEF HeapScript
  <2>2. Unarmed'
    BY <1>4, <2>1 DEF Unarmed, heap
  <2>3. at' <= 9 /\ ~(at' > 9)
    BY <1>4
  <2>4. QED
    BY <2>2, <2>3 DEF HeapScript
<1>5. CASE FrameCall
  <2>1. UNCHANGED heap /\ Starting
    BY <1>5 DEF FrameCall, Calling
  <2>2. CASE Within
    BY <2>1, <2>2, HeapUntouched DEF Within
  <2>3. CASE at' = at + 1 /\ Op.op \in {"alloc_frame", "dealloc_frame"}
    BY <1>4, <2>1, <2>3, FrameHalf
  <2>4. QED
    BY <1>5, <2>2, <2>3 DEF FrameCall, Calling, Returned
<1>6. CASE FrameStep
  <2>1. Starting /\ pc \in {"frame", "contiguous"}
    BY <1>6 DEF FrameStep, BumpTake, BumpNone, BumpPanic, BumpStrand, BumpNextRun
  <2>2. ~(BumpNone /\ Returned(NONE, FALSE)) /\ ~(BumpPanic /\ Panic)
    BY DEF Returned, Panic
  <2>3. CASE (BumpStrand \/ BumpNextRun) /\ Within
    <3>1. ~BumpTake
      BY <2>3 DEF BumpStrand, BumpNextRun, BumpTake
    <3>2. UNCHANGED heap
      BY <1>6, <3>1 DEF FrameStep
    <3>3. QED
      BY <2>3, <3>2, HeapUntouched DEF Within
  <2>4. CASE BumpTake /\ Returned(cursor, Expected(cursor))
    <3>1. at' = at + 1
      BY <2>4 DEF Returned
    <3>2. CASE pc = "frame"
      <4>1. Op.op = "alloc_frame"
        BY <2>1, <3>2 DEF Control
      <4>2. UNCHANGED heap
        BY <1>6, <4>1 DEF FrameStep
      <4>3. QED
        BY <1>4, <2>1, <3>1, <4>1, <4>2, FrameHalf
    <3>3. CASE pc = "contiguous"
      <4>1. Op.op = "heap_init"
        BY <2>1, <3>3 DEF Control
      <4>2. at = 9 /\ at' = 10
        BY <2>1, <3>1, <4>1, ArenaCall
      <4>3. Unarmed
        BY <4>2 DEF HeapScript
      <4>4. /\ head' = PAGE
            /\ mem' = [mem EXCEPT ![PAGE] = [size |-> HEAP_FRAMES * PAGE, next |-> H!NULL]]
            /\ UNCHANGED <<live, hpc, req, prev, cur, total, count>>
        BY <1>6, <2>4, <4>1 DEF FrameStep
      <4>5. HP!IInv' /\ HP!StatInv' /\ live' = {} /\ hpc' = "idle"
        BY <4>3, <4>4, HeapArms DEF Unarmed
      <4>6. HeldAt(10) = {}
        <5>1. PICK i \in 10 .. Len(Script) : i = 10 /\ Script[i].op = "stat"
          <6>1. Len(Script) >= 10
            BY ScriptLength
          <6>2. QED
            BY <1>1, <6>1, CallPlaces
        <5>2. HeldAt(i) = {}
          BY <5>1, ScriptAccounts DEF Accounts
        <5>3. QED
          BY <5>1, <5>2
      <4>7. live' = Held' /\ HeldAt(at') = {}
        BY <4>2, <4>5, <4>6 DEF Held
      <4>8. at' # BlocksAt + 2 /\ at' # BlocksAt + 3 /\ ~(at' > 10)
        BY <4>2, ScriptLength
      <4>9. Armed'
        BY <4>5, <4>7, <4>8 DEF Armed
      <4>10. at' > 9 /\ ~(at' <= 9)
        BY <4>2
      <4>11. QED
        BY <4>9, <4>10 DEF HeapScript
    <3>4. QED
      BY <2>1, <3>2, <3>3
  <2>5. QED
    BY <1>6, <2>2, <2>3, <2>4 DEF FrameStep
<1>7. CASE HeapCall
  <2>1. Starting /\ Within /\ Op.op \in {"alloc", "dealloc", "stat"}
    BY <1>7 DEF HeapCall, Calling
  <2>2. at > 9 /\ Armed /\ at' = at
    BY <2>1, HeapHalf DEF HeapScript, Within
  <2>3. \/ Op.op = "alloc" /\ HP!Enter("alloc", [ptr |-> HP!NULL, layout |-> Op.layout])
        \/ Op.op = "dealloc" /\ HP!Enter("dealloc", [ptr |-> slot[Op.name], layout |-> Op.layout])
        \/ Op.op = "stat" /\ HP!StatCall
    <3>1. H!NULL = HP!NULL
      BY HeapNames
    <3>2. QED
      BY <1>7, <3>1, HeapWalks, HeapCalls DEF HeapCall, Calling
  <2>4. Armed'
    BY <2>1, <2>2, <2>3, HeapRuns
  <2>5. QED
    BY <1>2, <2>2, <2>4
<1>8. CASE HeapStep
  <2>1. Starting /\ hpc \in {"alloc", "dealloc", "stat"}
    BY <1>8 DEF HeapStep, H!AllocNext, H!DeallocNext, H!StatNext, H!AllocCarve, H!AllocNull,
       H!DeallocFinish, H!StatReturn
  <2>2. Op.op \in {"alloc", "dealloc", "stat"}
    BY <2>1 DEF Control
  <2>3. at > 9 /\ Armed
    BY <2>1, <2>2, HeapHalf DEF HeapScript
  <2>4. CASE (H!AllocNext \/ H!DeallocNext \/ H!StatNext) /\ Within
    <3>1. Armed'
      BY <2>1, <2>3, <2>4, HeapRuns, HeapWalks
    <3>2. QED
      BY <1>2, <2>3, <2>4, <3>1 DEF Within
  <2>5. CASE H!AllocCarve /\ Returned(H!Payload(cur, req.layout), TRUE)
    <3>1. HP!AllocCarve /\ Returned(HP!Payload(cur, req.layout), TRUE)
      BY <2>5, HeapCarves, HeapNames
    <3>2. Armed' /\ at' = at + 1
      BY <2>1, <2>3, <3>1, CarveHolds DEF Returned
    <3>3. QED
      BY <1>2, <2>3, <3>2
  <2>6. CASE H!DeallocFinish /\ Returned(req.ptr, TRUE)
    <3>1. Armed' /\ at' = at + 1
      BY <2>1, <2>3, <2>6, HeapFinishes, FinishReleases DEF Returned
    <3>2. QED
      BY <1>2, <2>3, <3>1
  <2>7. ASSUME NEW e, H!StatReturn, Returned(total, e) PROVE HeapScript'
    <3>1. Armed' /\ at' = at + 1
      BY <2>1, <2>3, <2>7, HeapWalks, StatReturns DEF Returned
    <3>2. QED
      BY <1>2, <2>3, <3>1
  <2>8. ~(H!AllocNull /\ Panic)
    BY DEF Panic
  <2>9. QED
    BY <1>8, <2>4, <2>5, <2>6, <2>7, <2>8 DEF HeapStep
<1>9. CASE UpStep \/ UpBump
  BY <1>9, HeapUntouched DEF UpStep, UpBump
<1>10. CASE Stopped \/ UNCHANGED everything
  BY <1>10, HeapUntouched DEF Stopped, everything
<1>11. QED
  BY <1>3, <1>5, <1>6, <1>7, <1>8, <1>9, <1>10 DEF MemoryNext

\* The heap's self-test never gives up.
LEMMA HeapPasses ==
    ASSUME Control, HeapScript, HeapStep
    PROVE  verdict' = "none"
<1>1. Starting /\ hpc \in {"alloc", "dealloc", "stat"}
  BY DEF HeapStep, H!AllocNext, H!DeallocNext, H!StatNext, H!AllocCarve, H!AllocNull,
     H!DeallocFinish, H!StatReturn
<1>2. Op.op = hpc /\ verdict = "none"
  BY <1>1 DEF Control, Starting
<1>3. at > 9 /\ Armed
  BY <1>1, <1>2, HeapHalf DEF HeapScript
<1>4. ~H!AllocNull
  <2> SUFFICES ASSUME H!AllocNull PROVE FALSE
    OBVIOUS
  <2>1. HP!AllocNull
    BY HeapWalks
  <2>2. hpc = "alloc"
    BY <2>1 DEF HP!AllocNull
  <2>3. at \in 10 .. Len(Script) /\ BlocksAt \in Nat
    BY <1>1, <1>3, ScriptLength DEF Control, Starting
  <2>4. /\ HP!IInv /\ live = Held /\ req.layout = Op.layout
        /\ at = BlocksAt + 3 => slot["first"] = PAGE /\ slot["middle"] = PAGE + 4 * GRAIN
    BY <1>3, <2>2 DEF Armed
  <2>5. QED
    BY <1>2, <2>1, <2>2, <2>3, <2>4, NeverNull
<1>5. H!StatReturn => count = 1 /\ (Op.name = "bytes" => total = slot["before"])
  BY <1>1, <1>3, HeapWalks, StatsAgree
<1>6. QED
  BY <1>2, <1>4, <1>5 DEF HeapStep, Within, Returned

-----------------------------------------------------------------------------
(* The frames' half of start-up *)

\* A run of the heap's frames and two more, and a map that has one.
Enough(k) ==
    Yields(regions[k]) /\ RunEnd(regions[k]) - RunStart(regions[k]) >= (HEAP_FRAMES + 2) * PAGE
Suited == \E k \in 1 .. Len(regions) : Enough(k)

\* Such a run lies ahead, or is the current one, of which bump has handed out
\* n frames at most.
Room(n) ==
    \E k \in 1 .. Len(regions) :
        /\ Enough(k)
        /\ \/ index < k
           \/ run_end = RunEnd(regions[k]) /\ cursor <= RunStart(regions[k]) + n * PAGE

\* From call to call: what the self-test of the frame allocator has left on the
\* free stack, and in its slots.
FrameScript ==
    /\ at = 1 => stack = <<>> /\ (pc # "boot" => Room(0) /\ cursor < run_end)
    /\ at \in 2 .. 6 => Room(1)
    /\ at \in {7, 8} \/ (at = 9 /\ pc = "idle") => Room(2)
    /\ at = 9 /\ pc = "contiguous" => frames = HEAP_FRAMES /\ RoomAhead
    /\ at \in {2, 4, 6} => stack = <<>>
    /\ at \in {3, 5} => stack = <<slot["first"]>>
    /\ at \in 2 .. 5 => slot["first"] # NONE
    /\ at = 4 => slot["again"] = slot["first"]
    /\ at = 6 => slot["a"] \in owned

LEMMA EnoughFacts ==
    ASSUME FramesInv, NEW k \in 1 .. Len(regions), Enough(k)
    PROVE  /\ Yields(regions[k])
           /\ RunStart(regions[k]) \in Nat /\ RunEnd(regions[k]) \in Nat
           /\ PAGE \in Nat \ {0} /\ HEAP_FRAMES * PAGE \in Nat /\ PAGE <= HEAP_FRAMES * PAGE
           /\ RunEnd(regions[k]) - RunStart(regions[k]) >= HEAP_FRAMES * PAGE + 2 * PAGE
<1>1. Yields(regions[k]) /\ RunEnd(regions[k]) - RunStart(regions[k]) >= (HEAP_FRAMES + 2) * PAGE
  BY DEF Enough
<1>2. regions[k] \in Descriptor
  BY MapFacts DEF FramesInv, TypeOK
<1>3. RunStart(regions[k]) \in Nat /\ RunEnd(regions[k]) \in Nat
  BY <1>1, <1>2, RunIsPages, Sizes
<1>4. PAGE \in Nat \ {0} /\ HEAP_FRAMES \in Nat \ {0}
  BY Sizes, MemoryAssumption
<1>5. (HEAP_FRAMES + 2) * PAGE = HEAP_FRAMES * PAGE + 2 * PAGE /\ PAGE <= HEAP_FRAMES * PAGE
      /\ HEAP_FRAMES * PAGE \in Nat
  BY <1>4, Z3
<1>6. QED
  BY <1>1, <1>3, <1>4, <1>5

LEMMA RoomStays ==
    ASSUME UNCHANGED <<regions, index, cursor, run_end>>
    PROVE  \A n : Room(n) => Room(n)'
BY DEF Room, Enough

\* bump does not leave the run while it is the one that is wanted.
LEMMA RoomRemains ==
    ASSUME FramesInv, NEW n \in {0, 1, 2}, Room(n), ~Remaining
    PROVE  \E k \in (index + 1) .. Len(regions) : Enough(k)
<1>1. PICK k \in 1 .. Len(regions) :
        /\ Enough(k)
        /\ \/ index < k
           \/ run_end = RunEnd(regions[k]) /\ cursor <= RunStart(regions[k]) + n * PAGE
  BY DEF Room
<1>2. /\ RunStart(regions[k]) \in Nat /\ RunEnd(regions[k]) \in Nat
      /\ PAGE \in Nat \ {0} /\ HEAP_FRAMES * PAGE \in Nat /\ PAGE <= HEAP_FRAMES * PAGE
      /\ RunEnd(regions[k]) - RunStart(regions[k]) >= HEAP_FRAMES * PAGE + 2 * PAGE
  BY <1>1, EnoughFacts
<1>3. cursor \in Nat /\ run_end \in Nat /\ index \in Nat /\ Len(regions) \in Nat
  BY Sizes, MapFacts DEF FramesInv, TypeOK
<1>4. n * PAGE \in Nat /\ n * PAGE <= 2 * PAGE
  BY <1>2
<1>5. ~(run_end = RunEnd(regions[k]) /\ cursor <= RunStart(regions[k]) + n * PAGE)
  BY <1>2, <1>3, <1>4, SMTT(30) DEF Remaining
<1>6. QED
  BY <1>1, <1>3, <1>5

LEMMA RoomNextRun ==
    ASSUME FramesInv, NEW n \in {0, 1, 2}, Room(n), BumpNextRun
    PROVE  Room(n)'
<1>1. ~Remaining /\ regions' = regions
  BY DEF BumpNextRun
<1>2. PICK j \in 1 .. Len(regions) : IsNextRun(index, j) /\ EnterRun(j)
  BY DEF BumpNextRun
<1>3. PICK k \in (index + 1) .. Len(regions) : Enough(k)
  BY <1>1, RoomRemains
<1>4. index \in Nat /\ Len(regions) \in Nat /\ k \in 1 .. Len(regions)
  BY <1>3, MapFacts DEF FramesInv, TypeOK
<1>5. index' = j /\ cursor' = RunStart(regions[j]) /\ run_end' = RunEnd(regions[j])
  BY <1>2 DEF EnterRun
<1>6. Yields(regions[k]) /\ RunStart(regions[k]) \in Nat /\ n * PAGE \in Nat
  BY <1>3, <1>4, EnoughFacts, SMTT(30)
<1>7. k = j \/ j < k
  <2>1. j \in (index + 1) .. Len(regions) /\ k \notin (index + 1) .. (j - 1)
    BY <1>2, <1>6 DEF IsNextRun
  <2>2. QED
    BY <1>3, <1>4, <2>1
<1>8. Enough(k)'
  BY <1>1, <1>3 DEF Enough
<1>9. index' < k \/ (run_end' = RunEnd(regions'[k]) /\ cursor' <= RunStart(regions'[k]) + n * PAGE)
  BY <1>1, <1>5, <1>6, <1>7
<1>10. QED
  BY <1>1, <1>4, <1>8, <1>9 DEF Room

LEMMA RoomSeed ==
    ASSUME FramesInv, Suited, Seed
    PROVE  Room(0)' /\ cursor' < run_end'
<1>1. regions' = regions /\ index = 0
  BY DEF Seed, FramesInv, NotYet
<1>2. PICK j \in 1 .. Len(regions) : IsNextRun(0, j) /\ EnterRun(j)
  BY DEF Seed
<1>3. PICK k \in 1 .. Len(regions) : Enough(k)
  BY DEF Suited
<1>4. Len(regions) \in Nat /\ regions[j] \in Descriptor /\ Yields(regions[j])
  BY <1>2, MapFacts DEF FramesInv, TypeOK, IsNextRun
<1>5. index' = j /\ cursor' = RunStart(regions[j]) /\ run_end' = RunEnd(regions[j])
  BY <1>2 DEF EnterRun
<1>6. Yields(regions[k]) /\ RunStart(regions[k]) \in Nat /\ PAGE \in Nat
  BY <1>3, EnoughFacts
<1>7. k = j \/ j < k
  <2>1. k \notin 1 .. (j - 1)
    BY <1>2, <1>6 DEF IsNextRun
  <2>2. QED
    BY <1>4, <2>1
<1>8. Enough(k)'
  BY <1>1, <1>3 DEF Enough
<1>9. index' < k \/ (run_end' = RunEnd(regions'[k]) /\ cursor' <= RunStart(regions'[k]) + 0 * PAGE)
  BY <1>1, <1>5, <1>6, <1>7
<1>10. Room(0)'
  BY <1>1, <1>8, <1>9 DEF Room
<1>11. QED
  BY <1>4, <1>5, <1>10, RunIsPages, Sizes

LEMMA RoomTake ==
    ASSUME FramesInv, NEW n \in {0, 1}, Room(n), pc = "frame", BumpTake
    PROVE  Room(n + 1)'
<1>1. PICK k \in 1 .. Len(regions) :
        /\ Enough(k)
        /\ \/ index < k
           \/ run_end = RunEnd(regions[k]) /\ cursor <= RunStart(regions[k]) + n * PAGE
  BY DEF Room
<1>2. UNCHANGED <<regions, index, run_end>> /\ cursor' = cursor + frames * PAGE /\ frames = 1
  BY DEF BumpTake, Wanted, FramesInv, LastResort
<1>3. cursor \in Nat /\ PAGE \in Nat /\ RunStart(regions[k]) \in Nat
  BY <1>1, EnoughFacts, Sizes DEF FramesInv, TypeOK
<1>4. cursor <= RunStart(regions[k]) + n * PAGE => cursor' <= RunStart(regions[k]) + (n + 1) * PAGE
  BY <1>2, <1>3
<1>5. Enough(k)'
  BY <1>1, <1>2 DEF Enough
<1>6. QED
  BY <1>1, <1>2, <1>4, <1>5 DEF Room

\* The arena's run is ahead when heap::init asks for it.
LEMMA RoomForArena ==
    ASSUME FramesInv, Room(2), ContiguousCall(HEAP_FRAMES)
    PROVE  frames' = HEAP_FRAMES /\ RoomAhead'
<1>1. PICK k \in 1 .. Len(regions) :
        /\ Enough(k)
        /\ \/ index < k
           \/ run_end = RunEnd(regions[k]) /\ cursor <= RunStart(regions[k]) + 2 * PAGE
  BY DEF Room
<1>2. UNCHANGED <<regions, index, cursor, run_end>> /\ frames' = HEAP_FRAMES
  BY DEF ContiguousCall, alloc
<1>3. /\ Yields(regions[k])
      /\ RunStart(regions[k]) \in Nat /\ RunEnd(regions[k]) \in Nat
      /\ PAGE \in Nat \ {0} /\ HEAP_FRAMES * PAGE \in Nat /\ PAGE <= HEAP_FRAMES * PAGE
      /\ RunEnd(regions[k]) - RunStart(regions[k]) >= HEAP_FRAMES * PAGE + 2 * PAGE
  BY <1>1, EnoughFacts
<1>4. cursor \in Nat /\ run_end \in Nat /\ index \in Nat /\ Len(regions) \in Nat
  BY Sizes, MapFacts DEF FramesInv, TypeOK
<1>5. Wanted' = HEAP_FRAMES * PAGE
  BY <1>2 DEF Wanted
<1>6. CASE index < k
  <2>1. k \in (index + 1) .. Len(regions) /\ RunEnd(regions[k]) - RunStart(regions[k]) >= HEAP_FRAMES * PAGE
    BY <1>3, <1>4, <1>6
  <2>2. QED
    BY <1>2, <1>3, <1>5, <2>1 DEF RoomAhead
<1>7. CASE run_end = RunEnd(regions[k]) /\ cursor <= RunStart(regions[k]) + 2 * PAGE
  <2>1. run_end >= cursor /\ run_end - cursor >= HEAP_FRAMES * PAGE
    BY <1>3, <1>4, <1>7, SMTT(30)
  <2>2. Fits'
    BY <1>2, <1>5, <2>1 DEF Fits
  <2>3. QED
    BY <1>2, <2>2 DEF RoomAhead
<1>8. QED
  BY <1>1, <1>2, <1>6, <1>7

\* What bump hands out is a frame that nobody holds, and not the one at 0.
LEMMA CursorIsFree ==
    ASSUME FramesInv, cursor < run_end, pc \notin {"boot", "fatal"}
    PROVE  cursor # NONE /\ cursor % PAGE = 0 /\ cursor \notin owned
<1>1. cursor \in Page /\ index \in 0 .. Len(regions) /\ Len(regions) \in Nat
  BY MapFacts DEF FramesInv, TypeOK
<1>2. cursor \in Ahead
  BY <1>1, Sizes DEF Ahead
<1>3. PICK k \in 1 .. index : Yields(regions[k]) /\ RunStart(regions[k]) <= cursor
  BY DEF FramesInv, CurrentRun
<1>4. regions[k] \in Descriptor
  BY <1>1, MapFacts DEF FramesInv, TypeOK
<1>5. PAGE <= RunStart(regions[k]) /\ RunStart(regions[k]) \in Nat /\ PAGE \in Nat \ {0}
  BY <1>3, <1>4, RunIsPages, Sizes
<1>6. QED
  BY <1>1, <1>2, <1>3, <1>5, Facts, Sizes DEF NONE

\* One frame fits wherever one is left.
LEMMA OneFrameFits ==
    ASSUME FramesInv, pc = "frame"
    PROVE  (Fits <=> Remaining) /\ (Fits <=> cursor < run_end)
<1>1. cursor \in Page /\ run_end \in Page /\ cursor \in Nat /\ run_end \in Nat /\ PAGE \in Nat \ {0}
  BY Sizes DEF FramesInv, TypeOK
<1>2. Wanted = PAGE
  BY <1>1 DEF FramesInv, LastResort, Wanted
<1>3. cursor < run_end => cursor + PAGE <= run_end
  BY <1>1, PagesApart
<1>4. QED
  BY <1>1, <1>2, <1>3 DEF Fits, Remaining

LEMMA TakenFits ==
    ASSUME FramesInv, BumpTake, frames \in Nat \ {0}
    PROVE  cursor < run_end
<1>1. cursor \in Nat /\ run_end \in Nat /\ PAGE \in Nat \ {0}
  BY Sizes DEF FramesInv, TypeOK
<1>2. run_end - cursor >= Wanted
  BY DEF BumpTake, Fits
<1>3. Wanted >= 1 /\ Wanted \in Nat
  BY <1>1, Z3 DEF Wanted
<1>4. QED
  BY <1>1, <1>2, <1>3

\* The calls of frame::selftest, by their place.
LEMMA FrameCalls ==
    /\ Script[1] = Frame("alloc_frame", "first") /\ Script[2] = Frame("dealloc_frame", "first")
    /\ Script[3] = Frame("alloc_frame", "again") /\ Script[4] = Frame("dealloc_frame", "again")
    /\ Script[5] = Frame("alloc_frame", "a")     /\ Script[6] = Frame("alloc_frame", "b")
    /\ Script[7] = Frame("dealloc_frame", "b")   /\ Script[8] = Frame("dealloc_frame", "a")
    /\ Script[9] = Frame("heap_init", "heap")
<1>1. \A i \in 1 .. 8 : Script[i] = FrameSelftest[i]
  BY ScriptIs
<1>2. QED
  BY <1>1, ScriptIs DEF FrameSelftest

LEMMA FrameOp ==
    ASSUME Control, Starting
    PROVE  /\ at = 1 => Op.op = "alloc_frame" /\ Op.name = "first"
           /\ at = 2 => Op.op = "dealloc_frame" /\ Op.name = "first"
           /\ at = 3 => Op.op = "alloc_frame" /\ Op.name = "again"
           /\ at = 4 => Op.op = "dealloc_frame" /\ Op.name = "again"
           /\ at = 5 => Op.op = "alloc_frame" /\ Op.name = "a"
           /\ at = 6 => Op.op = "alloc_frame" /\ Op.name = "b"
           /\ at = 7 => Op.op = "dealloc_frame" /\ Op.name = "b"
           /\ at = 8 => Op.op = "dealloc_frame" /\ Op.name = "a"
           /\ at = 9 => Op.op = "heap_init" /\ Op.name = "heap"
BY FrameCalls DEF Op, Frame

LEMMA PopScript ==
    ASSUME FramesInv, Control, FrameScript, Starting, Op.op = "alloc_frame", AllocPop,
           Returned(free, Expected(free))
    PROVE  verdict' = "none" /\ FrameScript'
<1>1. at \in 1 .. 8 /\ at' = at + 1 /\ DOMAIN slot = Names
  BY FrameHalf DEF Control, Returned
<1>2. /\ UNCHANGED <<regions, index, cursor, run_end, pc>> /\ stack' = Tail(stack)
      /\ free # NONE /\ owned' = owned \cup {free}
  BY DEF AllocPop
<1>3. stack # <<>> /\ free = Head(stack)
  BY <1>2 DEF FramesInv, StackInMemory
<1>4. at \notin {2, 4, 7, 8}
  BY FrameOp
<1>5. at \notin {1, 6}
  BY <1>3 DEF FrameScript
<1>6. at = 3 \/ at = 5
  BY <1>1, <1>4, <1>5
<1>7. stack = <<slot["first"]>> /\ slot["first"] # NONE /\ Room(1)
  BY <1>6 DEF FrameScript
<1>8. free = slot["first"] /\ stack' = <<>>
  BY <1>2, <1>3, <1>7
<1>9. Room(1)'
  BY <1>2, <1>7, RoomStays
<1>10. CASE at = 3
  <2>1. Op.name = "again" /\ at' = 4
    BY <1>1, <1>10, FrameOp
  <2>2. slot' = [slot EXCEPT !["again"] = free]
    BY <2>1 DEF Returned
  <2>3. slot'["first"] = slot["first"] /\ slot'["again"] = slot["first"]
    BY <1>1, <1>8, <2>2, CallNames
  <2>4. Expected(free)
    BY <1>2, <1>8, <2>1 DEF Expected
  <2>5. verdict' = "none"
    BY <2>4 DEF Returned
  <2>6. QED
    BY <1>7, <1>8, <1>9, <2>1, <2>3, <2>5 DEF FrameScript
<1>11. CASE at = 5
  <2>1. Op.name = "a" /\ at' = 6
    BY <1>1, <1>11, FrameOp
  <2>2. slot' = [slot EXCEPT !["a"] = free]
    BY <2>1 DEF Returned
  <2>3. slot'["a"] \in owned'
    BY <1>1, <1>2, <2>2, CallNames
  <2>4. Expected(free)
    BY <1>2, <2>1 DEF Expected
  <2>5. verdict' = "none"
    BY <2>4 DEF Returned
  <2>6. QED
    BY <1>8, <1>9, <2>1, <2>3, <2>5 DEF FrameScript
<1>12. QED
  BY <1>6, <1>10, <1>11

LEMMA FreeScript ==
    ASSUME FramesInv, Control, FrameScript, Starting, Op.op = "dealloc_frame",
           Dealloc(slot[Op.name]), Returned(slot[Op.name], TRUE)
    PROVE  verdict' = "none" /\ FrameScript'
<1>1. at \in 1 .. 8 /\ at' = at + 1 /\ DOMAIN slot = Names /\ verdict' = "none"
  BY FrameHalf DEF Control, Returned
<1>2. /\ UNCHANGED <<regions, index, cursor, run_end, pc>> /\ pc = "idle"
      /\ stack' = <<slot[Op.name]>> \o stack
  BY DEF Dealloc, Push
<1>3. at \notin {1, 3, 5, 6}
  BY FrameOp
<1>4. slot' = [slot EXCEPT ![Op.name] = slot[Op.name]]
  BY DEF Returned
<1>5. slot'["first"] = slot["first"]
  BY <1>1, <1>4, CallNames
<1>6. CASE at = 2 \/ at = 4
  <2>1. at' \in {3, 5} /\ Room(1) /\ stack = <<>> /\ slot["first"] # NONE
    BY <1>1, <1>6 DEF FrameScript
  <2>2. slot[Op.name] = slot["first"]
    BY <1>6, FrameOp DEF FrameScript
  <2>3. stack' = <<slot["first"]>>
    BY <1>2, <2>1, <2>2
  <2>4. Room(1)'
    BY <1>2, <2>1, RoomStays
  <2>5. QED
    BY <1>1, <1>5, <2>1, <2>3, <2>4 DEF FrameScript
<1>7. CASE at = 7 \/ at = 8
  <2>1. at' \in {8, 9} /\ Room(2) /\ pc' = "idle"
    BY <1>1, <1>2, <1>7 DEF FrameScript
  <2>2. Room(2)'
    BY <1>2, <2>1, RoomStays
  <2>3. QED
    BY <1>1, <2>1, <2>2 DEF FrameScript
<1>8. QED
  BY <1>1, <1>3, <1>6, <1>7

\* alloc_frame bumps only as the first call, and as the second of the pair.
LEMMA BumpPlaces ==
    ASSUME FramesInv, Control, FrameScript, Starting, pc = "frame"
    PROVE  (at = 1 /\ Room(0) /\ cursor < run_end) \/ (at = 6 /\ Room(1))
<1>1. Op.op = "alloc_frame"
  BY DEF Control
<1>2. at \in 1 .. 8
  BY <1>1, FrameHalf
<1>3. at \notin {2, 4, 7, 8}
  BY <1>1, FrameOp
<1>4. stack = <<>>
  BY DEF FramesInv, LastResort
<1>5. at \notin {3, 5}
  BY <1>4 DEF FrameScript
<1>6. QED
  BY <1>2, <1>3, <1>5 DEF FrameScript

LEMMA TakeScript ==
    ASSUME FramesInv, Control, FrameScript, Starting, BumpTake, Returned(cursor, Expected(cursor))
    PROVE  verdict' = "none" /\ FrameScript'
<1>1. at \in Nat \ {0} /\ at' = at + 1 /\ DOMAIN slot = Names /\ pc \in {"frame", "contiguous"}
  BY DEF Control, Returned, BumpTake
<1>2. UNCHANGED <<regions, index, run_end, stack>> /\ pc' = "idle"
  BY DEF BumpTake
<1>3. CASE pc = "frame"
  <2>1. cursor < run_end
    BY <1>3, OneFrameFits DEF BumpTake
  <2>2. cursor # NONE /\ cursor % PAGE = 0 /\ cursor \notin owned
    BY <1>3, <2>1, CursorIsFree
  <2>3. stack' = <<>>
    BY <1>2, <1>3 DEF FramesInv, LastResort
  <2>4. CASE at = 1 /\ Room(0)
    <3>1. Op.name = "first" /\ at' = 2 /\ Room(0)
      BY <1>1, <2>4, FrameOp
    <3>2. slot' = [slot EXCEPT !["first"] = cursor]
      BY <3>1 DEF Returned
    <3>3. slot'["first"] # NONE
      BY <1>1, <2>2, <3>2, CallNames
    <3>4. Room(0 + 1)'
      BY <1>3, <3>1, RoomTake
    <3>5. Expected(cursor)
      BY <2>2, <3>1 DEF Expected
    <3>6. verdict' = "none"
      BY <3>5 DEF Returned
    <3>7. QED
      BY <2>3, <3>1, <3>3, <3>4, <3>6 DEF FrameScript
  <2>5. CASE at = 6 /\ Room(1)
    <3>1. Op.name = "b" /\ at' = 7 /\ Room(1) /\ slot["a"] \in owned
      BY <1>1, <2>5, FrameOp DEF FrameScript
    <3>2. Room(1 + 1)'
      BY <1>3, <3>1, RoomTake
    <3>3. Expected(cursor)
      BY <2>2, <3>1 DEF Expected
    <3>4. verdict' = "none"
      BY <3>3 DEF Returned
    <3>5. QED
      BY <3>1, <3>2, <3>4 DEF FrameScript
  <2>6. QED
    BY <1>3, <2>4, <2>5, BumpPlaces
<1>4. CASE pc = "contiguous"
  <2>1. Op.op = "heap_init"
    BY <1>4 DEF Control
  <2>2. at = 9 /\ at' = 10
    BY <1>1, <2>1, ArenaCall
  <2>3. frames \in Nat \ {0}
    BY <1>4, <2>2, MemoryAssumption DEF FrameScript
  <2>4. cursor < run_end
    BY <2>3, TakenFits
  <2>5. cursor # NONE
    BY <1>4, <2>4, CursorIsFree
  <2>6. Op.name = "heap"
    BY <2>2, FrameOp
  <2>7. Expected(cursor)
    BY <2>5, <2>6 DEF Expected
  <2>8. verdict' = "none"
    BY <2>7 DEF Returned
  <2>9. QED
    BY <2>2, <2>8 DEF FrameScript
<1>5. QED
  BY <1>1, <1>3, <1>4

\* While such a run is ahead, bump goes on, and does not return None.
LEMMA BumpScript ==
    ASSUME FramesInv, Control, FrameScript, Starting
    PROVE  /\ ~BumpNone
           /\ (BumpStrand \/ BumpNextRun) /\ Within => verdict' = "none" /\ FrameScript'
<1>1. \A n \in {0, 1, 2} : Room(n) => ~BumpNone
  <2> SUFFICES ASSUME NEW n \in {0, 1, 2}, Room(n), BumpNone PROVE FALSE
    OBVIOUS
  <2>1. ~Remaining /\ NoMoreRuns(index)
    BY DEF BumpNone
  <2>2. \E k \in (index + 1) .. Len(regions) : Enough(k)
    BY <2>1, RoomRemains
  <2>3. QED
    BY <2>1, <2>2 DEF NoMoreRuns, Enough
<1>2. verdict = "none" /\ at \in Nat \ {0}
  BY DEF Starting, Control
<1>3. CASE pc = "frame"
  <2>1. ~BumpNone
    BY <1>1, <1>3, BumpPlaces
  <2>2. ~BumpStrand
    BY <1>3, OneFrameFits DEF BumpStrand
  <2>3. ASSUME BumpNextRun, Within PROVE verdict' = "none" /\ FrameScript'
    <3>1. ~Fits /\ UNCHANGED <<stack, owned, pc>>
      BY <2>3 DEF BumpNextRun
    <3>2. at = 6 /\ Room(1)
      BY <1>3, <3>1, BumpPlaces, OneFrameFits
    <3>3. stack' = <<>> /\ slot'["a"] \in owned' /\ at' = 6 /\ verdict' = "none"
      BY <1>2, <2>3, <3>1, <3>2 DEF FrameScript, Within
    <3>4. Room(1)'
      BY <2>3, <3>2, RoomNextRun
    <3>5. QED
      BY <3>3, <3>4 DEF FrameScript
  <2>4. QED
    BY <2>1, <2>2, <2>3
<1>4. CASE pc = "contiguous"
  <2>1. Op.op = "heap_init"
    BY <1>4 DEF Control
  <2>2. at = 9
    BY <2>1, ArenaCall
  <2>3. frames = HEAP_FRAMES /\ RoomAhead
    BY <1>4, <2>2 DEF FrameScript
  <2>4. ~BumpNone
    BY <2>3 DEF BumpNone, NoMoreRuns, RoomAhead
  <2>5. ASSUME BumpStrand \/ BumpNextRun, Within PROVE verdict' = "none" /\ FrameScript'
    <3>1. UNCHANGED <<pc, frames>> /\ at' = 9 /\ verdict' = "none"
      BY <1>2, <2>2, <2>5 DEF BumpStrand, BumpNextRun, Within
    <3>2. RoomAhead'
      BY <2>3, <2>5, StrandKeepsRoom, NextRunKeepsRoom
    <3>3. QED
      BY <1>4, <2>3, <3>1, <3>2 DEF FrameScript
  <2>6. QED
    BY <2>4, <2>5
<1>5. QED
  BY <1>3, <1>4 DEF BumpNone, BumpStrand, BumpNextRun

-----------------------------------------------------------------------------
(* Start-up as a whole *)

LEMMA RegionsStay == [MemoryNext]_everything => regions' = regions
<1>1. Client \/ Bump => regions' = regions
  BY DEF Client, AllocPop, AllocBump, ClientWrite, ContiguousCall, Dealloc, Bump, BumpTake, BumpStrand,
     BumpPanic, BumpNextRun, BumpNone
<1>2. FrameInit \/ FrameCall => regions' = regions
  BY DEF FrameInit, Seed, SeedFails, FrameCall, AllocPop, AllocBump, Dealloc, ContiguousCall
<1>3. FrameStep \/ UpStep \/ UpBump => regions' = regions
  BY <1>1 DEF FrameStep, UpStep, UpBump, Bump
<1>4. HeapCall \/ HeapStep \/ Stopped \/ UNCHANGED everything => regions' = regions
  BY DEF HeapCall, HeapStep, Stopped, everything, vars
<1>5. QED
  BY <1>2, <1>3, <1>4 DEF MemoryNext

\* With a run of the heap's frames and two more in the map, the self-tests find
\* what they expect: nothing but bump's own overflow stops start-up.
LEMMA FrameScriptStep ==
    ASSUME FramesInv, Control, HeapScript, FrameScript, Suited, verdict = "none", [MemoryNext]_everything
    PROVE  (verdict' = "none" => FrameScript') /\ (verdict' # "none" => pc' = "panic")
<1>1. at \in Nat \ {0} /\ Len(Script) \in Nat /\ Len(Script) >= 20
  BY ScriptLength DEF Control
<1>2. at' > 9 /\ at' \in Nat => FrameScript'
  BY DEF FrameScript
<1>3. CASE FrameInit /\ UNCHANGED <<heap, at, slot>>
  <2>1. pc = "boot" /\ at = 1 /\ index = 0
    BY <1>3 DEF FrameInit, Seed, SeedFails, Control, FramesInv, NotYet
  <2>2. ~SeedFails
    <3>1. ~NoMoreRuns(0)
      BY DEF NoMoreRuns, Suited, Enough
    <3>2. QED
      BY <3>1 DEF SeedFails
  <2>3. Seed /\ verdict' = "none"
    BY <1>3, <2>2 DEF FrameInit
  <2>4. stack' = <<>> /\ at' = 1
    BY <1>3, <2>1, <2>3 DEF Seed, FrameScript
  <2>5. Room(0)' /\ cursor' < run_end'
    BY <2>3, RoomSeed
  <2>6. QED
    BY <2>3, <2>4, <2>5 DEF FrameScript
<1>4. CASE FrameCall
  <2>1. Starting /\ pc = "idle"
    BY <1>4 DEF FrameCall, Calling
  <2>2. CASE Calling("alloc_frame") /\ AllocPop /\ Returned(free, Expected(free))
    BY <2>1, <2>2, PopScript DEF Calling
  <2>3. CASE Calling("dealloc_frame") /\ Dealloc(slot[Op.name]) /\ Returned(slot[Op.name], TRUE)
    BY <2>1, <2>3, FreeScript DEF Calling
  <2>4. CASE Calling("alloc_frame") /\ AllocBump /\ Within
    <3>1. at \in 1 .. 8 /\ UNCHANGED <<at, slot, verdict>>
      BY <2>1, <2>4, FrameHalf DEF Calling, Within
    <3>2. UNCHANGED <<regions, index, cursor, run_end, stack, owned>> /\ pc' = "frame"
      BY <2>4 DEF AllocBump, alloc
    <3>3. \A n : Room(n) => Room(n)'
      BY <3>2, RoomStays
    <3>4. at # 9
      BY <3>1
    <3>5. QED
      BY <2>1, <3>1, <3>2, <3>3, <3>4 DEF FrameScript
  <2>5. CASE Calling("heap_init") /\ ContiguousCall(HEAP_FRAMES) /\ Within
    <3>1. at = 9 /\ at' = 9 /\ verdict' = "none"
      BY <2>1, <2>5, ArenaCall DEF Calling, Within
    <3>2. Room(2)
      BY <2>1, <3>1 DEF FrameScript
    <3>3. frames' = HEAP_FRAMES /\ RoomAhead' /\ pc' = "contiguous"
      BY <2>5, <3>2, RoomForArena DEF ContiguousCall
    <3>4. QED
      BY <3>1, <3>3 DEF FrameScript
  <2>6. QED
    BY <1>4, <2>2, <2>3, <2>4, <2>5 DEF FrameCall
<1>5. CASE FrameStep
  <2>1. Starting
    BY <1>5 DEF FrameStep
  <2>2. CASE BumpTake /\ Returned(cursor, Expected(cursor))
    BY <2>1, <2>2, TakeScript
  <2>3. CASE BumpPanic /\ Panic
    BY <2>3 DEF BumpPanic, Panic
  <2>4. CASE (BumpStrand \/ BumpNextRun) /\ Within
    BY <2>1, <2>4, BumpScript
  <2>5. QED
    BY <1>5, <2>1, <2>2, <2>3, <2>4, BumpScript DEF FrameStep
<1>6. CASE HeapCall
  <2>1. Starting /\ Op.op \in {"alloc", "dealloc", "stat"} /\ at' = at /\ verdict' = verdict
    BY <1>6 DEF HeapCall, Calling, Within
  <2>2. at > 9
    BY <2>1, HeapHalf
  <2>3. QED
    BY <1>1, <1>2, <2>1, <2>2
<1>7. CASE HeapStep
  <2>1. Starting /\ hpc \in {"alloc", "dealloc", "stat"} /\ (at' = at \/ at' = at + 1)
    BY <1>7 DEF HeapStep, H!AllocNext, H!DeallocNext, H!StatNext, H!AllocCarve, H!AllocNull,
       H!DeallocFinish, H!StatReturn, Within, Returned, Panic
  <2>2. Op.op \in {"alloc", "dealloc", "stat"}
    BY <2>1 DEF Control
  <2>3. at > 9
    BY <2>1, <2>2, HeapHalf
  <2>4. verdict' = "none"
    BY <1>7, HeapPasses
  <2>5. QED
    BY <1>1, <1>2, <2>1, <2>3, <2>4
<1>8. CASE UpStep \/ UpBump
  <2>1. at > Len(Script) /\ at' = at /\ verdict' = verdict
    BY <1>8 DEF UpStep, UpBump, Up
  <2>2. QED
    BY <1>1, <1>2, <2>1
<1>9. CASE Stopped \/ UNCHANGED everything
  <2>1. UNCHANGED <<vars, at, slot, verdict>>
    BY <1>9 DEF Stopped, everything
  <2>2. FrameScript'
    <3>1. UNCHANGED <<regions, index, cursor, run_end, stack, owned, pc, frames>>
      BY <2>1 DEF vars, alloc
    <3>2. \A n : Room(n) => Room(n)'
      BY <3>1, RoomStays
    <3>3. RoomAhead => RoomAhead'
      BY <3>1 DEF RoomAhead, Fits, Wanted
    <3>4. QED
      BY <2>1, <3>1, <3>2, <3>3 DEF FrameScript
  <2>3. QED
    BY <2>1, <2>2
<1>10. QED
  BY <1>3, <1>4, <1>5, <1>6, <1>7, <1>8, <1>9 DEF MemoryNext

LEMMA UnsuitedMeans ==
    ASSUME FramesInv
    PROVE  StartsWhenItCan <=> (verdict = "Failed" => pc = "panic" \/ ~Suited)
<1>1. ASSUME NEW k \in 1 .. Len(regions), Yields(regions[k])
      PROVE  ~Enough(k) <=> RunEnd(regions[k]) - RunStart(regions[k]) < (HEAP_FRAMES + 2) * PAGE
  <2>1. regions[k] \in Descriptor
    BY MapFacts DEF FramesInv, TypeOK
  <2>2. RunStart(regions[k]) \in Nat /\ RunEnd(regions[k]) \in Nat
    BY <1>1, <2>1, RunIsPages, Sizes
  <2>3. PICK z \in Nat : z = (HEAP_FRAMES + 2) * PAGE
    BY Sizes, MemoryAssumption
  <2>4. QED
    BY <1>1, <2>2, <2>3 DEF Enough
<1>2. ~Suited <=> \A k \in 1 .. Len(regions) :
                     Yields(regions[k]) =>
                        RunEnd(regions[k]) - RunStart(regions[k]) < (HEAP_FRAMES + 2) * PAGE
  <2>1. \A k \in 1 .. Len(regions) : Enough(k) => Yields(regions[k])
    BY DEF Enough
  <2>2. QED
    BY <1>1, <2>1 DEF Suited
<1>3. QED
  BY <1>2 DEF StartsWhenItCan

StartupInv ==
    /\ FramesInv /\ Control
    /\ verdict = "none" => HeapScript /\ (Suited => FrameScript)
    /\ verdict = "Failed" => pc = "panic" \/ ~Suited

LEMMA StartupInit == MemoryInit => StartupInv
<1> SUFFICES ASSUME MemoryInit PROVE StartupInv
  OBVIOUS
<1>1. FramesInv /\ Control /\ HeapScript
  BY InitHolds, ControlInit, HeapScriptInit DEF MemoryInit
<1>2. at = 1 /\ stack = <<>> /\ pc = "boot" /\ verdict = "none"
  BY DEF MemoryInit, Init
<1>3. FrameScript
  BY <1>2 DEF FrameScript
<1>4. QED
  BY <1>1, <1>2, <1>3 DEF StartupInv

LEMMA StartupStep == StartupInv /\ [MemoryNext]_everything => StartupInv'
<1> SUFFICES ASSUME StartupInv, [MemoryNext]_everything PROVE StartupInv'
  OBVIOUS
<1>1. FramesInv /\ Control /\ FramesInv' /\ Control'
  BY MemoryStep, ControlStep DEF StartupInv
<1>2. Suited' <=> Suited
  BY RegionsStay DEF Suited, Enough
<1>3. CASE verdict = "Failed"
  <2>1. UNCHANGED <<verdict, pc>>
    BY <1>1, <1>3, Resting DEF everything, vars
  <2>2. QED
    BY <1>1, <1>2, <1>3, <2>1 DEF StartupInv
<1>4. CASE verdict = "none"
  <2>1. verdict' = "none" => HeapScript'
    BY <1>1, <1>4, HeapScriptStep DEF StartupInv
  <2>2. Suited => (verdict' = "none" => FrameScript') /\ (verdict' # "none" => pc' = "panic")
    BY <1>1, <1>4, FrameScriptStep DEF StartupInv
  <2>3. QED
    BY <1>1, <1>2, <2>1, <2>2 DEF StartupInv
<1>5. QED
  BY <1>1, <1>3, <1>4 DEF Control

LEMMA StartupInvariance == MemorySpec => []StartupInv
BY StartupInit, StartupStep, PTL DEF MemorySpec

\* Start-up gives up only on a machine too small for it, or when bump's own
\* arithmetic overflows: with one run of the heap's frames and two more in the
\* map, wherever it is, frame::selftest gets the frames it expects, heap::init
\* its arena, and heap::selftest every block it asks for, and the two
\* statistics agree (kernel/src/main.rs, frame.rs, heap.rs).
THEOREM StartupNeedsLittle == MemorySpec => []StartsWhenItCan
<1>1. StartupInv => StartsWhenItCan
  BY UnsuitedMeans DEF StartupInv
<1>2. QED
  BY <1>1, StartupInvariance, PTL

\* From heap::init on, the heap that start-up uses is whole: its free list is
\* sorted, coalesced and inside the arena, and what it lists and what is
\* allocated tile the arena (heap.rs, over the frames that frame.rs gave it).
THEOREM StartupHeapIsWhole == MemorySpec => [](verdict = "none" /\ at > 9 => HP!HeapWhole)
<1>1. StartupInv => (verdict = "none" /\ at > 9 => HP!HeapWhole)
  BY DEF StartupInv, HeapScript, Armed, HP!IInv
<1>2. QED
  BY <1>1, StartupInvariance, PTL

-----------------------------------------------------------------------------
(* The heap's arena, among the frames *)

\* The frames that heap::init was given.
Arena == {a \in Page : slot["heap"] <= a /\ a < slot["heap"] + HEAP_FRAMES * PAGE}

ArenaIsKept ==
    verdict = "none" /\ at > 9 =>
        /\ IsFiniteSet(Arena) /\ Cardinality(Arena) = HEAP_FRAMES
        /\ Arena \subseteq owned \ singles

\* heap::init asks for the arena and for nothing else.
ArenaWanted == Starting /\ pc = "contiguous" => frames = HEAP_FRAMES

\* What bump takes lay ahead, and so was nobody's.
LEMMA TakenIsFree ==
    ASSUME FramesInv, BumpTake
    PROVE  LET T == {a \in Page : cursor <= a /\ a < cursor + Wanted}
           IN  /\ T \cap owned = {} /\ IsFiniteSet(T) /\ Cardinality(T) = frames
               /\ owned' = owned \cup T
               /\ singles' = IF pc = "frame" THEN singles \cup T ELSE singles
<1> DEFINE T == {a \in Page : cursor <= a /\ a < cursor + Wanted}
<1>1. /\ Fits /\ owned' = owned \cup T
      /\ singles' = (IF pc = "frame" THEN singles \cup T ELSE singles)
  BY DEF BumpTake
<1>2. cursor \in Nat /\ run_end \in Nat /\ frames \in Nat /\ cursor \in Page /\ run_end < LIMIT
  BY Sizes DEF FramesInv, TypeOK
<1>3. Wanted \in Nat /\ cursor + Wanted <= run_end /\ LIMIT \in Nat
  <2>1. frames * PAGE \in Nat /\ LIMIT \in Nat
    BY <1>2, Sizes
  <2>2. QED
    BY <1>1, <1>2, <2>1 DEF Fits, Wanted
<1>4. T \subseteq Ahead
  <2> SUFFICES ASSUME NEW a \in Page, cursor <= a, a < cursor + Wanted PROVE a \in Ahead
    OBVIOUS
  <2>1. a \in Nat
    BY Sizes
  <2>2. a < run_end
    BY <1>2, <1>3, <2>1
  <2>3. QED
    BY <2>2 DEF Ahead
<1>5. IsFiniteSet(T) /\ Cardinality(T) = frames
  <2>1. cursor + frames * PAGE <= LIMIT
    BY <1>2, <1>3 DEF Wanted
  <2>2. QED
    BY <1>2, <2>1, TakenCount DEF Wanted
<1> HIDE DEF T
<1>6. T \cap owned = {}
  BY <1>4, Facts
<1>7. QED
  BY <1>1, <1>5, <1>6 DEF T

\* Neither a client nor bump takes a frame from whoever holds it, except for
\* dealloc_frame, and that only with a frame that alloc_frame returned.
LEMMA OwnersKeep ==
    ASSUME FramesInv, Client \/ Bump
    PROVE  owned \ singles \subseteq owned' \ singles'
<1>1. CASE AllocPop
  <2>1. owned' = owned \cup {free} /\ singles' = singles \cup {free} /\ free # NONE
    BY <1>1 DEF AllocPop
  <2>2. free \in Stacked
    <3>1. stack' = Tail(stack) /\ free' = node[free] /\ node' = node
      BY <1>1 DEF AllocPop
    <3>2. QED
      BY <2>1, <3>1, Facts, PopKeeps
  <2>3. QED
    BY <2>1, <2>2, Facts
<1>2. ASSUME NEW a \in singles, Dealloc(a) PROVE owned \ singles \subseteq owned' \ singles'
  BY <1>2 DEF Dealloc
<1>3. CASE BumpTake
  <2> DEFINE T == {a \in Page : cursor <= a /\ a < cursor + Wanted}
  <2>1. /\ T \cap owned = {} /\ owned' = owned \cup T
        /\ singles' = IF pc = "frame" THEN singles \cup T ELSE singles
    BY <1>3, TakenIsFree
  <2> HIDE DEF T
  <2>2. QED
    BY <2>1
<1>4. CASE UNCHANGED <<owned, singles>>
  BY <1>4
<1>5. Client \/ Bump => \/ AllocPop \/ BumpTake \/ UNCHANGED <<owned, singles>>
                        \/ \E a \in singles : Dealloc(a)
  BY DEF Client, AllocBump, ContiguousCall, ClientWrite, Bump, BumpStrand, BumpPanic, BumpNextRun, BumpNone
<1>6. QED
  BY <1>1, <1>2, <1>3, <1>4, <1>5

LEMMA HeapNamesOther ==
    ASSUME NEW i \in 10 .. Len(Script)
    PROVE  Script[i].name # "heap"
<1>1. Accounts(Script[i], HeldAt(i), HeldAt(i + 1))
  BY ScriptAccounts
<1>2. \A j : \A h \in HeldAt(j) : h.name \in {"box", "odd", "even", "first", "middle", "last"}
  BY DEF HeldAt, Buffers, Hold, Buffer
<1>3. CASE Script[i].op = "stat"
  BY <1>1, <1>3 DEF Accounts
<1>4. CASE Script[i].op \in {"alloc", "dealloc"}
  <2>1. PICK j : HoldOf(Script[i]) \in HeldAt(j)
    BY <1>1, <1>4 DEF Accounts
  <2>2. HoldOf(Script[i]).name = Script[i].name
    BY DEF HoldOf, Hold
  <2>3. Script[i].name \in {"box", "odd", "even", "first", "middle", "last"}
    BY <1>2, <2>1, <2>2
  <2>4. QED
    BY <2>3
<1>5. QED
  BY <1>1, <1>3, <1>4 DEF Accounts

LEMMA ArenaWantedStep ==
    ASSUME Control, ArenaWanted, [MemoryNext]_everything
    PROVE  ArenaWanted'
<1>1. \/ ~Starting' \/ pc' # "contiguous" \/ frames' = HEAP_FRAMES
      \/ frames' = frames /\ pc = "contiguous" /\ Starting
  <2>1. CASE FrameInit /\ UNCHANGED <<heap, at, slot>>
    BY <2>1 DEF FrameInit, Seed, SeedFails
  <2>2. CASE FrameCall
    BY <2>2 DEF FrameCall, Calling, AllocPop, AllocBump, Dealloc, ContiguousCall
  <2>3. CASE FrameStep
    BY <2>3 DEF FrameStep, BumpTake, BumpNone, BumpPanic, BumpStrand, BumpNextRun
  <2>4. CASE HeapCall \/ HeapStep
    BY <2>4 DEF HeapCall, HeapStep, Calling, vars
  <2>5. CASE UpStep \/ UpBump
    <3>1. at \in Nat /\ Len(Script) \in Nat
      BY ScriptLength DEF Control
    <3>2. QED
      BY <2>5, <3>1 DEF UpStep, UpBump, Up, Starting
  <2>6. CASE Stopped \/ UNCHANGED everything
    BY <2>6 DEF Stopped, everything, vars, Starting
  <2>7. QED
    BY <2>1, <2>2, <2>3, <2>4, <2>5, <2>6 DEF MemoryNext
<1>2. QED
  BY <1>1 DEF ArenaWanted

LEMMA ArenaStep ==
    ASSUME FramesInv, Control, ArenaWanted, ArenaIsKept, [MemoryNext]_everything
    PROVE  ArenaIsKept'
<1> SUFFICES ASSUME verdict' = "none", at' > 9
             PROVE  /\ IsFiniteSet(Arena') /\ Cardinality(Arena') = HEAP_FRAMES
                    /\ Arena' \subseteq owned' \ singles'
  BY DEF ArenaIsKept
<1>1. verdict = "none" /\ at \in Nat \ {0} /\ DOMAIN slot = Names /\ Len(Script) \in Nat /\ Len(Script) >= 20
  BY StillStarting, ScriptLength DEF Control
<1>2. ASSUME at > 9, slot'["heap"] = slot["heap"], owned \ singles \subseteq owned' \ singles'
      PROVE  /\ IsFiniteSet(Arena') /\ Cardinality(Arena') = HEAP_FRAMES
             /\ Arena' \subseteq owned' \ singles'
  <2>1. Arena' = Arena
    BY <1>2 DEF Arena
  <2>2. QED
    BY <1>1, <1>2, <2>1 DEF ArenaIsKept
<1>3. CASE FrameInit /\ UNCHANGED <<heap, at, slot>>
  <2>1. at = 1 /\ at' = 1
    BY <1>3 DEF FrameInit, Seed, SeedFails, Control
  <2>2. QED
    BY <2>1
<1>4. CASE FrameCall
  <2>1. Starting /\ Op.op \in {"alloc_frame", "dealloc_frame", "heap_init"}
    BY <1>4 DEF FrameCall, Calling
  <2>2. CASE Op.op = "heap_init"
    <3>1. at = 9 /\ at' = at
      BY <1>4, <2>1, <2>2, ArenaCall DEF FrameCall, Calling, Within
    <3>2. QED
      BY <3>1
  <2>3. CASE Op.op # "heap_init"
    <3>1. at \in 1 .. 8
      BY <2>1, <2>3, FrameHalf
    <3>2. at' = at \/ at' = at + 1
      BY <1>4 DEF FrameCall, Within, Returned
    <3>3. QED
      BY <3>1, <3>2
  <2>4. QED
    BY <2>2, <2>3
<1>5. CASE FrameStep
  <2>1. Starting /\ pc \in {"frame", "contiguous"} /\ (at' = at \/ at' = at + 1)
    BY <1>5 DEF FrameStep, BumpTake, BumpNone, BumpPanic, BumpStrand, BumpNextRun, Returned, Within, Panic
  <2>2. CASE pc = "frame"
    <3>1. at \in 1 .. 8
      BY <2>1, <2>2, FrameHalf DEF Control
    <3>2. QED
      BY <2>1, <3>1
  <2>3. CASE pc = "contiguous"
    <3>1. at = 9 /\ at' # at
      BY <2>1, <2>3, ArenaCall DEF Control
    <3>2. BumpTake /\ Returned(cursor, Expected(cursor))
      BY <1>5, <3>1 DEF FrameStep, Returned, Within, Panic
    <3>3. frames = HEAP_FRAMES /\ Op.name = "heap"
      BY <2>1, <2>3, <3>1, FrameOp DEF ArenaWanted
    <3>4. slot' = [slot EXCEPT !["heap"] = cursor]
      BY <3>2, <3>3 DEF Returned
    <3>5. slot'["heap"] = cursor
      BY <1>1, <3>4, CallNames
    <3>6. Arena' = {a \in Page : cursor <= a /\ a < cursor + Wanted}
      BY <3>3, <3>5 DEF Arena, Wanted
    <3>7. /\ Arena' \cap owned = {} /\ IsFiniteSet(Arena') /\ Cardinality(Arena') = HEAP_FRAMES
          /\ owned' = owned \cup Arena' /\ singles' = singles
      BY <2>3, <3>2, <3>3, <3>6, TakenIsFree
    <3>8. singles \subseteq owned
      BY DEF FramesInv, TypeOK
    <3>9. QED
      BY <3>7, <3>8
  <2>4. QED
    BY <2>1, <2>2, <2>3
<1>6. CASE HeapCall \/ HeapStep
  <2>1. Starting /\ UNCHANGED <<owned, singles>>
    BY <1>6 DEF HeapCall, HeapStep, Calling, vars
  <2>2. Op.op \in {"alloc", "dealloc", "stat"}
    BY <1>6, <2>1 DEF HeapCall, Calling, Control, HeapStep, H!AllocNext, H!DeallocNext, H!StatNext,
       H!AllocCarve, H!AllocNull, H!DeallocFinish, H!StatReturn
  <2>3. at > 9 /\ at \in 10 .. Len(Script)
    BY <1>1, <2>1, <2>2, HeapHalf DEF Starting
  <2>4. Op.name # "heap"
    BY <2>3, HeapNamesOther DEF Op
  <2>5. slot' = slot \/ \E v : slot' = [slot EXCEPT ![Op.name] = v]
    BY <1>6 DEF HeapCall, HeapStep, Within, Returned, Panic
  <2>6. slot'["heap"] = slot["heap"]
    BY <1>1, <2>4, <2>5, CallNames
  <2>7. QED
    BY <1>2, <2>1, <2>3, <2>6
<1>7. CASE UpStep \/ UpBump
  <2>1. at > 9 /\ slot' = slot /\ (Client \/ Bump)
    BY <1>1, <1>7 DEF UpStep, UpBump, Up
  <2>2. QED
    BY <1>2, <2>1, OwnersKeep
<1>8. CASE Stopped \/ UNCHANGED everything
  <2>1. UNCHANGED <<owned, singles, slot, at>>
    BY <1>8 DEF Stopped, everything, vars
  <2>2. QED
    BY <1>2, <2>1
<1>9. QED
  BY <1>3, <1>4, <1>5, <1>6, <1>7, <1>8 DEF MemoryNext

\* The heap's arena is HEAP_FRAMES frames that stay the heap's: whatever clients
\* do once the kernel is up, no frame of it is handed out by alloc_frame or
\* alloc_contiguous, or is one that dealloc_frame may be given (frame.rs bump
\* and dealloc_frame; heap.rs init).
THEOREM ArenaStaysTheHeaps == MemorySpec => []ArenaIsKept
<1>1. MemoryInit => ArenaWanted /\ ArenaIsKept
  BY DEF MemoryInit, Init, ArenaWanted, ArenaIsKept
<1>2. ArenaWanted /\ ArenaIsKept /\ StartupInv /\ [MemoryNext]_everything => (ArenaWanted /\ ArenaIsKept)'
  BY ArenaWantedStep, ArenaStep DEF StartupInv
<1>3. QED
  BY <1>1, <1>2, StartupInvariance, PTL DEF MemorySpec

-----------------------------------------------------------------------------
(* The loops of start-up end *)

\* A turn of bump ends the call, or goes up its run, or on to a later one.
BumpAdvances ==
    \/ pc' \in {"idle", "panic"}
    \/ /\ pc' = pc
       /\ \/ index < index' /\ index' <= Len(regions)
          \/ index' = index /\ run_end' = run_end /\ cursor < cursor' /\ cursor' <= run_end

LEMMA BumpGoesOn ==
    ASSUME FramesInv, Bump
    PROVE  BumpAdvances
<1>1. cursor \in Nat /\ run_end \in Nat /\ PAGE \in Nat \ {0} /\ index \in Nat /\ Len(regions) \in Nat
  BY Sizes, MapFacts DEF FramesInv, TypeOK
<1>2. CASE BumpTake \/ BumpPanic \/ BumpNone
  BY <1>2 DEF BumpTake, BumpPanic, BumpNone, BumpAdvances
<1>3. CASE BumpStrand
  BY <1>1, <1>3 DEF BumpStrand, Remaining, BumpAdvances
<1>4. CASE BumpNextRun
  <2>1. PICK j \in 1 .. Len(regions) : IsNextRun(index, j) /\ EnterRun(j)
    BY <1>4 DEF BumpNextRun
  <2>2. index < j /\ index' = j
    BY <1>1, <2>1 DEF IsNextRun, EnterRun
  <2>3. QED
    BY <1>1, <1>4, <2>2 DEF BumpNextRun, BumpAdvances
<1>5. QED
  BY <1>2, <1>3, <1>4 DEF Bump

\* Every turn of bump's two loops makes headway over the map, whatever the map
\* and the request: the next page of the run, or a later descriptor (frame.rs,
\* bump).
THEOREM BumpEnds ==
    /\ Spec => [][Bump => BumpAdvances]_vars
    /\ MemorySpec => [][Bump => BumpAdvances]_vars
<1>1. FramesInv => [Bump => BumpAdvances]_vars
  BY BumpGoesOn
<1>2. QED
  BY <1>1, Invariance, MemoryInvariance, PTL

\* The same of the heap's walks during start-up, over an arena that the frame
\* allocator gave it.
THEOREM StartupWalksEnd == MemorySpec => [][HeapStep => HP!WalkAdvances]_everything
<1>1. StartupInv => [HeapStep => HP!WalkAdvances]_everything
  <2> SUFFICES ASSUME StartupInv, HeapStep PROVE HP!WalkAdvances
    OBVIOUS
  <2>1. Starting /\ hpc \in {"alloc", "dealloc", "stat"}
    BY DEF HeapStep, H!AllocNext, H!DeallocNext, H!StatNext, H!AllocCarve, H!AllocNull,
       H!DeallocFinish, H!StatReturn
  <2>2. Control /\ verdict = "none" /\ HeapScript
    BY <2>1 DEF StartupInv, Starting
  <2>3. at > 9
    BY <2>1, <2>2, HeapHalf DEF Control
  <2>4. HP!IInv
    BY <2>2, <2>3 DEF HeapScript, Armed
  <2>5. HP!Step
    BY HeapWalks, HeapCarves, HeapFinishes DEF HeapStep, HP!Step
  <2>6. QED
    BY <2>4, <2>5, HP!StepAdvances, ArenaAssumption
<1>2. QED
  BY <1>1, StartupInvariance, PTL
=============================================================================
