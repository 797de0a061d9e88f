----------------------------- MODULE BootProofs -----------------------------
(***************************************************************************)
(* Proofs about the bootloader, for every size of memory and memory map,   *)
(* every capacity of the region array and size of the stack, every set of  *)
(* pages the kernel asks for and every size of its file.                   *)
(***************************************************************************)
EXTENDS Boot, ArithProofs, FiniteSetTheorems, SequenceTheorems, TLAPS

Kinds == {"conventional", "services", "reserved", "loader"}

-----------------------------------------------------------------------------
(* The memory map *)

LEMMA PageBounds == \A p \in Page : p \in Nat /\ p < PageCount /\ p <= PageCount
BY BootAssumption DEF Page

\* Sets of pages are finite.
LEMMA PagesFinite ==
    ASSUME NEW S \in SUBSET Page
    PROVE  S \in SUBSET Nat /\ IsFiniteSet(S)
<1>1. IsFiniteSet(Page) /\ Page \subseteq Nat
  BY BootAssumption, FS_Interval DEF Page
<1>2. QED
  BY <1>1, FS_Subset

\* Every rank is taken: of n pages, one has exactly i - 1 below it.
LEMMA RankTaken ==
    ASSUME NEW S \in SUBSET Page, NEW i \in 1 .. Cardinality(S)
    PROVE  \E s \in S : Cardinality({t \in S : t < s}) = i - 1
<1> DEFINE N == Cardinality(S)
           Below(s) == {t \in S : t < s}
           rank == [s \in S |-> Cardinality(Below(s))]
<1>1. S \in SUBSET Nat /\ IsFiniteSet(S) /\ N \in Nat /\ N >= 1
  BY PagesFinite, FS_CardinalityType
<1>2. ASSUME NEW s \in S
      PROVE  IsFiniteSet(Below(s)) /\ Cardinality(Below(s)) \in 0 .. (N - 1)
  <2>1. Below(s) \in SUBSET (S \ {s})
    BY <1>1
  <2>2. IsFiniteSet(S \ {s}) /\ Cardinality(S \ {s}) = N - 1
    BY <1>1, FS_RemoveElement
  <2>3. IsFiniteSet(Below(s)) /\ Cardinality(Below(s)) <= N - 1
    BY <2>1, <2>2, FS_Subset
  <2>4. QED
    BY <1>1, <2>3, FS_CardinalityType
<1>3. ASSUME NEW s \in S, NEW u \in S, s < u
      PROVE  Cardinality(Below(s)) # Cardinality(Below(u))
  <2>1. Below(s) \in SUBSET Below(u) /\ s \in Below(u) /\ s \notin Below(s)
    <3>1. s \in Nat /\ u \in Nat /\ \A t \in S : t \in Nat
      BY <1>1
    <3>2. \A t \in S : t < s => t < u
      BY <1>3, <3>1
    <3>3. ~(s < s)
      BY <3>1
    <3>4. QED
      BY <1>3, <3>2, <3>3
  <2>2. QED
    BY <1>2, <2>1, FS_Subset
<1> HIDE DEF N, Below
<1>4. rank \in Injection(S, 0 .. (N - 1))
  <2>1. rank \in [S -> 0 .. (N - 1)]
    BY <1>2
  <2>2. \A s, u \in S : rank[s] = rank[u] => s = u
    BY <1>1, <1>3
  <2>3. QED
    BY <2>1, <2>2 DEF Injection, IsInjective
<1>5. IsFiniteSet(0 .. (N - 1)) /\ Cardinality(0 .. (N - 1)) = N
  BY <1>1, FS_Interval
<1>6. rank \in Surjection(S, 0 .. (N - 1))
  BY <1>1, <1>4, <1>5, FS_Injection DEF N
<1>7. i - 1 \in 0 .. (N - 1)
  BY <1>1 DEF N
<1>8. PICK s \in S : rank[s] = i - 1
  BY <1>6, <1>7 DEF Surjection
<1>9. QED
  BY <1>8 DEF Below

\* A kind changes only where a descriptor starts: between two starts it is
\* the same throughout.
LEMMA UniformBetween ==
    ASSUME NEW k \in [Page -> Kinds], NEW a \in Page, NEW p \in Page, a <= p,
           \A q \in Page : a < q /\ q <= p => q \notin Starts(k)
    PROVE  k[p] = k[a]
<1> DEFINE Bad == {q \in Page : a <= q /\ q <= p /\ k[q] # k[a]}
<1>1. Page \subseteq Nat /\ \A q \in Page : q > 0 => q - 1 \in Page
  BY BootAssumption DEF Page
<1>2. SUFFICES ASSUME Bad # {} PROVE FALSE
  BY <1>1
<1>3. Bad \in SUBSET Nat
  BY <1>1
<1>4. PICK q \in Bad : \A u \in Bad : q <= u
  BY <1>2, <1>3, LeastElement
<1>5. q \in Page /\ a < q /\ q <= p /\ k[q] # k[a]
  <2>1. q \in Page /\ a <= q /\ q <= p /\ k[q] # k[a]
    BY <1>4
  <2>2. q # a
    BY <2>1
  <2>3. QED
    BY <1>1, <2>1, <2>2
<1>6. q - 1 \in Page /\ a <= q - 1 /\ q - 1 <= p /\ q - 1 < q
  BY <1>1, <1>5
<1>7. k[q - 1] = k[a]
  <2>1. q - 1 \notin Bad
    BY <1>1, <1>4, <1>6
  <2>2. QED
    BY <1>6, <2>1
<1>8. q \in Starts(k)
  BY <1>5, <1>7 DEF Starts
<1>9. QED
  BY <1>5, <1>8

Described == [start : Nat, pages : Nat, kind : Kinds]

\* What the firmware's final map says: each descriptor names the kind of every
\* page it covers, wherever the firmware splits what it might have joined.
LEMMA DescriptorsDescribe ==
    ASSUME NEW k \in [Page -> Kinds], NEW S \in SUBSET Page, Starts(k) \subseteq S
    PROVE  /\ Descriptors(k, S) \in Seq(Described)
           /\ Len(Descriptors(k, S)) = Cardinality(S)
           /\ \A i \in 1 .. Cardinality(S) : \A p \in Nat :
                 LET d == Descriptors(k, S)[i]
                 IN  d.start <= p /\ p < d.start + d.pages => p \in Page /\ k[p] = d.kind
<1> DEFINE N == Cardinality(S)
           Below(s) == {t \in S : t < s}
           first(i) == CHOOSE s \in S : Cardinality(Below(s)) = i - 1
           end(i) == IF i = N THEN PageCount ELSE first(i + 1)
           d(i) == [start |-> first(i), pages |-> end(i) - first(i), kind |-> k[first(i)]]
<1>1. S \in SUBSET Nat /\ IsFiniteSet(S) /\ N \in Nat
  BY PagesFinite, FS_CardinalityType
<1>2. Descriptors(k, S) = [i \in 1 .. N |-> d(i)]
  BY DEF Descriptors
<1>3. ASSUME NEW i \in 1 .. N
      PROVE  first(i) \in S /\ Cardinality(Below(first(i))) = i - 1
  BY RankTaken
<1>4. ASSUME NEW s \in S
      PROVE  IsFiniteSet(Below(s)) /\ Cardinality(Below(s)) \in Nat
  BY <1>1, FS_Subset, FS_CardinalityType
<1> HIDE DEF N, Below, first
\* A start above another has a greater rank.
<1>5. ASSUME NEW s \in S, NEW u \in S, s < u
      PROVE  Cardinality(Below(s)) < Cardinality(Below(u))
  <2>1. Below(s) \in SUBSET Below(u) /\ s \in Below(u) /\ s \notin Below(s)
    <3>1. s \in Nat /\ u \in Nat /\ \A t \in S : t \in Nat
      BY <1>1
    <3>2. \A t \in S : t < s => t < u
      BY <1>5, <3>1
    <3>3. ~(s < s)
      BY <3>1
    <3>4. QED
      BY <1>5, <3>2, <3>3 DEF Below
  <2>2. Cardinality(Below(s)) <= Cardinality(Below(u)) /\ Cardinality(Below(s)) # Cardinality(Below(u))
    BY <1>4, <2>1, FS_Subset
  <2>3. QED
    BY <1>4, <2>2
\* So no start lies between the first page of a descriptor and its end.
<1>6. ASSUME NEW i \in 1 .. N
      PROVE  /\ first(i) \in Page /\ first(i) \in Nat /\ end(i) \in Nat
             /\ first(i) < end(i) /\ end(i) <= PageCount
             /\ \A s \in S : ~(first(i) < s /\ s < end(i))
  <2>1. first(i) \in S /\ first(i) \in Page /\ first(i) \in Nat /\ first(i) < PageCount
    <3>1. first(i) \in S
      BY <1>3
    <3>2. QED
      BY <3>1, PageBounds
  <2>2. CASE i = N
    <3>1. end(i) = PageCount
      BY <2>2
    <3>2. ASSUME NEW s \in S, first(i) < s PROVE FALSE
      <4>1. Cardinality(Below(s)) > N - 1
        BY <1>3, <1>4, <1>5, <2>1, <2>2, <3>2
      <4>2. Below(s) \in SUBSET S /\ s \notin Below(s)
        BY <1>1 DEF Below
      <4>3. Cardinality(Below(s)) <= N /\ Cardinality(Below(s)) # N
        BY <1>1, <4>2, FS_Subset DEF N
      <4>4. QED
        BY <1>1, <1>4, <4>1, <4>3
    <3>3. QED
      BY <2>1, <3>1, <3>2, BootAssumption
  <2>3. CASE i # N
    <3>1. i + 1 \in 1 .. N /\ end(i) = first(i + 1)
      BY <1>1, <2>3
    <3>2. end(i) \in S /\ Cardinality(Below(end(i))) = i
      BY <1>3, <3>1
    <3>3. end(i) \in Nat /\ end(i) <= PageCount
      BY <3>2, PageBounds
    <3>4. first(i) < end(i)
      <4>1. ~(end(i) < first(i)) /\ end(i) # first(i)
        BY <1>3, <1>4, <1>5, <2>1, <3>2
      <4>2. QED
        BY <2>1, <3>3, <4>1
    <3>5. ASSUME NEW s \in S, first(i) < s, s < end(i) PROVE FALSE
      <4>1. i - 1 < Cardinality(Below(s)) /\ Cardinality(Below(s)) < i
        BY <1>3, <1>5, <2>1, <3>2, <3>5
      <4>2. QED
        BY <1>4, <4>1
    <3>6. QED
      BY <2>1, <3>3, <3>4, <3>5
  <2>4. QED
    BY <2>2, <2>3
<1> HIDE DEF end
<1>7. ASSUME NEW i \in 1 .. N
      PROVE  d(i) \in Described
  <2>1. end(i) - first(i) \in Nat /\ k[first(i)] \in Kinds /\ first(i) \in Nat
    BY <1>6
  <2>2. QED
    BY <2>1 DEF Described
<1>8. ASSUME NEW i \in 1 .. N, NEW p \in Nat, first(i) <= p, p < end(i)
      PROVE  p \in Page /\ k[p] = k[first(i)]
  <2>1. p \in Page
    BY <1>6, <1>8, BootAssumption DEF Page
  <2>2. \A q \in Page : first(i) < q /\ q <= p => q \notin Starts(k)
    <3>1. \A q \in Page : q <= p => q < end(i)
      BY <1>6, <1>8, BootAssumption DEF Page
    <3>2. QED
      BY <1>6, <3>1
  <2>3. QED
    BY <1>6, <1>8, <2>1, <2>2, UniformBetween
<1>9. Descriptors(k, S) \in Seq(Described) /\ Len(Descriptors(k, S)) = N
  <2>1. [i \in 1 .. N |-> d(i)] \in [1 .. N -> Described]
    BY <1>7
  <2> HIDE DEF d
  <2>2. QED
    BY <1>1, <1>2, <2>1
<1>10. ASSUME NEW i \in 1 .. N, NEW p \in Nat,
              d(i).start <= p, p < d(i).start + d(i).pages
       PROVE  p \in Page /\ k[p] = d(i).kind
  <2>1. first(i) <= p /\ p < first(i) + (end(i) - first(i))
    BY <1>10
  <2>2. p < end(i)
    BY <1>6, <2>1
  <2>3. QED
    BY <1>8, <2>1, <2>2
<1> HIDE DEF d
<1>11. QED
  BY <1>2, <1>9, <1>10 DEF N

-----------------------------------------------------------------------------
(* The inductive invariant *)

\* The steps behind each of the things main does in turn.
Entered   == {"start", "kernel"}
Exited    == {"copy"} \cup Entered
HasInfo   == {"exit"} \cup Exited
HasStack  == {"info"} \cup HasInfo
HasArray  == {"stack"} \cup HasStack
HasScreen == {"regions"} \cup HasArray
HasKernel == {"drop", "graphics"} \cup HasScreen
Stopped   == {"failed", "panic"}

TypeOK ==
    /\ pc \in {"open", "read"} \cup HasKernel \cup Stopped
    /\ kind \in [Page -> Kinds]
    /\ image \in SUBSET Page /\ kernel \in SUBSET Page /\ array \in SUBSET Page
    /\ stack \in SUBSET Page /\ info \in SUBSET Page
    /\ map \in Seq(Described) /\ regions \in Seq([start : Nat, pages : Nat, kind : Nat])

\* What is claimed is the loader's, and claimed once.
Claimed ==
    /\ \A p \in image \cup kernel \cup array \cup stack \cup info : kind[p] = "loader"
    /\ image \cap (kernel \cup array \cup stack \cup info) = {}
    /\ kernel \cap (array \cup stack \cup info) = {}
    /\ array \cap (stack \cup info) = {} /\ stack \cap info = {}

\* What has not been claimed yet.
InTurn ==
    /\ pc \in {"open", "read"} => kernel = {}
    /\ pc \in {"open", "read", "drop", "graphics", "regions"} => array = {}
    /\ pc \in {"open", "read", "drop", "graphics", "regions", "stack"} => stack = {}
    /\ pc \in {"open", "read", "drop", "graphics", "regions", "stack", "info"} => info = {}
    /\ pc \notin Exited => regions = <<>>
    /\ pc = "open" => image = {}

\* What has been claimed, and how large it is.
Shapes ==
    /\ pc \in HasArray => Cardinality(array) = ArrayPages
    /\ pc \in HasStack => \E i \in Page : stack = i .. (i + KERNEL_STACK_PAGES - 1)
    /\ pc \in HasInfo => \E i \in Page \ {0} : info = {i}
    /\ pc \in HasScreen => mode \in PixelFormatKind

\* The BootInfo page, whose last field comes last.
InfoWritten ==
    /\ pc \in HasInfo => \E n \in Nat : bootInfo = [NewBootInfo EXCEPT !.memory_regions_len = n]
    /\ pc \in Entered => bootInfo = [NewBootInfo EXCEPT !.memory_regions_len = Len(regions)]

\* The final map is exact, and the array has a prefix of it.
MapCopied ==
    /\ pc \in Exited => \A i \in 1 .. Len(map) : \A p \in Nat :
          map[i].start <= p /\ p < map[i].start + map[i].pages => p \in Page /\ kind[p] = map[i].kind
    /\ Len(regions) <= Len(map) /\ Len(regions) <= Capacity
    /\ \A i \in 1 .. Len(regions) : regions[i] = Region(map[i])

Entry ==
    pc \in Entered => ~iflag /\ rsp = EntryStack((Lowest(stack) + KERNEL_STACK_PAGES) * PAGE)

BootInv == TypeOK /\ Claimed /\ InTurn /\ Shapes /\ InfoWritten /\ MapCopied /\ Entry

-----------------------------------------------------------------------------
(* Claiming pages *)

LEMMA FreeRun ==
    ASSUME NEW n \in Nat, NEW r \in PoolRuns(n)
    PROVE  /\ r \in SUBSET Page /\ \A p \in r : kind[p] = "conventional"
           /\ \E i \in Page : r = i .. (i + n - 1)
           /\ Cardinality(r) = n
<1>1. PICK i \in Page : r = i .. (i + n - 1)
  BY DEF PoolRuns
<1>2. i \in Nat /\ Cardinality(i .. (i + n - 1)) = n
  BY PageBounds, FS_Interval
<1>3. r \in SUBSET Page /\ \A p \in r : kind[p] = "conventional"
  BY DEF PoolRuns
<1>4. QED
  BY <1>1, <1>2, <1>3

LEMMA MarkedPages ==
    ASSUME kind \in [Page -> Kinds], NEW r \in SUBSET Page, NEW k \in Kinds
    PROVE  /\ Marked(r, k) \in [Page -> Kinds]
           /\ \A p \in r : Marked(r, k)[p] = k
           /\ \A p \in Page \ r : Marked(r, k)[p] = kind[p]
BY DEF Marked

\* The numbers of the region array: it holds the entries its capacity allows.
LEMMA ArraySize ==
    /\ ArrayPages \in Nat /\ Capacity \in Nat
    /\ Capacity * ENTRY <= ArrayPages * PAGE
<1> USE BootAssumption
<1>1. REGION_CAPACITY * ENTRY \in Nat
  OBVIOUS
<1>2. NextMultiple(REGION_CAPACITY * ENTRY, PAGE) \in Nat
  BY <1>1, NextMultipleIsLeast
<1>3. \A x \in Nat, m \in Nat \ {0} : x \div m \in Nat /\ (x \div m) * m <= x
  BY Z3
<1>4. ArrayPages \in Nat
  BY <1>2, <1>3 DEF ArrayPages
<1>5. ArrayPages * PAGE \in Nat /\ ENTRY \in Nat \ {0}
  BY <1>4
<1>6. QED
  BY <1>3, <1>4, <1>5 DEF Capacity

\* Of the firmware's memory types, only free memory's is CONVENTIONAL.
LEMMA TypeNumbers ==
    \A k \in Kinds : MemoryType[k] \in Nat /\ (MemoryType[k] = CONVENTIONAL <=> k = "conventional")
<1>1. /\ MemoryType["conventional"] = 7 /\ MemoryType["services"] = 4
      /\ MemoryType["reserved"] = 0 /\ MemoryType["loader"] = 2
  BY DEF MemoryType
<1>2. QED
  BY <1>1 DEF Kinds, CONVENTIONAL

\* What a step before the map is final has to show.
LEMMA EarlyStep ==
    ASSUME BootInv, TypeOK', Claimed', InTurn', Shapes',
           UNCHANGED <<map, regions>>, pc' \notin HasInfo
    PROVE  BootInv'
<1>1. Len(regions') <= Len(map') /\ Len(regions') <= Capacity
  BY DEF BootInv, MapCopied
<1>2. MapCopied'
  BY <1>1 DEF BootInv, MapCopied, HasInfo, Exited, Region
<1>3. InfoWritten' /\ Entry'
  BY DEF InfoWritten, Entry, HasInfo, Exited
<1>4. QED
  BY <1>2, <1>3 DEF BootInv

-----------------------------------------------------------------------------
(* The steps *)

LEMMA FailKeepsInv ==
    ASSUME BootInv,
           NEW label \in {"open", "read", "graphics", "regions", "stack", "info"}, Fail(label)
    PROVE  BootInv'
<1> USE DEF Fail, pages, late
<1>1. pc = label /\ pc' = "failed"
  OBVIOUS
<1>2. TypeOK' /\ Claimed'
  BY DEF BootInv, TypeOK, Claimed, Stopped
<1>3. InTurn' /\ Shapes'
  BY <1>1 DEF BootInv, InTurn, Shapes, HasScreen, HasArray, HasStack, HasInfo, Exited, Entered
<1>4. QED
  BY <1>1, <1>2, <1>3, EarlyStep DEF HasInfo, Exited, Entered

LEMMA OpenFileKeepsInv ==
    ASSUME BootInv, OpenFile
    PROVE  BootInv'
<1> USE DEF OpenFile, late
<1>1. pc = "open" /\ pc' \in {"read", "panic"}
  OBVIOUS
<1>2. kernel = {} /\ array = {} /\ stack = {} /\ info = {} /\ image = {} /\ kind \in [Page -> Kinds]
  BY <1>1 DEF BootInv, InTurn, TypeOK
<1>3. CASE pc' = "read"
  <2>1. PICK r \in PoolRuns(1) : image' = r /\ kind' = Marked(r, "loader")
    BY <1>3
  <2>2. r \in SUBSET Page
    BY FreeRun
  <2>3. kind' \in [Page -> Kinds] /\ \A p \in r : kind'[p] = "loader"
    BY <1>2, <2>1, <2>2, MarkedPages DEF Kinds
  <2>4. TypeOK' /\ Claimed'
    BY <1>2, <1>3, <2>1, <2>2, <2>3 DEF BootInv, TypeOK, Claimed
  <2>5. InTurn' /\ Shapes'
    BY <1>1, <1>2, <1>3 DEF BootInv, InTurn, Shapes, HasScreen, HasArray, HasStack, HasInfo,
       Exited, Entered
  <2>6. QED
    BY <1>3, <2>4, <2>5, EarlyStep DEF HasInfo, Exited, Entered
<1>4. CASE pc' = "panic"
  <2>1. UNCHANGED <<image, kind>>
    BY <1>4
  <2>2. TypeOK' /\ Claimed'
    BY <1>4, <2>1 DEF BootInv, TypeOK, Claimed, Stopped
  <2>3. InTurn' /\ Shapes'
    BY <1>1, <1>2, <1>4 DEF BootInv, InTurn, Shapes, HasScreen, HasArray, HasStack, HasInfo,
       Exited, Entered
  <2>4. QED
    BY <1>4, <2>2, <2>3, EarlyStep DEF HasInfo, Exited, Entered
<1>5. QED
  BY <1>1, <1>3, <1>4

LEMMA ReadFileKeepsInv ==
    ASSUME BootInv, ReadFile
    PROVE  BootInv'
<1>1. pc = "read" /\ pc' \in {"read", "failed"} /\ UNCHANGED <<kind, pages, late>>
  BY DEF ReadFile
<1> USE DEF pages, late
<1>2. TypeOK' /\ Claimed'
  BY <1>1 DEF BootInv, TypeOK, Claimed, Stopped
<1>3. InTurn' /\ Shapes'
  BY <1>1 DEF BootInv, InTurn, Shapes, HasScreen, HasArray, HasStack, HasInfo, Exited, Entered
<1>4. QED
  BY <1>1, <1>2, <1>3, EarlyStep DEF HasInfo, Exited, Entered

LEMMA LoadKernelKeepsInv ==
    ASSUME BootInv, LoadKernel
    PROVE  BootInv'
<1> USE DEF LoadKernel, late
<1>1. pc = "read" /\ pc' = "drop" /\ KernelPages \in SUBSET Page
  OBVIOUS
<1>2. kernel = {} /\ array = {} /\ stack = {} /\ info = {} /\ kind \in [Page -> Kinds]
  BY <1>1 DEF BootInv, InTurn, TypeOK
<1>3. /\ kind' \in [Page -> Kinds] /\ \A p \in KernelPages : kind'[p] = "loader"
      /\ \A p \in Page \ KernelPages : kind'[p] = kind[p]
  BY <1>1, <1>2, MarkedPages DEF Kinds
<1>4. \A p \in image : p \in Page /\ kind[p] = "loader"
  BY DEF BootInv, TypeOK, Claimed
<1>5. image \cap KernelPages = {}
  BY <1>4
<1>6. TypeOK'
  BY <1>1, <1>3 DEF BootInv, TypeOK, HasKernel
<1>7. Claimed'
  BY <1>2, <1>3, <1>4, <1>5 DEF Claimed
<1>8. InTurn' /\ Shapes'
  BY <1>1, <1>2 DEF BootInv, InTurn, Shapes, HasScreen, HasArray, HasStack, HasInfo, Exited, Entered
<1>9. QED
  BY <1>1, <1>6, <1>7, <1>8, EarlyStep DEF HasInfo, Exited, Entered

\* Dropping the file's buffer frees its pages, and none of the kernel's.
LEMMA DropImageKeepsInv ==
    ASSUME BootInv, DropImage
    PROVE  BootInv'
<1> USE DEF DropImage, late
<1>1. pc = "drop" /\ pc' = "graphics" /\ image' = {}
  OBVIOUS
<1>2. /\ array = {} /\ stack = {} /\ info = {} /\ kind \in [Page -> Kinds]
      /\ image \in SUBSET Page /\ kernel \in SUBSET Page
  BY <1>1 DEF BootInv, InTurn, TypeOK
<1>3. kind' \in [Page -> Kinds] /\ \A p \in Page \ image : kind'[p] = kind[p]
  BY <1>2, MarkedPages DEF Kinds
<1>4. \A p \in kernel : kind[p] = "loader" /\ p \notin image
  BY DEF BootInv, Claimed
<1>5. TypeOK'
  BY <1>1, <1>3 DEF BootInv, TypeOK, HasKernel
<1>6. Claimed'
  BY <1>1, <1>2, <1>3, <1>4 DEF Claimed
<1>7. InTurn' /\ Shapes'
  BY <1>1, <1>2 DEF BootInv, InTurn, Shapes, HasScreen, HasArray, HasStack, HasInfo, Exited, Entered
<1>8. QED
  BY <1>1, <1>5, <1>6, <1>7, EarlyStep DEF HasInfo, Exited, Entered

LEMMA OpenFramebufferKeepsInv ==
    ASSUME BootInv, OpenFramebuffer
    PROVE  BootInv'
<1>1. /\ pc = "graphics" /\ UNCHANGED <<kind, pages, map, regions>>
      /\ (pc' = "regions" /\ mode' \in PixelFormatKind) \/ pc' = "failed"
  BY DEF OpenFramebuffer
<1> USE DEF pages
<1>2. TypeOK' /\ Claimed'
  BY <1>1 DEF BootInv, TypeOK, Claimed, HasKernel, HasScreen, Stopped
<1>3. InTurn' /\ Shapes'
  BY <1>1 DEF BootInv, InTurn, Shapes, HasScreen, HasArray, HasStack, HasInfo, Exited, Entered
<1>4. QED
  BY <1>1, <1>2, <1>3, EarlyStep DEF HasInfo, Exited, Entered

\* Free pages are apart from everything claimed so far, which stays claimed.
LEMMA FreshPages ==
    ASSUME BootInv, NEW r \in SUBSET Page, \A p \in r : kind[p] = "conventional",
           kind' = Marked(r, "loader")
    PROVE  /\ kind' \in [Page -> Kinds]
           /\ r \cap (image \cup kernel \cup array \cup stack \cup info) = {}
           /\ \A p \in r \cup image \cup kernel \cup array \cup stack \cup info : kind'[p] = "loader"
<1>1. /\ kind' \in [Page -> Kinds] /\ \A p \in r : kind'[p] = "loader"
      /\ \A p \in Page \ r : kind'[p] = kind[p]
  BY MarkedPages DEF BootInv, TypeOK, Kinds
<1>2. \A p \in image \cup kernel \cup array \cup stack \cup info : p \in Page /\ kind[p] = "loader"
  BY DEF BootInv, TypeOK, Claimed
<1>3. QED
  BY <1>1, <1>2

LEMMA FreshRun ==
    ASSUME BootInv, NEW n \in Nat, NEW r \in FreeRuns(n), kind' = Marked(r, "loader")
    PROVE  /\ r \in SUBSET Page /\ kind' \in [Page -> Kinds]
           /\ r \cap (image \cup kernel \cup array \cup stack \cup info) = {}
           /\ \A p \in r \cup image \cup kernel \cup array \cup stack \cup info : kind'[p] = "loader"
<1>1. r \in PoolRuns(n)
  BY DEF FreeRuns
<1>2. r \in SUBSET Page /\ \A p \in r : kind[p] = "conventional"
  BY <1>1, FreeRun
<1>3. QED
  BY <1>2, FreshPages

LEMMA AllocateRegionArrayKeepsInv ==
    ASSUME BootInv, AllocateRegionArray
    PROVE  BootInv'
<1> USE DEF AllocateRegionArray, late
<1>1. pc = "regions" /\ pc' = "stack"
  OBVIOUS
<1>2. PICK r \in FreeRuns(ArrayPages) : array' = r /\ kind' = Marked(r, "loader")
  OBVIOUS
<1>3. /\ r \in SUBSET Page /\ kind' \in [Page -> Kinds]
      /\ r \cap (image \cup kernel \cup array \cup stack \cup info) = {}
      /\ \A p \in r \cup image \cup kernel \cup array \cup stack \cup info : kind'[p] = "loader"
  BY <1>2, ArraySize, FreshRun
<1>4. Cardinality(array') = ArrayPages
  BY <1>2, ArraySize, FreeRun DEF FreeRuns
<1>5. stack = {} /\ info = {} /\ regions = <<>> /\ mode \in PixelFormatKind
  BY <1>1 DEF BootInv, InTurn, Shapes, HasScreen, Exited, Entered
<1>6. TypeOK'
  BY <1>1, <1>2, <1>3 DEF BootInv, TypeOK, HasKernel, HasScreen, HasArray
<1>7. Claimed'
  BY <1>2, <1>3, <1>5 DEF BootInv, Claimed
<1>8. InTurn' /\ Shapes'
  BY <1>1, <1>4, <1>5 DEF InTurn, Shapes, HasStack, HasInfo, Exited, Entered
<1>9. QED
  BY <1>1, <1>6, <1>7, <1>8, EarlyStep DEF HasInfo, Exited, Entered

LEMMA AllocateKernelStackKeepsInv ==
    ASSUME BootInv, AllocateKernelStack
    PROVE  BootInv'
<1> USE DEF AllocateKernelStack, late
<1>1. pc = "stack" /\ pc' = "info"
  OBVIOUS
<1>2. PICK r \in FreeRuns(KERNEL_STACK_PAGES) : stack' = r /\ kind' = Marked(r, "loader")
  OBVIOUS
<1>3. /\ r \in SUBSET Page /\ kind' \in [Page -> Kinds]
      /\ r \cap (image \cup kernel \cup array \cup stack \cup info) = {}
      /\ \A p \in r \cup image \cup kernel \cup array \cup stack \cup info : kind'[p] = "loader"
  BY <1>2, BootAssumption, FreshRun
<1>4. \E i \in Page : stack' = i .. (i + KERNEL_STACK_PAGES - 1)
  BY <1>2, BootAssumption, FreeRun DEF FreeRuns
<1>5. /\ info = {} /\ regions = <<>> /\ mode \in PixelFormatKind
      /\ Cardinality(array) = ArrayPages
  BY <1>1 DEF BootInv, InTurn, Shapes, HasScreen, HasArray, Exited, Entered
<1>6. TypeOK'
  BY <1>1, <1>2, <1>3 DEF BootInv, TypeOK, HasKernel, HasScreen, HasArray, HasStack
<1>7. Claimed'
  BY <1>2, <1>3, <1>5 DEF BootInv, Claimed
<1>8. InTurn' /\ Shapes'
  BY <1>1, <1>4, <1>5 DEF InTurn, Shapes, HasInfo, Exited, Entered
<1>9. QED
  BY <1>1, <1>6, <1>7, <1>8, EarlyStep DEF HasInfo, Exited, Entered

\* The last page claimed, with what it holds.
LEMMA AllocateBootInfoKeepsInv ==
    ASSUME BootInv, AllocateBootInfo
    PROVE  BootInv'
<1> USE DEF AllocateBootInfo
<1>1. pc = "info" /\ pc' = "exit" /\ UNCHANGED <<image, kernel, array, stack, mode, map, regions>>
  OBVIOUS
<1>2. PICK r \in FreeRuns(1) : info' = r /\ kind' = Marked(r, "loader")
  OBVIOUS
<1>3. /\ r \in SUBSET Page /\ kind' \in [Page -> Kinds]
      /\ r \cap (image \cup kernel \cup array \cup stack \cup info) = {}
      /\ \A p \in r \cup image \cup kernel \cup array \cup stack \cup info : kind'[p] = "loader"
  BY <1>2, FreshRun
<1>4. TypeOK'
  BY <1>1, <1>2, <1>3 DEF BootInv, TypeOK, HasKernel, HasScreen, HasArray, HasStack, HasInfo
<1>5. Claimed'
  BY <1>1, <1>2, <1>3 DEF BootInv, Claimed
<1>6. InTurn' /\ Shapes'
  <2>1. /\ regions = <<>> /\ mode \in PixelFormatKind /\ Cardinality(array) = ArrayPages
        /\ \E i \in Page : stack = i .. (i + KERNEL_STACK_PAGES - 1)
    BY <1>1 DEF BootInv, InTurn, Shapes, HasScreen, HasArray, HasStack, Exited, Entered
  <2>2. \E i \in Page \ {0} : info' = {i}
    <3>1. r \in PoolRuns(1) /\ 0 \notin r
      BY DEF FreeRuns
    <3>2. PICK i \in Page : r = i .. (i + 1 - 1)
      BY <3>1, FreeRun
    <3>3. i .. (i + 1 - 1) = {i}
      BY <3>2, PageBounds
    <3>4. QED
      BY <1>2, <3>1, <3>2, <3>3
  <2>3. QED
    BY <1>1, <2>1, <2>2 DEF InTurn, Shapes
<1>7. InfoWritten'
  <2>1. bootInfo' = [NewBootInfo EXCEPT !.memory_regions_len = 0]
    BY DEF NewBootInfo
  <2>2. NewBootInfo' = NewBootInfo
    BY <1>1 DEF NewBootInfo
  <2>3. QED
    BY <1>1, <2>1, <2>2 DEF InfoWritten, Entered
<1>8. MapCopied' /\ Entry'
  BY <1>1 DEF BootInv, MapCopied, Entry, Exited, Entered, Region
<1>9. QED
  BY <1>4, <1>5, <1>6, <1>7, <1>8 DEF BootInv

\* The map is exact when the firmware hands it over; nothing is claimed later.
LEMMA ExitBootServicesKeepsInv ==
    ASSUME BootInv, ExitBootServices
    PROVE  BootInv'
<1> USE DEF ExitBootServices, pages
<1>1. pc = "exit" /\ pc' = "copy" /\ UNCHANGED <<pages, mode, bootInfo, regions>>
  OBVIOUS
<1>2. PICK buffer \in {{}} \cup PoolRuns(1), q \in Page :
         /\ kind' = Marked(buffer, "loader")
         /\ map' = Descriptors(kind', Starts(kind') \cup {q})
  OBVIOUS
<1>3. buffer \in SUBSET Page /\ \A p \in buffer : kind[p] = "conventional"
  BY FreeRun
<1>4. /\ kind' \in [Page -> Kinds]
      /\ \A p \in image \cup kernel \cup array \cup stack \cup info : kind'[p] = "loader"
  BY <1>2, <1>3, FreshPages
<1> DEFINE S == Starts(kind') \cup {q}
<1>5. S \in SUBSET Page /\ Starts(kind') \subseteq S
  BY DEF Starts
<1> HIDE DEF S
<1>6. map' = Descriptors(kind', S)
  BY <1>2 DEF S
<1>7. /\ map' \in Seq(Described) /\ Len(map') = Cardinality(S)
      /\ \A i \in 1 .. Cardinality(S) : \A p \in Nat :
            map'[i].start <= p /\ p < map'[i].start + map'[i].pages
               => p \in Page /\ kind'[p] = map'[i].kind
  <2>1. PICK k \in [Page -> Kinds] : k = kind'
    BY <1>4
  <2>2. Starts(k) \subseteq S /\ S \in SUBSET Page
    BY <1>5, <2>1
  <2>3. /\ Descriptors(k, S) \in Seq(Described) /\ Len(Descriptors(k, S)) = Cardinality(S)
        /\ \A i \in 1 .. Cardinality(S) : \A p \in Nat :
              LET d == Descriptors(k, S)[i]
              IN  d.start <= p /\ p < d.start + d.pages => p \in Page /\ k[p] = d.kind
    BY <2>2, DescriptorsDescribe
  <2>4. map' = Descriptors(k, S)
    BY <1>6, <2>1
  <2>5. QED
    BY <2>1, <2>3, <2>4
<1>8. TypeOK'
  BY <1>1, <1>4, <1>7
     DEF BootInv, TypeOK, HasKernel, HasScreen, HasArray, HasStack, HasInfo, Exited
<1>9. Claimed'
  BY <1>1, <1>4 DEF BootInv, Claimed
<1>10. InTurn' /\ Shapes'
  BY <1>1 DEF BootInv, InTurn, Shapes, HasScreen, HasArray, HasStack, HasInfo, Exited, Entered
<1>11. InfoWritten'
  <2>1. NewBootInfo' = NewBootInfo
    BY <1>1 DEF NewBootInfo
  <2>2. QED
    BY <1>1, <2>1 DEF BootInv, InfoWritten, HasInfo, Exited, Entered
<1>12. MapCopied'
  <2>1. regions' = <<>>
    BY <1>1 DEF BootInv, InTurn, Exited, Entered
  <2>2. Len(regions') = 0 /\ Len(map') \in Nat /\ Capacity \in Nat
    BY <1>7, <2>1, ArraySize
  <2>3. Len(regions') <= Len(map') /\ Len(regions') <= Capacity /\ 1 .. Len(regions') = {}
    BY <2>2
  <2>4. QED
    BY <1>7, <2>3 DEF MapCopied
<1>13. Entry'
  BY <1>1 DEF Entry, Entered
<1>14. QED
  BY <1>8, <1>9, <1>10, <1>11, <1>12, <1>13 DEF BootInv

\* One more entry, and there was room for it.
LEMMA CopyRegionKeepsInv ==
    ASSUME BootInv, CopyRegion
    PROVE  BootInv'
<1> USE DEF CopyRegion, pages
<1> DEFINE n == Len(regions)
           e == Region(map[n + 1])
           Entries == [start : Nat, pages : Nat, kind : Nat]
<1>1. /\ pc = "copy" /\ UNCHANGED <<pc, kind, pages, mode, bootInfo, map>>
      /\ n < Len(map) /\ n < Capacity
      /\ regions' = Append(regions, e)
  BY DEF Room
<1>2. /\ map \in Seq(Described) /\ Len(map) \in Nat /\ regions \in Seq(Entries) /\ n \in Nat
      /\ Capacity \in Nat
  BY ArraySize DEF BootInv, TypeOK
<1>3. map[n + 1] \in Described
  BY <1>1, <1>2
<1>4. e \in Entries
  <2>1. PICK d \in Described : d = map[n + 1]
    BY <1>3
  <2>2. d.start \in Nat /\ d.pages \in Nat /\ d.kind \in Kinds
    BY DEF Described
  <2>3. d.start * PAGE \in Nat
    <3>1. PAGE \in Nat
      BY BootAssumption
    <3>2. PICK x \in Nat : x = d.start
      BY <2>2
    <3>3. x * PAGE \in Nat
      BY <3>1
    <3>4. QED
      BY <3>2, <3>3
  <2>4. MemoryType[d.kind] \in Nat
    BY <2>2, TypeNumbers
  <2>5. QED
    BY <2>1, <2>2, <2>3, <2>4 DEF Region
<1>5. /\ regions' \in Seq(Entries) /\ Len(regions') = n + 1 /\ regions'[n + 1] = e
      /\ \A i \in 1 .. n : regions'[i] = regions[i]
  <2> HIDE DEF e, Entries
  <2>1. QED
    BY <1>1, <1>2, <1>4, AppendProperties
<1>6. TypeOK'
  BY <1>1, <1>5 DEF BootInv, TypeOK
<1>7. Claimed' /\ InTurn' /\ Shapes'
  BY <1>1 DEF BootInv, Claimed, InTurn, Shapes, HasInfo, Exited, Entered
<1>8. InfoWritten' /\ Entry'
  <2>1. NewBootInfo' = NewBootInfo
    BY <1>1 DEF NewBootInfo
  <2>2. QED
    BY <1>1, <2>1 DEF BootInv, InfoWritten, Entry, HasInfo, Exited, Entered
<1>9. MapCopied'
  <2>1. Len(regions') <= Len(map') /\ Len(regions') <= Capacity
    BY <1>1, <1>2, <1>5
  <2>2. \A i \in 1 .. Len(regions') : regions'[i] = Region(map'[i])
    <3>1. \A i \in 1 .. (n + 1) : i = n + 1 \/ i \in 1 .. n
      BY <1>2
    <3>2. \A i \in 1 .. n : regions[i] = Region(map[i])
      BY DEF BootInv, MapCopied
    <3>3. QED
      BY <1>1, <1>5, <3>1, <3>2 DEF Region
  <2>3. QED
    BY <1>1, <2>1, <2>2 DEF BootInv, MapCopied
<1>10. QED
  BY <1>6, <1>7, <1>8, <1>9 DEF BootInv

\* The entries copied are counted last, and the kernel entered as after a call.
LEMMA JumpKeepsInv ==
    ASSUME BootInv, Jump
    PROVE  BootInv'
<1> USE DEF Jump, pages
<1>1. /\ pc = "copy" /\ pc' = "start" /\ UNCHANGED <<kind, pages, mode, map, regions>>
      /\ bootInfo' = [bootInfo EXCEPT !.memory_regions_len = Len(regions)]
  OBVIOUS
<1>2. TypeOK'
  BY <1>1 DEF BootInv, TypeOK, HasKernel, HasScreen, HasArray, HasStack, HasInfo, Exited, Entered
<1>3. Claimed'
  BY <1>1 DEF BootInv, Claimed
<1>4. InTurn' /\ Shapes'
  BY <1>1 DEF BootInv, InTurn, Shapes, HasScreen, HasArray, HasStack, HasInfo, Exited, Entered
<1>5. InfoWritten'
  <2>1. NewBootInfo' = NewBootInfo
    BY <1>1 DEF NewBootInfo
  <2>2. PICK n \in Nat : bootInfo = [NewBootInfo EXCEPT !.memory_regions_len = n]
    BY <1>1 DEF BootInv, InfoWritten, HasInfo, Exited
  <2>3. bootInfo' = [NewBootInfo EXCEPT !.memory_regions_len = Len(regions)]
    BY <1>1, <2>2 DEF NewBootInfo
  <2>4. Len(regions) \in Nat /\ Len(regions') = Len(regions)
    BY <1>1 DEF BootInv, TypeOK
  <2>5. QED
    BY <2>1, <2>3, <2>4 DEF InfoWritten
<1>6. MapCopied'
  BY <1>1 DEF BootInv, MapCopied, Exited, Entered, Region
<1>7. Entry'
  <2>1. ~iflag'
    OBVIOUS
  <2>2. rsp' = EntryStack((Lowest(stack') + KERNEL_STACK_PAGES) * PAGE)
    BY <1>1
  <2>3. QED
    BY <2>1, <2>2 DEF Entry
<1>8. QED
  BY <1>2, <1>3, <1>4, <1>5, <1>6, <1>7 DEF BootInv

\* The raw pixel format is the screen's.
LEMMA PixelFormat ==
    ASSUME BootInv, pc \in Entered
    PROVE  from_u32(bootInfo.pixel_format_raw) = mode /\ is_valid(bootInfo)
<1>1. bootInfo = [NewBootInfo EXCEPT !.memory_regions_len = Len(regions)]
  BY DEF BootInv, InfoWritten
<1>2. /\ bootInfo.magic = BOOT_INFO_MAGIC /\ bootInfo.version = BOOT_INFO_VERSION
      /\ bootInfo.pixel_format_raw = Discriminant(mode)
  BY <1>1 DEF NewBootInfo
<1>3. mode \in {"Rgb", "Bgr"}
  BY DEF BootInv, Shapes, PixelFormatKind, HasScreen, HasArray, HasStack, HasInfo, Exited
<1>4. from_u32(Discriminant(mode)) = mode /\ mode # "None"
  BY <1>3 DEF from_u32, Discriminant
<1>5. QED
  BY <1>2, <1>4 DEF is_valid

\* The BootInfo page is not page 0, so its address is not null.
LEMMA PointerNotNull ==
    ASSUME BootInv, pc \in Entered
    PROVE  BootInfoPtr # 0
<1>1. PICK i \in Page \ {0} : info = {i}
  BY DEF BootInv, Shapes, HasInfo, Exited
<1>2. i \in Nat /\ i # 0 /\ PAGE \in Nat \ {0}
  BY <1>1, PageBounds, BootAssumption
<1>3. Lowest(info) = i
  BY <1>1, <1>2 DEF Lowest
<1>4. i * PAGE # 0
  BY <1>2, Z3
<1>5. QED
  BY <1>3, <1>4 DEF BootInfoPtr

\* _start accepts what it is given.
LEMMA StartKeepsInv ==
    ASSUME BootInv, Start
    PROVE  BootInv'
<1>1. pc = "start" /\ pc' = "kernel" /\ UNCHANGED <<kind, pages, late>>
  <2>1. pc = "start"
    BY DEF Start
  <2>2. is_valid(bootInfo)
    BY <2>1, PixelFormat DEF Entered
  <2>3. BootInfoPtr # 0
    BY <2>1, PointerNotNull DEF Entered
  <2>4. QED
    BY <2>1, <2>2, <2>3 DEF Start
<1> USE DEF pages, late
<1>2. TypeOK'
  BY <1>1 DEF BootInv, TypeOK, HasKernel, HasScreen, HasArray, HasStack, HasInfo, Exited, Entered
<1>3. Claimed'
  BY <1>1 DEF BootInv, Claimed
<1>4. InTurn' /\ Shapes'
  BY <1>1 DEF BootInv, InTurn, Shapes, HasScreen, HasArray, HasStack, HasInfo, Exited, Entered
<1>5. InfoWritten'
  <2>1. NewBootInfo' = NewBootInfo
    BY <1>1 DEF NewBootInfo
  <2>2. QED
    BY <1>1, <2>1 DEF BootInv, InfoWritten, HasInfo, Exited, Entered
<1>6. MapCopied'
  BY <1>1 DEF BootInv, MapCopied, Exited, Entered, Region
<1>7. Entry'
  BY <1>1 DEF BootInv, Entry, Entered
<1>8. QED
  BY <1>2, <1>3, <1>4, <1>5, <1>6, <1>7 DEF BootInv

LEMMA InitInv == Init => BootInv
<1> SUFFICES ASSUME Init PROVE BootInv
  OBVIOUS
<1> USE DEF Init
<1>1. kind \in [Page -> Kinds]
  BY BootAssumption DEF Page, Kinds
<1>2. TypeOK
  BY <1>1 DEF TypeOK
<1>3. Claimed /\ InTurn
  BY DEF Claimed, InTurn
<1>4. Shapes /\ InfoWritten /\ Entry
  BY DEF Shapes, InfoWritten, Entry, HasScreen, HasArray, HasStack, HasInfo, Exited, Entered
<1>5. MapCopied
  <2>1. Len(regions) = 0 /\ Len(map) = 0 /\ Capacity \in Nat
    BY ArraySize
  <2>2. Len(regions) <= Len(map) /\ Len(regions) <= Capacity /\ 1 .. Len(regions) = {}
    BY <2>1
  <2>3. QED
    BY <2>2 DEF MapCopied, Exited, Entered
<1>6. QED
  BY <1>2, <1>3, <1>4, <1>5 DEF BootInv

LEMMA NextKeepsInv == BootInv /\ [Next]_vars => BootInv'
<1> SUFFICES ASSUME BootInv, [Next]_vars PROVE BootInv'
  OBVIOUS
<1>1. CASE Step
  BY <1>1, OpenFileKeepsInv, ReadFileKeepsInv, LoadKernelKeepsInv, DropImageKeepsInv,
     OpenFramebufferKeepsInv, AllocateRegionArrayKeepsInv, AllocateKernelStackKeepsInv,
     AllocateBootInfoKeepsInv, ExitBootServicesKeepsInv, CopyRegionKeepsInv, JumpKeepsInv,
     StartKeepsInv DEF Step
<1>2. CASE Refuse
  BY <1>2, FailKeepsInv DEF Refuse
<1>3. CASE UNCHANGED vars
  <2> USE <1>3 DEF vars, pages, late
  <2>1. TypeOK' /\ Claimed' /\ InTurn' /\ Shapes'
    BY DEF BootInv, TypeOK, Claimed, InTurn, Shapes
  <2>2. NewBootInfo' = NewBootInfo
    BY DEF NewBootInfo
  <2>3. InfoWritten'
    BY <2>2 DEF BootInv, InfoWritten
  <2>4. MapCopied'
    BY DEF BootInv, MapCopied, Region
  <2>5. Entry'
    BY DEF BootInv, Entry
  <2>6. QED
    BY <2>1, <2>3, <2>4, <2>5 DEF BootInv
<1>4. QED
  BY <1>1, <1>2, <1>3 DEF Next, Ended

LEMMA BootInvariant == Spec => []BootInv
BY InitInv, NextKeepsInv, PTL DEF Spec

-----------------------------------------------------------------------------
(* The theorems *)

LEMMA InvHandoffSurvives == BootInv => HandoffSurvives
<1> SUFFICES ASSUME BootInv PROVE HandoffSurvives
  OBVIOUS
<1>1. /\ \A p \in Handed : kind[p] = "loader"
      /\ kernel \cap (array \cup stack \cup info) = {}
      /\ array \cap (stack \cup info) = {} /\ stack \cap info = {}
  BY DEF BootInv, Claimed, Handed
<1>2. Len(regions) * ENTRY <= Cardinality(array) * PAGE
  <2>1. /\ Len(regions) \in Nat /\ Len(regions) <= Capacity /\ ENTRY \in Nat \ {0}
        /\ PAGE \in Nat \ {0} /\ Capacity \in Nat /\ ArrayPages \in Nat
    BY BootAssumption, ArraySize DEF BootInv, TypeOK, MapCopied
  <2>2. CASE pc \in Exited
    <3>1. Cardinality(array) = ArrayPages
      BY <2>2 DEF BootInv, Shapes, HasArray, HasStack, HasInfo
    <3>2. Len(regions) * ENTRY <= Capacity * ENTRY
      BY <2>1, ProductOrder
    <3>3. /\ Len(regions) * ENTRY \in Nat /\ Capacity * ENTRY \in Nat
          /\ ArrayPages * PAGE \in Nat
      BY <2>1
    <3>4. Capacity * ENTRY <= ArrayPages * PAGE
      BY ArraySize
    <3> DEFINE a == Len(regions) * ENTRY  b == Capacity * ENTRY  c == ArrayPages * PAGE
    <3>5. a \in Nat /\ b \in Nat /\ c \in Nat /\ a <= b /\ b <= c
      BY <3>2, <3>3, <3>4
    <3> HIDE DEF a, b, c
    <3>6. a <= c
      BY <3>5
    <3>7. QED
      BY <3>1, <3>6 DEF a, c
  <2>3. CASE pc \notin Exited
    <3>1. Len(regions) = 0
      BY <2>3 DEF BootInv, InTurn
    <3>2. Cardinality(array) \in Nat
      <4>1. array \in SUBSET Page
        BY DEF BootInv, TypeOK
      <4>2. QED
        BY <4>1, PagesFinite, FS_CardinalityType
    <3>3. Cardinality(array) * PAGE \in Nat /\ Len(regions) * ENTRY = 0
      BY <2>1, <3>1, <3>2
    <3>4. QED
      BY <3>3
  <2>4. QED
    BY <2>2, <2>3
<1>3. QED
  BY <1>1, <1>2 DEF HandoffSurvives

\* An entry of the array that covers a frame is a descriptor that covers the
\* page, so what is usable was free when the map was final.
LEMMA InvOnlyFreeFramesOffered == BootInv => OnlyFreeFramesOffered
<1> SUFFICES ASSUME BootInv, pc = "kernel", NEW p \in UsableFrames
             PROVE  p \in Page /\ kind[p] = "conventional" /\ p \notin Handed
  BY DEF OnlyFreeFramesOffered
<1>1. pc \in Entered /\ pc \in Exited
  BY DEF Entered, Exited
<1>2. bootInfo.memory_regions_len = Len(regions) /\ Len(regions) \in Nat
  BY <1>1 DEF BootInv, InfoWritten, NewBootInfo, TypeOK
<1>3. PICK i \in 1 .. Len(regions) :
         /\ regions[i].kind = CONVENTIONAL
         /\ regions[i].start <= p * PAGE
         /\ (p + 1) * PAGE <= regions[i].start + regions[i].pages * PAGE
  BY <1>2 DEF UsableFrames, is_usable
<1>4. p \in Nat
  BY BootAssumption DEF UsableFrames
<1>5. i \in 1 .. Len(map) /\ regions[i] = Region(map[i])
  <2>1. Len(regions) <= Len(map) /\ Len(map) \in Nat
    BY DEF BootInv, TypeOK, MapCopied
  <2>2. QED
    BY <1>2, <2>1 DEF BootInv, MapCopied
<1>6. PICK d \in Described : d = map[i]
  BY <1>5 DEF BootInv, TypeOK
<1>7. d.start \in Nat /\ d.pages \in Nat /\ d.kind \in Kinds
  BY DEF Described
<1>8. /\ MemoryType[d.kind] = CONVENTIONAL
      /\ d.start * PAGE <= p * PAGE
      /\ (p + 1) * PAGE <= d.start * PAGE + d.pages * PAGE
  BY <1>3, <1>5, <1>6 DEF Region
<1>9. d.kind = "conventional"
  BY <1>7, <1>8, TypeNumbers
<1>10. d.start <= p /\ p < d.start + d.pages
  <2>1. PAGE \in Nat \ {0}
    BY BootAssumption
  <2>2. d.start * PAGE + d.pages * PAGE = (d.start + d.pages) * PAGE
    BY <1>7, <2>1
  <2>3. (p + 1) * PAGE <= (d.start + d.pages) * PAGE
    BY <1>8, <2>2
  <2>4. p + 1 \in Int /\ d.start + d.pages \in Int /\ d.start \in Int /\ p \in Int
    BY <1>4, <1>7
  <2>5. d.start <= p
    BY <1>8, <2>1, <2>4, ProductOrder
  <2>6. p + 1 <= d.start + d.pages
    BY <2>1, <2>3, <2>4, ProductOrder
  <2>7. QED
    BY <1>4, <1>7, <2>5, <2>6
<1>11. p \in Page /\ kind[p] = d.kind
  BY <1>1, <1>4, <1>5, <1>6, <1>10 DEF BootInv, MapCopied
<1>12. QED
  BY <1>9, <1>11 DEF BootInv, Claimed, Handed

LEMMA InvEntryContract == BootInv => EntryContract
<1> SUFFICES ASSUME BootInv PROVE EntryContract
  OBVIOUS
<1>1. pc # "fatal"
  BY DEF BootInv, TypeOK, HasKernel, HasScreen, HasArray, HasStack, HasInfo, Exited, Entered, Stopped
<1>2. SUFFICES ASSUME pc \in Entered
               PROVE  /\ ~iflag
                      /\ rsp % 16 = 8 /\ (rsp \div PAGE) \in stack
                      /\ from_u32(bootInfo.pixel_format_raw) = mode
                      /\ \A p \in kernel :
                            /\ bootInfo.kernel_base <= p * PAGE
                            /\ (p + 1) * PAGE <= bootInfo.kernel_base + bootInfo.kernel_size
  BY <1>1 DEF EntryContract, Entered
<1>3. ~iflag /\ from_u32(bootInfo.pixel_format_raw) = mode
  BY <1>2, PixelFormat DEF BootInv, Entry
\* The stack's top is a multiple of 16 bytes, so 8 below it is inside.
<1>4. rsp % 16 = 8 /\ (rsp \div PAGE) \in stack
  <2> DEFINE K == KERNEL_STACK_PAGES
  <2>1. PICK i \in Page : stack = i .. (i + K - 1)
    BY <1>2 DEF BootInv, Shapes, HasStack, HasInfo, Exited
  <2>2. K \in Nat \ {0} /\ PAGE \in Nat \ {0} /\ PAGE % 16 = 0 /\ i \in Nat
    BY <2>1, BootAssumption, PageBounds
  <2>3. Lowest(stack) = i
    <3>1. i \in stack /\ \A q \in stack : i <= q
      BY <2>1, <2>2
    <3>2. \A x \in stack : (\A q \in stack : x <= q) => x = i
      BY <2>1, <2>2, <3>1
    <3>3. QED
      BY <3>1, <3>2 DEF Lowest
  <2> DEFINE top == (i + K) * PAGE
  <2>4. top \in Nat /\ top % 16 = 0
    <3>1. i + K \in Nat /\ top \in Nat /\ top = PAGE * (i + K)
      BY <2>2
    <3>2. top % PAGE = 0
      BY <2>2, <3>1, MultipleIff
    <3> HIDE DEF top
    <3>3. PICK m \in Nat \ {0} : m = 16
      OBVIOUS
    <3>4. PAGE % m = 0
      BY <2>2, <3>3
    <3>5. top % m = 0
      BY <2>2, <3>1, <3>2, <3>4, MultipleTrans
    <3>6. QED
      BY <3>1, <3>3, <3>5
  <2>5. PAGE >= 16
    BY <2>2, MultipleAtLeast
  <2>6. top = (i + K - 1) * PAGE + PAGE
    BY <2>2
  <2>7. rsp = top - 8
    <3>1. rsp = EntryStack(top)
      BY <1>2, <2>3 DEF BootInv, Entry
    <3> HIDE DEF top
    <3>2. QED
      BY <2>4, <3>1 DEF EntryStack, PrevMultiple
  <2>8. rsp % 16 = 8
    <3>1. PICK k \in Nat : top = 16 * k
      BY <2>4, MultipleIff
    <3>2. top >= 16
      <4>1. (i + K - 1) * PAGE >= 0
        BY <2>2
      <4>2. (i + K - 1) * PAGE \in Int
        BY <2>2
      <4>3. QED
        BY <2>2, <2>5, <2>6, <4>1, <4>2
    <3> HIDE DEF top
    <3>3. k - 1 \in Nat /\ rsp = (k - 1) * 16 + 8
      BY <2>7, <3>1, <3>2
    <3>4. QED
      BY <3>3, QuotientIs
  <2>9. rsp \div PAGE = i + K - 1
    <3>1. i + K - 1 \in Nat /\ PAGE - 8 \in 0 .. (PAGE - 1)
      BY <2>2, <2>5
    <3>2. rsp = (i + K - 1) * PAGE + (PAGE - 8)
      BY <2>2, <2>6, <2>7
    <3>3. QED
      BY <2>2, <3>1, <3>2, QuotientIs
  <2>10. QED
    BY <2>1, <2>2, <2>8, <2>9
<1>5. ASSUME NEW p \in kernel
      PROVE  /\ bootInfo.kernel_base <= p * PAGE
             /\ (p + 1) * PAGE <= bootInfo.kernel_base + bootInfo.kernel_size
  <2>1. PAGE \in Nat \ {0} /\ kernel \in SUBSET Nat /\ \A q \in kernel : q <= PageCount
    BY BootAssumption, PageBounds DEF BootInv, TypeOK
  <2> DEFINE lo == Lowest(kernel)  hi == Highest(kernel)
  <2>2. lo \in kernel /\ lo <= p
    <3>1. \E x \in kernel : \A y \in kernel : x <= y
      BY <1>5, <2>1, LeastElement
    <3>2. QED
      BY <1>5, <3>1 DEF Lowest
  <2>3. hi \in kernel /\ p <= hi
    <3>1. \E x \in kernel : \A y \in kernel : y <= x
      <4>1. PageCount \in Nat /\ kernel # {}
        BY <1>5, BootAssumption
      <4>2. QED
        BY <2>1, <4>1, GreatestElement
    <3>2. QED
      BY <1>5, <3>1 DEF Highest
  <2>4. lo \in Nat /\ hi \in Nat /\ p \in Nat
    BY <1>5, <2>1, <2>2, <2>3
  <2>5. bootInfo.kernel_base = lo * PAGE /\ bootInfo.kernel_size = (hi + 1 - lo) * PAGE
    <3>1. bootInfo = [NewBootInfo EXCEPT !.memory_regions_len = Len(regions)]
      BY <1>2 DEF BootInv, InfoWritten
    <3>2. QED
      BY <3>1 DEF NewBootInfo
  <2> HIDE DEF lo, hi
  <2>6. lo * PAGE + (hi + 1 - lo) * PAGE = (hi + 1) * PAGE
    BY <2>1, <2>4
  <2>7. lo * PAGE <= p * PAGE
    BY <2>1, <2>2, <2>4, ProductOrder
  <2>8. (p + 1) * PAGE <= (hi + 1) * PAGE
    <3>1. p + 1 \in Int /\ hi + 1 \in Int /\ p + 1 <= hi + 1
      BY <2>3, <2>4
    <3>2. QED
      BY <2>1, <3>1, ProductOrder
  <2>9. QED
    BY <2>5, <2>6, <2>7, <2>8
<1>6. QED
  BY <1>3, <1>4, <1>5

\* HandoffSurvives: on every machine, whatever the firmware refuses and
\* wherever it puts things, the kernel, its stack, BootInfo and the region
\* array are the loader's and apart from each other, and exit_and_jump never
\* writes an entry past the pages allocate_region_array claimed.
THEOREM HandoffIsSafe == Spec => []HandoffSurvives
BY BootInvariant, InvHandoffSurvives, PTL

\* OnlyFreeFramesOffered: no frame the kernel reads out of the map it is
\* given is in use or is not memory, whatever the map's length, its splits
\* and the capacity at which the copy stops.
THEOREM FramesOfferedAreFree == Spec => []OnlyFreeFramesOffered
BY BootInvariant, InvOnlyFreeFramesOffered, PTL

\* EntryContract: _start is entered with interrupts masked, on its stack,
\* aligned as after a call, with a BootInfo it accepts and that describes the
\* screen and every page of the kernel.
THEOREM EntryIsSound == Spec => []EntryContract
BY BootInvariant, InvEntryContract, PTL
=============================================================================
