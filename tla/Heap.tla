-------------------------------- MODULE Heap --------------------------------
(***************************************************************************)
(* The kernel heap (kernel/src/heap.rs): an address-ordered free list with *)
(* splitting and coalescing, whose headers live inside the free memory     *)
(* itself.  Every loop iteration of Heap::alloc, Heap::dealloc and of the  *)
(* two list walks is one step, so what a loop relies on has to hold        *)
(* between its iterations.  Calls are not interleaved: each runs inside    *)
(* without_interrupts on the only core.                                    *)
(***************************************************************************)
EXTENDS Arith, FiniteSets

CONSTANTS
    GRAIN,          \* the grid: size_of::<FreeBlock>()
    Start,          \* address of the region heap::init was given
    HeapSize,       \* its size in bytes, HEAP_FRAMES * PAGE_SIZE
    Layouts,        \* the layouts clients request: records [size, align]
    Junk            \* what a client may leave in memory it owns, read as a header

NULL == 0

\* A Rust Layout has a power-of-two alignment, and GRAIN is a power of two:
\* of the two, one divides the other.  The region is frame aligned.
ASSUME HeapAssumption ==
    /\ GRAIN \in Nat \ {0}
    /\ Start \in Nat \ {0} /\ Start % GRAIN = 0
    /\ HeapSize \in Nat \ {0} /\ HeapSize % GRAIN = 0
    /\ Layouts \subseteq [size : Nat, align : Nat \ {0}]
    /\ \A l \in Layouts : GRAIN % l.align = 0 \/ l.align % GRAIN = 0
    /\ Junk \subseteq [size : Nat, next : Nat] /\ Junk # {}

End  == Start + HeapSize
Grid == {a \in Start .. (End - 1) : a % GRAIN = 0}

VARIABLES
    head,           \* Heap.head
    mem,            \* what each grain holds when read as a FreeBlock
    live,           \* blocks clients own: records [ptr, layout]
    pc,             \* the call in progress, "idle" between calls
    req,            \* its argument: a record [ptr, layout], ptr NULL for alloc
    prev, cur,      \* the cursors of the list walks
    total, count    \* the accumulators of free_bytes and free_blocks

regs == <<pc, req, prev, cur, total, count>>
vars == <<head, mem, live, regs>>

-----------------------------------------------------------------------------
\* normalise: the size and the alignment a request is rounded up to.
Size(l)  == NextMultiple(AtLeast(l.size, GRAIN), GRAIN)
Align(l) == AtLeast(l.align, GRAIN)

\* Where alloc would put the payload inside the block at a, and whether the
\* block is large enough for it.
Payload_Unaligned(a, l) == a
Payload(a, l)  == NextMultiple(a, Align(l))
Suffices_NoPadding(a, l) == mem[a].size >= Size(l)
Suffices(a, l) == mem[a].size >= (Payload(a, l) - a) + Size(l)

\* On the grid, what is left of a carved block is nothing or a whole block.
WholeBlock_Strict(bytes) == bytes > GRAIN
WholeBlock(bytes) == bytes >= GRAIN

NoReq == [ptr |-> NULL, layout |-> [size |-> 0, align |-> 1]]

\* Heap::init, on memory the firmware left in any state.
Init ==
    /\ head = Start
    /\ \E v \in Junk :
          mem = [a \in Grid |-> IF a = Start THEN [size |-> HeapSize, next |-> NULL]
                                            ELSE v]
    /\ live = {}
    /\ pc = "idle" /\ req = NoReq
    /\ prev = NULL /\ cur = NULL
    /\ total = 0 /\ count = 0

\* Entry to a call, and return from it: locals come and go.
Enter(call, r) ==
    /\ pc = "idle" /\ pc' = call
    /\ req' = r
    /\ prev' = NULL /\ cur' = head
    /\ total' = 0 /\ count' = 0
    /\ UNCHANGED <<head, mem, live>>

Return ==
    /\ pc' = "idle" /\ req' = NoReq
    /\ prev' = NULL /\ cur' = NULL
    /\ total' = 0 /\ count' = 0

Advance_Stuck ==
    /\ prev' = cur /\ cur' = cur
    /\ UNCHANGED <<head, mem, live, pc, req>>

Advance ==
    /\ prev' = cur /\ cur' = mem[cur].next
    /\ UNCHANGED <<head, mem, live, pc, req>>

-----------------------------------------------------------------------------
(* Heap::alloc *)

AllocCall == \E l \in Layouts : Enter("alloc", [ptr |-> NULL, layout |-> l])

AllocNext ==
    /\ pc = "alloc" /\ cur # NULL
    /\ ~Suffices(cur, req.layout)
    /\ Advance
    /\ UNCHANGED <<total, count>>

\* The first block that suffices: split off its tail, then keep its front as
\* a shrunken block or unlink it, and hand the middle to the caller.
AllocCarve ==
    /\ pc = "alloc" /\ cur # NULL
    /\ Suffices(cur, req.layout)
    /\ LET payload    == Payload(cur, req.layout)
           size       == Size(req.layout)
           front      == payload - cur
           tail       == mem[cur].size - front - size
           next       == mem[cur].next
           tail_block == payload + size
           remainder  == IF WholeBlock(tail) THEN tail_block ELSE next
           split      == IF WholeBlock(tail)
                         THEN [mem EXCEPT ![tail_block] = [size |-> tail, next |-> next]]
                         ELSE mem
       IN  /\ mem' = IF WholeBlock(front)
                     THEN [split EXCEPT ![cur] = [size |-> front, next |-> remainder]]
                     ELSE IF prev = NULL THEN split
                     ELSE [split EXCEPT ![prev].next = remainder]
           /\ head' = IF ~WholeBlock(front) /\ prev = NULL THEN remainder ELSE head
           /\ live' = live \cup {[ptr |-> payload, layout |-> req.layout]}
    /\ Return

\* The end of the list: alloc returns null.
AllocNull ==
    /\ pc = "alloc" /\ cur = NULL
    /\ Return
    /\ UNCHANGED <<head, mem, live>>

-----------------------------------------------------------------------------
(* Heap::dealloc *)

DeallocCall == \E b \in live : Enter("dealloc", b)

DeallocNext ==
    /\ pc = "dealloc" /\ cur # NULL /\ cur < req.ptr
    /\ Advance
    /\ UNCHANGED <<total, count>>

\* Does the block being freed run up to the free block after it, or the free
\* block before it up to this one?
MergesForward_Never  == FALSE
MergesForward  == cur # NULL /\ req.ptr + Size(req.layout) = cur
MergesBackward_Never == FALSE
MergesBackward == prev # NULL /\ prev + mem[prev].size = req.ptr

\* The insertion point: merge forward, then backward, else link a header.
DeallocFinish ==
    /\ pc = "dealloc" /\ (cur = NULL \/ ~(cur < req.ptr))
    /\ LET start   == req.ptr
           size    == Size(req.layout) + (IF MergesForward THEN mem[cur].size ELSE 0)
           next    == IF MergesForward THEN mem[cur].next ELSE cur
           linked  == [mem EXCEPT ![start] = [size |-> size, next |-> next]]
       IN  /\ mem' = IF MergesBackward
                     THEN [mem EXCEPT ![prev] = [size |-> @.size + size, next |-> next]]
                     ELSE IF prev = NULL THEN linked
                     ELSE [linked EXCEPT ![prev].next = start]
           /\ head' = IF ~MergesBackward /\ prev = NULL THEN start ELSE head
    /\ live' = live \ {req}
    /\ Return

-----------------------------------------------------------------------------
(* free_bytes and free_blocks: the same walk, summed in two ways *)

StatCall == Enter("stat", NoReq)

StatNext ==
    /\ pc = "stat" /\ cur # NULL
    /\ total' = total + mem[cur].size
    /\ count' = count + 1
    /\ Advance

StatReturn ==
    /\ pc = "stat" /\ cur = NULL
    /\ Return
    /\ UNCHANGED <<head, mem, live>>

\* A client writes to a grain of a block it owns.
ClientWrite ==
    /\ pc = "idle"
    /\ \E b \in live, a \in Grid, v \in Junk :
          /\ b.ptr <= a /\ a < b.ptr + Size(b.layout)
          /\ mem' = [mem EXCEPT ![a] = v]
    /\ UNCHANGED <<head, live, regs>>

Step == \/ AllocNext \/ AllocCarve \/ AllocNull
        \/ DeallocNext \/ DeallocFinish
        \/ StatNext \/ StatReturn

Next == AllocCall \/ DeallocCall \/ StatCall \/ ClientWrite \/ Step

Spec == Init /\ [][Next]_vars

\* The core executes a call it has entered: interrupts are masked and
\* nothing else runs until the call returns.
FairSpec == Spec /\ WF_vars(Step)

-----------------------------------------------------------------------------
(* Properties *)

\* n is the successor of lo among the addresses in F; NULL when there is
\* none.  NULL itself, below every address, has the first as its successor.
Follows(F, lo, n) ==
    /\ n = NULL \/ (n \in F /\ lo < n)
    /\ \A f \in F : lo < f => n # NULL /\ n <= f

\* The list that starts at head visits exactly F, in address order.
ListOf(F) == Follows(F, NULL, head) /\ \A f \in F : Follows(F, f, mem[f].next)

Before(p, m, q, n) == p + m <= q \/ q + n <= p

\* Every free block is a positive number of grains inside the arena, and a
\* gap separates it from the next one: neighbours have been merged.
FreeBlocksOK(F) ==
    /\ \A f \in F : /\ mem[f].size % GRAIN = 0 /\ mem[f].size > 0
                    /\ f + mem[f].size <= End
    /\ \A f, g \in F : f < g => f + mem[f].size < g

\* Every live block is on the grid, aligned, inside the arena, and apart from
\* every other live block and every free one.
LiveBlocksOK(F) ==
    /\ \A b \in live : /\ b.ptr \in Grid /\ b.layout \in Layouts
                       /\ b.ptr % Align(b.layout) = 0
                       /\ b.ptr + Size(b.layout) <= End
    /\ \A b, c \in live :
          b # c => Before(b.ptr, Size(b.layout), c.ptr, Size(c.layout))
    /\ \A b \in live, f \in F :
          Before(b.ptr, Size(b.layout), f, mem[f].size)

\* Every grain belongs to a free block or to a live one.
NothingLost(F) ==
    \A a \in Grid :
        \/ \E f \in F : f <= a /\ a < f + mem[f].size
        \/ \E b \in live : b.ptr <= a /\ a < b.ptr + Size(b.layout)

\* What the loops know: prev and cur are neighbours on the list, alloc has
\* rejected every block before cur, dealloc has passed only lower blocks.
CursorsOK(F) ==
    /\ pc # "idle" => /\ prev \in F \cup {NULL}
                      /\ Follows(F, prev, cur)
    /\ pc = "alloc" => \A f \in F : cur = NULL \/ f < cur => ~Suffices(f, req.layout)
    /\ pc = "dealloc" => req \in live /\ prev < req.ptr

\* The type invariant: headers, requests and cursors are what heap.rs declares,
\* and every cursor is null or on the grid.
TypeOK ==
    /\ head \in Grid \cup {NULL}
    /\ mem \in [Grid -> [size : Nat, next : Nat]]
    /\ live \subseteq [ptr : Nat, layout : [size : Nat, align : Nat \ {0}]]
    /\ pc \in {"idle", "alloc", "dealloc", "stat"}
    /\ req \in [ptr : Nat, layout : [size : Nat, align : Nat \ {0}]]
    /\ pc = "alloc" => req.layout \in Layouts
    /\ prev \in Grid \cup {NULL} /\ cur \in Grid \cup {NULL}
    /\ total \in Nat /\ count \in Nat

\* The heap is whole at every step of every call (the SAFETY comments of
\* alloc and dealloc): the headers form a sorted list of disjoint blocks
\* that, with the live blocks, tile the arena exactly.
HeapWhole ==
    \E F \in SUBSET Grid :
        ListOf(F) /\ FreeBlocksOK(F) /\ LiveBlocksOK(F) /\ NothingLost(F) /\ CursorsOK(F)

\* heap::selftest asserts this after one fixed sequence of calls: whatever
\* the order of allocations and frees, once everything has been given back
\* the list is the single block init created.
RestoredWhenEmpty ==
    live = {} /\ pc = "idle" =>
        head = Start /\ mem[Start] = [size |-> HeapSize, next |-> NULL]

\* free_bytes and free_blocks walk the list while its blocks say how large
\* they are; what they return is what the live blocks leave of the arena, to
\* the byte, and the number of blocks on the list.
Unheld == {a \in Grid : \A b \in live : ~(b.ptr <= a /\ a < b.ptr + Size(b.layout))}
StatsExact ==
    pc = "stat" /\ cur = NULL =>
        /\ total = Cardinality(Unheld) * GRAIN
        /\ \E F \in SUBSET Grid : ListOf(F) /\ count = Cardinality(F)

\* alloc returns null only if no aligned range of the normalised size is
\* clear of live blocks: first fit never fails from lost or unmerged memory.
NullOnlyWhenFull ==
    [][AllocNull =>
        ~\E p \in Grid :
            /\ p % Align(req.layout) = 0
            /\ p + Size(req.layout) <= End
            /\ \A b \in live : Before(p, Size(req.layout), b.ptr, Size(b.layout))]_vars

\* Clients see an allocator that never hands out memory twice, misaligned
\* or outside its arena: alloc and dealloc implement the abstract contract.
A == INSTANCE Allocator WITH ArenaStart <- Start, ArenaSize <- HeapSize
Contract == A!Spec

\* Every call returns: no list walk meets a cycle.
CallsReturn == (pc # "idle") ~> (pc = "idle")
=============================================================================
