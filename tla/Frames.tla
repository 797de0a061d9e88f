------------------------------- MODULE Frames -------------------------------
(***************************************************************************)
(* The physical frame allocator (kernel/src/frame.rs) over the usable runs *)
(* of the UEFI memory map (UsableRegions in boot_info/src/lib.rs): a bump  *)
(* cursor, and a LIFO stack threaded through the freed frames themselves.  *)
(* Each turn of bump's two loops is one step.  Calls are not interleaved:  *)
(* each runs inside without_interrupts on the only core.                   *)
(***************************************************************************)
EXTENDS Arith, Sequences, FiniteSets

CONSTANTS
    PAGE,           \* PAGE_SIZE
    LIMIT,          \* 2^64: one past the largest u64
    Maps,           \* the memory maps: sequences of [start, pages, usable]
    Requests,       \* the contiguous requests, in frames
    Junk            \* what a client may leave in a frame's first word

NONE == 0           \* None of an Option<NonNull<FreeFrame>>

\* UsableRegions::next, for one descriptor: it is skipped unless it is
\* conventional memory, its span and its end fit a u64, and rounding inward,
\* above the frame at address 0, leaves a whole frame.
RunStart(r) == NextMultiple(AtLeast(r.start, PAGE), PAGE)
RunEnd(r)   == PrevMultiple(r.start + r.pages * PAGE, PAGE)
Yields_EndUnchecked(r) ==
    /\ r.usable
    /\ r.pages * PAGE < LIMIT
    /\ RunStart(r) < LIMIT
    /\ RunStart(r) < RunEnd(r)

Yields(r) ==
    /\ r.usable
    /\ r.pages * PAGE < LIMIT
    /\ r.start + r.pages * PAGE < LIMIT
    /\ RunStart(r) < LIMIT
    /\ RunStart(r) < RunEnd(r)

\* The firmware's map may be in any order and hold any descriptor, but two
\* descriptors of conventional memory do not describe the same memory.
ASSUME FramesAssumption ==
    /\ PAGE \in Nat \ {0}
    /\ LIMIT \in Nat \ {0} /\ LIMIT % PAGE = 0
    /\ Maps \subseteq Seq([start : 0 .. (LIMIT - 1), pages : 0 .. (LIMIT - 1), usable : BOOLEAN])
    /\ \A m \in Maps : \A i, j \in 1 .. Len(m) :
          i # j /\ Yields(m[i]) /\ Yields(m[j])
             => RunEnd(m[i]) <= RunStart(m[j]) \/ RunEnd(m[j]) <= RunStart(m[i])
    /\ Requests \subseteq Nat \ {0}
    /\ Junk \subseteq Nat

\* Every frame there is: page-aligned addresses.
Page == {a \in 0 .. (LIMIT - 1) : a % PAGE = 0}

VARIABLES
    regions,        \* the map the bootloader handed over
    index,          \* UsableRegions.index: descriptors consumed
    cursor,         \* next address of the current run not handed out
    run_end,        \* one past the last usable address of the current run
    free,           \* top of the free stack
    node,           \* first word of every frame, read as FreeFrame.next
    in_use,         \* frames handed out and not returned
    owned,          \* the frames clients hold
    singles,        \* those that came from alloc_frame
    stack,          \* history: the frames pushed and not popped, newest first
    pc,             \* "boot", "idle", "frame"/"contiguous" in bump, "fatal", "panic"
    frames          \* bump's argument

alloc == <<index, cursor, run_end, free, node, in_use, stack>>
vars  == <<regions, alloc, owned, singles, pc, frames>>

-----------------------------------------------------------------------------
\* The index of the first descriptor after i that yields a run, if any.
IsNextRun(i, j) ==
    /\ j \in (i + 1) .. Len(regions) /\ Yields(regions[j])
    /\ \A k \in (i + 1) .. (j - 1) : ~Yields(regions[k])
NoMoreRuns(i) == \A k \in (i + 1) .. Len(regions) : ~Yields(regions[k])

EnterRun(j) ==
    /\ index' = j
    /\ cursor' = RunStart(regions[j])
    /\ run_end' = RunEnd(regions[j])

Init ==
    /\ regions \in Maps
    /\ index = 0 /\ cursor = 0 /\ run_end = 0
    /\ free = NONE /\ in_use = 0 /\ stack = <<>>
    /\ \E v \in Junk : node = [a \in Page |-> v]
    /\ owned = {} /\ singles = {}
    /\ pc = "boot" /\ frames = 0

\* frame::init finds the first run.  A map with none is fatal to the kernel.
Seed ==
    /\ pc = "boot" /\ pc' = "idle"
    /\ \E j \in 1 .. Len(regions) : IsNextRun(0, j) /\ EnterRun(j)
    /\ UNCHANGED <<regions, free, node, in_use, stack, owned, singles, frames>>

SeedFails ==
    /\ pc = "boot" /\ pc' = "fatal"
    /\ NoMoreRuns(0)
    /\ UNCHANGED <<regions, alloc, owned, singles, frames>>

\* push_free: the node goes into the frame itself.
Push_Unlinked(a) ==
    /\ free' = a
    /\ stack' = <<a>> \o stack
    /\ UNCHANGED node

Push(a) ==
    /\ node' = [node EXCEPT ![a] = free]
    /\ free' = a
    /\ stack' = <<a>> \o stack

-----------------------------------------------------------------------------
(* alloc_frame: pop the free stack, else bump *)

AllocPop ==
    /\ pc = "idle" /\ free # NONE
    /\ free' = node[free]
    /\ in_use' = in_use + 1
    /\ owned' = owned \cup {free} /\ singles' = singles \cup {free}
    /\ stack' = Tail(stack)
    /\ UNCHANGED <<regions, index, cursor, run_end, node, pc, frames>>

AllocBump ==
    /\ pc = "idle" /\ free = NONE
    /\ pc' = "frame" /\ frames' = 1
    /\ UNCHANGED <<regions, alloc, owned, singles>>

(* alloc_contiguous: a size in bytes that overflows is refused at once *)

ContiguousCall(n) ==
    /\ pc = "idle"
    /\ n * PAGE < LIMIT
    /\ pc' = "contiguous" /\ frames' = n
    /\ UNCHANGED <<regions, alloc, owned, singles>>

\* bump
Wanted    == frames * PAGE
Fits_Strictly == run_end >= cursor /\ run_end - cursor > Wanted
Fits      == run_end >= cursor /\ run_end - cursor >= Wanted
Remaining_Ignored == FALSE
Remaining_ButLast == cursor + PAGE < run_end
Remaining == cursor + PAGE <= run_end       \* a whole frame is left in the run

\* The run is large enough: hand out its next frames.
BumpTake ==
    /\ pc \in {"frame", "contiguous"} /\ Fits
    /\ cursor' = cursor + Wanted
    /\ in_use' = in_use + frames
    /\ LET taken == {a \in Page : cursor <= a /\ a < cursor + Wanted}
       IN  /\ owned' = owned \cup taken
           /\ singles' = IF pc = "frame" THEN singles \cup taken ELSE singles
    /\ pc' = "idle" /\ frames' = 0
    /\ UNCHANGED <<regions, index, run_end, free, node, stack>>

\* It is not: its frames go to the free stack one at a time.
BumpStrand ==
    /\ pc \in {"frame", "contiguous"} /\ ~Fits
    /\ cursor + PAGE < LIMIT /\ Remaining
    /\ cursor' = cursor + PAGE
    /\ Push(cursor)
    /\ UNCHANGED <<regions, index, run_end, in_use, owned, singles, pc, frames>>

\* The addition in the loop's condition overflows a u64, and the build checks.
BumpPanic ==
    /\ pc \in {"frame", "contiguous"} /\ ~Fits
    /\ cursor + PAGE >= LIMIT
    /\ pc' = "panic"
    /\ UNCHANGED <<regions, alloc, owned, singles, frames>>

BumpNextRun ==
    /\ pc \in {"frame", "contiguous"} /\ ~Fits
    /\ cursor + PAGE < LIMIT /\ ~Remaining
    /\ \E j \in 1 .. Len(regions) : IsNextRun(index, j) /\ EnterRun(j)
    /\ UNCHANGED <<regions, free, node, in_use, stack, owned, singles, pc, frames>>

\* No run is left: bump, and with it the call, returns None.
BumpNone_Spins ==
    /\ pc \in {"frame", "contiguous"} /\ ~Fits
    /\ cursor + PAGE < LIMIT /\ ~Remaining
    /\ NoMoreRuns(index)
    /\ index' = Len(regions)
    /\ UNCHANGED <<regions, cursor, run_end, free, node, in_use, stack, owned, singles, pc, frames>>

BumpNone ==
    /\ pc \in {"frame", "contiguous"} /\ ~Fits
    /\ cursor + PAGE < LIMIT /\ ~Remaining
    /\ NoMoreRuns(index)
    /\ index' = Len(regions)
    /\ pc' = "idle" /\ frames' = 0
    /\ UNCHANGED <<regions, cursor, run_end, free, node, in_use, stack, owned, singles>>

-----------------------------------------------------------------------------
\* dealloc_frame, with a frame alloc_frame returned.
Dealloc(a) ==
    /\ pc = "idle" /\ a \in singles
    /\ Push(a)
    /\ owned' = owned \ {a} /\ singles' = singles \ {a}
    /\ in_use' = IF in_use > 0 THEN in_use - 1 ELSE 0
    /\ UNCHANGED <<regions, index, cursor, run_end, pc, frames>>

\* A client writes to a frame it holds.
ClientWrite ==
    /\ pc = "idle"
    /\ \E a \in owned, v \in Junk : node' = [node EXCEPT ![a] = v]
    /\ UNCHANGED <<regions, index, cursor, run_end, free, in_use, stack, owned, singles, pc, frames>>

Bump == BumpTake \/ BumpStrand \/ BumpPanic \/ BumpNextRun \/ BumpNone

\* Any client may call, at any time.
Client ==
    \/ AllocPop \/ AllocBump \/ ClientWrite
    \/ \E n \in Requests : ContiguousCall(n)
    \/ \E a \in singles : Dealloc(a)

Next == Seed \/ SeedFails \/ Client \/ Bump

Spec == Init /\ [][Next]_vars
-----------------------------------------------------------------------------
(* Properties *)

In(a, r)  == RunStart(r) <= a /\ a < RunEnd(r)
Usable    == {a \in Page : \E k \in 1 .. Len(regions) : Yields(regions[k]) /\ In(a, regions[k])}
Ahead     == {a \in Page : \/ cursor <= a /\ a < run_end
                           \/ \E k \in (index + 1) .. Len(regions) :
                                 Yields(regions[k]) /\ In(a, regions[k])}
Stacked   == {stack[i] : i \in 1 .. Len(stack)}

\* The type invariant: the cursor and the end of its run are page aligned and in
\* order, whatever the map (FrameAllocator in frame.rs).
TypeOK ==
    /\ regions \in Maps /\ index \in 0 .. Len(regions)
    /\ cursor \in Page /\ run_end \in Page /\ cursor <= run_end
    /\ free \in Page
    /\ node \in [Page -> Nat]
    /\ in_use \in Nat
    /\ owned \subseteq Page /\ singles \subseteq owned
    /\ stack \in Seq(Page)
    /\ pc \in {"boot", "idle", "frame", "contiguous", "fatal", "panic"}
    /\ frames \in Nat

\* Every usable frame is held by a client, waits on the free stack or lies
\* ahead of the cursor, and never two of these: alloc hands no frame out
\* twice, and bump strands no run tail it steps over (frame.rs, bump).  And
\* in_use, which is updated apart from all that, counts the frames held: its
\* saturating subtraction never saturates.
FramesAccounted ==
    /\ Usable = owned \cup Stacked \cup Ahead
    /\ owned \cap Stacked = {} /\ owned \cap Ahead = {} /\ Stacked \cap Ahead = {}
    /\ \A i, j \in 1 .. Len(stack) : i # j => stack[i] # stack[j]
    /\ in_use = Cardinality(owned)

\* The free stack threaded through the frames is the stack of frames that
\* were pushed and not popped, whatever clients wrote into frames they held.
StackInMemory ==
    /\ free = IF stack = <<>> THEN NONE ELSE Head(stack)
    /\ \A i \in 1 .. Len(stack) :
          node[stack[i]] = IF i = Len(stack) THEN NONE ELSE stack[i + 1]

\* The loop condition of bump overflows, and so panics, only when a run
\* that ends on the last page but one of the address space is exhausted.
PanicsOnlyAtTheTop == pc = "panic" => cursor = LIMIT - PAGE /\ run_end = LIMIT - PAGE

\* alloc_frame returns None only when clients hold every usable frame; a
\* contiguous request that fails leaves every frame nobody holds on the stack.
NoneMeansExhausted ==
    [][BumpNone => /\ Usable \ owned = Stacked
                   /\ pc = "frame" => owned = Usable]_vars

\* Some run, or what is left of the current one, can serve the request.
RoomAhead ==
    \/ Fits
    \/ \E k \in (index + 1) .. Len(regions) :
          Yields(regions[k]) /\ RunEnd(regions[k]) - RunStart(regions[k]) >= Wanted

\* bump passes over no run that could have served the request.
RoomIsFound ==
    [][Bump /\ RoomAhead => BumpTake \/ RoomAhead' \/ BumpPanic]_vars
=============================================================================
