------------------------------- MODULE Memory -------------------------------
(***************************************************************************)
(* How kernel_main brings memory up (kernel/src/main.rs): frame::init,      *)
(* frame::selftest, heap::init, which takes the heap's arena from the frame *)
(* allocator, and heap::selftest, over the two allocators step by step.     *)
(* When it has succeeded, any client may use the frames that are left.      *)
(* Addresses inside the heap are relative: the arena starts at PAGE, as it  *)
(* is page aligned wherever it lies.                                        *)
(***************************************************************************)
EXTENDS Frames

CONSTANTS
    GRAIN,
    HEAP_FRAMES,        \* contiguous frames the heap asks for
    HeapJunk,           \* what the heap's frames hold at first, as headers
    Growth, Text        \* the capacities a Vec and a String grow through

ASSUME MemoryAssumption ==
    /\ GRAIN \in Nat \ {0} /\ GRAIN % 2 = 0 /\ PAGE % GRAIN = 0
    /\ HEAP_FRAMES \in Nat \ {0} /\ HEAP_FRAMES * PAGE < LIMIT
    /\ HeapJunk \subseteq [size : Nat, next : Nat] /\ HeapJunk # {}
    /\ Growth \in Seq(Nat \ {0}) /\ Text \in Seq(Nat \ {0})

Bytes(n) == [size |-> n, align |-> 1]
Word64   == [size |-> GRAIN \div 2, align |-> GRAIN \div 2]
Block    == Bytes(4 * GRAIN)
SelftestLayouts ==
    {Word64, Block} \cup {Bytes(Growth[i]) : i \in DOMAIN Growth}
                    \cup {Bytes(Text[i]) : i \in DOMAIN Text}

VARIABLES
    at,                 \* the call of Script that is next
    slot,               \* the results that start-up holds, by name
    verdict,            \* "none", or "Failed" when kernel_main has given up
    head, mem, live, hpc, req, prev, cur, total, count     \* the heap's

heap     == <<head, mem, live, hpc, req, prev, cur, total, count>>
everything == <<vars, heap, at, slot, verdict>>

H == INSTANCE Heap WITH Start <- PAGE, HeapSize <- HEAP_FRAMES * PAGE, Junk <- HeapJunk,
        Layouts <- SelftestLayouts, pc <- hpc

\* What heap::selftest allocates fits the heap's arena: the three adjacent
\* blocks; every buffer; and while a buffer is held its successor, whether
\* the free memory lies below it or above.  In the code the vector's last
\* buffer is 8 KiB, and the arena is 1 MiB.
ASSUME SelftestFits ==
    /\ 3 * (4 * GRAIN) <= HEAP_FRAMES * PAGE
    /\ \A caps \in {Growth, Text} : \A k \in 1 .. Len(caps) :
          /\ H!Size(Bytes(caps[k])) <= HEAP_FRAMES * PAGE
          /\ k < Len(caps) => H!Size(Bytes(caps[k])) + 2 * H!Size(Bytes(caps[k + 1]))
                                 <= HEAP_FRAMES * PAGE

-----------------------------------------------------------------------------
(* What start-up calls, in order *)

Alloc(name, layout) == [op |-> "alloc", name |-> name, layout |-> layout]
Free(name, layout)  == [op |-> "dealloc", name |-> name, layout |-> layout]
Frame(op, name)     == [op |-> op, name |-> name, layout |-> Word64]

\* A vector that grows allocates the larger buffer and then frees the
\* smaller one (GlobalAlloc::realloc), and frees the last when dropped.
Buffer(k) == IF k % 2 = 1 THEN "odd" ELSE "even"
Grow(caps) ==
    [i \in 1 .. (2 * Len(caps)) |->
        LET k == i \div 2
        IN  IF i = 2 * Len(caps) \/ (i > 1 /\ i % 2 = 1)
            THEN Free(Buffer(k), Bytes(caps[k]))
            ELSE Alloc(Buffer(k + 1), Bytes(caps[k + 1]))]

FrameSelftest ==
    << Frame("alloc_frame", "first"), Frame("dealloc_frame", "first"),
       Frame("alloc_frame", "again"), Frame("dealloc_frame", "again"),
       Frame("alloc_frame", "a"),     Frame("alloc_frame", "b"),
       Frame("dealloc_frame", "b"),   Frame("dealloc_frame", "a") >>

HeapSelftest ==
    << Frame("stat", "before"), Alloc("box", Word64), Free("box", Word64) >>
    \o Grow(Growth) \o Grow(Text)
    \o << Alloc("first", Block), Alloc("middle", Block), Alloc("last", Block),
          Free("first", Block), Free("last", Block), Free("middle", Block),
          Frame("stat", "bytes"), Frame("stat", "blocks") >>

Script == FrameSelftest \o << Frame("heap_init", "heap") >> \o HeapSelftest
Names == {Script[i].name : i \in DOMAIN Script}

MemoryInit ==
    /\ Init
    /\ at = 1 /\ slot = [n \in Names |-> 0] /\ verdict = "none"
    /\ head = H!NULL /\ \E v \in HeapJunk : mem = [a \in H!Grid |-> v]
    /\ live = {} /\ hpc = "idle" /\ req = H!NoReq
    /\ prev = H!NULL /\ cur = H!NULL /\ total = 0 /\ count = 0

Starting == verdict = "none" /\ at <= Len(Script)
Op       == Script[at]
Calling(op) == Starting /\ pc = "idle" /\ hpc = "idle" /\ Op.op = op

\* The call returned a value, which start-up keeps, and gives up on if it
\* is not what the self-test expects.
Returned(value, expected) ==
    /\ slot' = [slot EXCEPT ![Op.name] = value]
    /\ at' = at + 1
    /\ verdict' = IF expected THEN "none" ELSE "Failed"

Within == UNCHANGED <<at, slot, verdict>>

\* The panic handler: report, and exit.
Panic == verdict' = "Failed" /\ UNCHANGED <<at, slot>>

-----------------------------------------------------------------------------
(* frame::init, frame::selftest and heap::init *)

\* No usable frame at all is fatal.
FrameInit ==
    \/ Seed /\ UNCHANGED verdict
    \/ SeedFails /\ verdict' = "Failed"

\* What frame::selftest requires of a frame, and heap::init of its arena.
Expected(frame) ==
    /\ frame # NONE
    /\ Op.name = "first" => frame % PAGE = 0
    /\ Op.name = "again" => frame = slot["first"]
    /\ Op.name = "b"     => frame # slot["a"]

FrameCall ==
    /\ \/ Calling("alloc_frame") /\ AllocPop /\ Returned(free, Expected(free))
       \/ Calling("alloc_frame") /\ AllocBump /\ Within
       \/ Calling("dealloc_frame") /\ Dealloc(slot[Op.name]) /\ Returned(slot[Op.name], TRUE)
       \/ Calling("heap_init") /\ ContiguousCall(HEAP_FRAMES) /\ Within
    /\ UNCHANGED heap

\* bump inside one of these calls; heap::init then arms the heap.
FrameStep ==
    /\ Starting
    /\ \/ BumpTake /\ Returned(cursor, Expected(cursor))
       \/ BumpNone /\ Returned(NONE, FALSE)
       \/ BumpPanic /\ Panic
       \/ (BumpStrand \/ BumpNextRun) /\ Within
    /\ IF BumpTake /\ Op.op = "heap_init"
       THEN /\ head' = PAGE
            /\ mem' = [mem EXCEPT ![PAGE] = [size |-> HEAP_FRAMES * PAGE, next |-> H!NULL]]
            /\ UNCHANGED <<live, hpc, req, prev, cur, total, count>>
       ELSE UNCHANGED heap

-----------------------------------------------------------------------------
(* heap::selftest *)

HeapCall ==
    /\ \/ Calling("alloc") /\ H!Enter("alloc", [ptr |-> H!NULL, layout |-> Op.layout])
       \/ Calling("dealloc") /\ H!Enter("dealloc", [ptr |-> slot[Op.name], layout |-> Op.layout])
       \/ Calling("stat") /\ H!StatCall
    /\ Within /\ UNCHANGED vars

\* A null pointer panics; a sum of free bytes other than the first one, or a
\* number of free blocks other than one, fails the self-test.
HeapStep ==
    /\ Starting
    /\ \/ (H!AllocNext \/ H!DeallocNext \/ H!StatNext) /\ Within
       \/ H!AllocCarve /\ Returned(H!Payload(cur, req.layout), TRUE)
       \/ H!AllocNull /\ Panic
       \/ H!DeallocFinish /\ Returned(req.ptr, TRUE)
       \/ /\ H!StatReturn
          /\ Returned(total, /\ Op.name = "bytes" => total = slot["before"]
                             /\ Op.name = "blocks" => count = 1)
    /\ UNCHANGED vars

-----------------------------------------------------------------------------
(* The kernel is up: the frames that are left are for any client *)

Up == verdict = "none" /\ at > Len(Script)

UpStep == Up /\ Client /\ UNCHANGED <<heap, at, slot, verdict>>
UpBump == Up /\ Bump /\ UNCHANGED <<heap, at, slot, verdict>>

Stopped == (verdict = "Failed" \/ pc = "panic") /\ UNCHANGED everything

MemoryNext ==
    \/ FrameInit /\ UNCHANGED <<heap, at, slot>>
    \/ FrameCall \/ FrameStep \/ HeapCall \/ HeapStep
    \/ UpStep \/ UpBump \/ Stopped

MemorySpec == MemoryInit /\ [][MemoryNext]_everything

\* A call that has been entered runs on: interrupts are masked meanwhile.
FairMemory ==
    MemorySpec /\ WF_everything(FrameStep) /\ WF_everything(HeapStep) /\ WF_everything(UpBump)

-----------------------------------------------------------------------------
(* Properties *)

\* Start-up gives up only on a machine too small for it: a map with one run
\* of the heap's frames and two more, which the first self-test leaves behind
\* the cursor, is enough, however the firmware arranged it; or on a map whose
\* last run ends where bump's own arithmetic overflows.
StartsWhenItCan ==
    verdict = "Failed" =>
        \/ pc = "panic"
        \/ \A k \in 1 .. Len(regions) :
              Yields(regions[k]) =>
                 RunEnd(regions[k]) - RunStart(regions[k]) < (HEAP_FRAMES + 2) * PAGE

\* Every call of either allocator returns, or panics: no walk of the free
\* list meets a cycle, and bump runs out of map.
CallsReturn ==
    (pc \in {"frame", "contiguous"} \/ hpc # "idle")
        ~> (pc = "panic" \/ (pc = "idle" /\ hpc = "idle"))
=============================================================================
