-------------------------------- MODULE Boot --------------------------------
(***************************************************************************)
(* The bootloader from main (bootloader/src/main.rs) to the jump into the  *)
(* kernel, and the kernel's own first checks: reading the file (file.rs),  *)
(* claiming memory (elf.rs, memory.rs, handoff.rs), describing the screen  *)
(* (graphics.rs), leaving the firmware and copying its memory map          *)
(* (handoff.rs), and _start (kernel/src/main.rs).  The firmware, which is  *)
(* external, may refuse any call, and places what may go anywhere anywhere. *)
(***************************************************************************)
EXTENDS Arith, Sequences, FiniteSets

CONSTANTS
    PAGE,               \* bytes in a page
    ENTRY,              \* size_of::<MemoryRegion>()
    REGION_CAPACITY, KERNEL_STACK_PAGES,
    PageCount,          \* pages of physical memory
    Machines,           \* the memory maps at power-on: functions from pages to kinds
    KernelPages,        \* the pages the kernel's segments ask for
    FileSize            \* the size the file system reports for kernel.elf

ASSUME BootAssumption ==
    /\ PAGE \in Nat \ {0} /\ PAGE % 16 = 0 /\ ENTRY \in 1 .. PAGE
    /\ REGION_CAPACITY \in Nat \ {0} /\ KERNEL_STACK_PAGES \in Nat \ {0}
    /\ FileSize \in Nat
    /\ PageCount \in Nat \ {0}
    /\ Machines \subseteq [0 .. (PageCount - 1) -> {"conventional", "services", "reserved"}]

VARIABLES
    pc,                 \* the step that is next; "kernel", "failed", "fatal" or "panic" at the end
    kind,               \* the firmware's memory map, page by page
    stored,             \* bytes kernel.elf really has
    filled,             \* bytes of it read
    image, kernel, array, stack, info,  \* pages of: the file, the kernel, the
                                        \* region array, the stack, BootInfo
    mode,               \* the pixel format of the screen, "None" before it is opened
    bootInfo,           \* what the BootInfo page holds
    map,                \* the final map: a sequence of [start, pages, kind]
    regions,            \* the entries written to the region array
    iflag,              \* RFLAGS.IF
    rsp                 \* the stack pointer the kernel starts with

pages == <<image, kernel, array, stack, info>>
late  == <<mode, bootInfo, map, regions, iflag, rsp>>
vars  == <<pc, kind, stored, filled, pages, late>>

Page == 0 .. (PageCount - 1)

Init ==
    /\ pc = "open" /\ kind \in Machines /\ stored \in 0 .. FileSize /\ filled = 0
    /\ image = {} /\ kernel = {} /\ array = {} /\ stack = {} /\ info = {}
    /\ mode = "None" /\ bootInfo = <<>>
    /\ map = <<>> /\ regions = <<>> /\ iflag = TRUE /\ rsp = 0

\* qemu_exit::exit(Failed): any call on the firmware may make main give up.
Fail(label) ==
    /\ pc = label /\ pc' = "failed"
    /\ UNCHANGED <<kind, stored, filled, pages, late>>

\* The firmware's pool (external) grows into n free pages in a row, wherever
\* they are.
PoolRuns(n) == {r \in {i .. (i + n - 1) : i \in Page} :
                   r \subseteq Page /\ \A p \in r : kind[p] = "conventional"}

\* allocate_pages(AnyPages) (external) returns a NonNull: never page 0.
FreeRuns(n) == {r \in PoolRuns(n) : 0 \notin r}

Lowest(set)  == CHOOSE p \in set : \A q \in set : p <= q
Highest(set) == CHOOSE p \in set : \A q \in set : q <= p

Marked(set, k) == [p \in Page |-> IF p \in set THEN k ELSE kind[p]]

-----------------------------------------------------------------------------
\* read_file: ask for the size, then read until the buffer is full.
OpenFile ==
    /\ pc = "open"
    /\ \/ \E r \in PoolRuns(1) :
             image' = r /\ kind' = Marked(r, "loader") /\ pc' = "read"
       \/ PoolRuns(1) = {} /\ pc' = "panic" /\ UNCHANGED <<image, kind>>
    /\ UNCHANGED <<stored, filled, kernel, array, stack, info, late>>

\* A read delivers some of what is left, and nothing at the end of the file.
Delivered == IF filled < stored THEN 1 .. (stored - filled) ELSE {0}

ReadFile_Patient ==
    /\ pc = "read" /\ filled < FileSize
    /\ \E read \in Delivered : filled' = filled + read
    /\ UNCHANGED <<pc, kind, stored, pages, late>>

ReadFile ==
    /\ pc = "read" /\ filled < FileSize
    /\ \E read \in Delivered :
          /\ filled' = filled + read
          /\ pc' = IF read = 0 THEN "failed" ELSE "read"
    /\ UNCHANGED <<kind, stored, pages, late>>

\* elf::load_kernel (module ElfLoader), then the file's buffer is dropped.
LoadKernel ==
    /\ pc = "read" /\ filled = FileSize
    /\ KernelPages \subseteq Page /\ \A p \in KernelPages : kind[p] = "conventional"
    /\ kernel' = KernelPages /\ kind' = Marked(KernelPages, "loader")
    /\ pc' = "drop"
    /\ UNCHANGED <<stored, filled, image, array, stack, info, late>>

DropImage ==
    /\ pc = "drop" /\ pc' = "graphics"
    /\ kind' = Marked(image, "conventional") /\ image' = {}
    /\ UNCHANGED <<stored, filled, kernel, array, stack, info, late>>

\* PixelFormatKind, and its discriminant as FrameBufferInfo::new stores it.
PixelFormatKind == {"Rgb", "Bgr"}
Discriminant(f) == IF f = "Rgb" THEN 0 ELSE 1
from_u32(value) == IF value = 0 THEN "Rgb" ELSE IF value = 1 THEN "Bgr" ELSE "None"

\* open_framebuffer refuses a mode that cannot be drawn to directly.
OpenFramebuffer ==
    /\ pc = "graphics"
    /\ \E f \in {"Rgb", "Bgr", "Bitmask", "BltOnly"} :
          IF f \in PixelFormatKind THEN mode' = f /\ pc' = "regions"
                                   ELSE mode' = mode /\ pc' = "failed"
    /\ UNCHANGED <<kind, stored, filled, pages, bootInfo, map, regions, iflag, rsp>>

\* allocate_region_array: whole pages, and the capacity they really have.
ArrayPages == NextMultiple(REGION_CAPACITY * ENTRY, PAGE) \div PAGE
Capacity   == (ArrayPages * PAGE) \div ENTRY

AllocateRegionArray ==
    /\ pc = "regions" /\ pc' = "stack"
    /\ \E r \in FreeRuns(ArrayPages) : array' = r /\ kind' = Marked(r, "loader")
    /\ UNCHANGED <<stored, filled, image, kernel, stack, info, late>>

AllocateKernelStack ==
    /\ pc = "stack" /\ pc' = "info"
    /\ \E r \in FreeRuns(KERNEL_STACK_PAGES) : stack' = r /\ kind' = Marked(r, "loader")
    /\ UNCHANGED <<stored, filled, image, kernel, array, info, late>>

BOOT_INFO_MAGIC   == "RUSTB_L0"
BOOT_INFO_VERSION == 1

\* BootInfo::new: the map's length is filled in when the map is final.
NewBootInfo ==
    [magic |-> BOOT_INFO_MAGIC, version |-> BOOT_INFO_VERSION,
     pixel_format_raw |-> Discriminant(mode), memory_regions_ptr |-> Lowest(array) * PAGE,
     memory_regions_len |-> 0, kernel_base |-> Lowest(kernel) * PAGE,
     kernel_size |-> (Highest(kernel) + 1 - Lowest(kernel)) * PAGE]

AllocateBootInfo ==
    /\ pc = "info" /\ pc' = "exit"
    /\ \E r \in FreeRuns(1) : info' = r /\ kind' = Marked(r, "loader")
    /\ bootInfo' = NewBootInfo
    /\ UNCHANGED <<stored, filled, image, kernel, array, stack, mode, map, regions, iflag, rsp>>

-----------------------------------------------------------------------------
\* A descriptor starts where the kind changes, or where the firmware likes.
Starts(k) == {p \in Page : p = 0 \/ k[p] # k[p - 1]}
Descriptors(k, starts) ==
    LET first(i) == CHOOSE s \in starts : Cardinality({t \in starts : t < s}) = i - 1
        end(i)   == IF i = Cardinality(starts) THEN PageCount ELSE first(i + 1)
    IN  [i \in 1 .. Cardinality(starts) |->
            [start |-> first(i), pages |-> end(i) - first(i), kind |-> k[first(i)]]]

\* exit_boot_services: the map is made final in a buffer of its own, which
\* may be carved from free memory and split a region.
ExitBootServices ==
    /\ pc = "exit" /\ pc' = "copy"
    /\ \E buffer \in {{}} \cup PoolRuns(1), p \in Page :
          /\ kind' = Marked(buffer, "loader")
          /\ map' = Descriptors(kind', Starts(kind') \cup {p})
    /\ UNCHANGED <<stored, filled, pages, mode, bootInfo, regions, iflag, rsp>>

\* exit_and_jump copies descriptors while there are any and there is room.
Room_OffByOne == Len(regions) <= Capacity
Room == Len(regions) < Capacity

\* The UEFI memory types, and MemoryRegion::CONVENTIONAL.
MemoryType   == [reserved |-> 0, loader |-> 2, services |-> 4, conventional |-> 7]
CONVENTIONAL == 7

\* MemoryRegion::new of a descriptor: an address, a count of pages, the raw type.
Region_PageTooMany(d) == [start |-> d.start * PAGE, pages |-> d.pages + 1, kind |-> MemoryType[d.kind]]
Region(d) == [start |-> d.start * PAGE, pages |-> d.pages, kind |-> MemoryType[d.kind]]

CopyRegion ==
    /\ pc = "copy" /\ Len(regions) < Len(map) /\ Room
    /\ regions' = Append(regions, Region(map[Len(regions) + 1]))
    /\ UNCHANGED <<pc, kind, stored, filled, pages, mode, bootInfo, map, iflag, rsp>>

\* The stack pointer at entry: as if a call had pushed a return address.
EntryStack_Unbiased(top) == PrevMultiple(top, 16)
EntryStack(top) == PrevMultiple(top, 16) - 8

\* What is passed in rdi.
BootInfoPtr == Lowest(info) * PAGE

Jump ==
    /\ pc = "copy" /\ ~(Len(regions) < Len(map) /\ Room)
    /\ bootInfo' = [bootInfo EXCEPT !.memory_regions_len = Len(regions)]
    /\ iflag' = FALSE
    /\ rsp' = EntryStack((Lowest(stack) + KERNEL_STACK_PAGES) * PAGE)
    /\ pc' = "start"
    /\ UNCHANGED <<kind, stored, filled, pages, mode, map, regions>>

\* BootInfo::is_valid, which the kernel asks before it trusts the rest.
is_valid(b) ==
    /\ b.magic = BOOT_INFO_MAGIC /\ b.version = BOOT_INFO_VERSION
    /\ from_u32(b.pixel_format_raw) # "None"

\* _start: a pointer that is not null, to a BootInfo that is valid.
Start ==
    /\ pc = "start"
    /\ pc' = IF BootInfoPtr # 0 /\ is_valid(bootInfo) THEN "kernel" ELSE "fatal"
    /\ UNCHANGED <<kind, stored, filled, pages, late>>

Refuse == \/ Fail("open") \/ Fail("read") \/ Fail("graphics") \/ Fail("regions")
          \/ Fail("stack") \/ Fail("info")

Step == \/ OpenFile \/ ReadFile \/ LoadKernel \/ DropImage \/ OpenFramebuffer
        \/ AllocateRegionArray \/ AllocateKernelStack \/ AllocateBootInfo
        \/ ExitBootServices \/ CopyRegion \/ Jump \/ Start

Ended == pc \in {"kernel", "failed", "fatal", "panic"} /\ UNCHANGED vars

Next == Step \/ Refuse \/ Ended

Spec == Init /\ [][Next]_vars

\* The processor runs, and a firmware call that cannot succeed is refused; a
\* read need not be, so it must not be waited for.
FairSpec ==
    Spec /\ WF_vars(Step) /\ WF_vars(Refuse /\ ~(pc = "read" /\ filled < FileSize))

-----------------------------------------------------------------------------
(* Properties *)

Handed == kernel \cup array \cup stack \cup info

\* Everything the kernel starts with, its image, stack, BootInfo and region
\* array, is apart from the rest and in memory that outlives the boot
\* services; the copy of the map, which nothing could report, stays in its array.
HandoffSurvives ==
    /\ \A p \in Handed : kind[p] = "loader"
    /\ kernel \cap (array \cup stack \cup info) = {}
    /\ array \cap (stack \cup info) = {} /\ stack \cap info = {}
    /\ Len(regions) * ENTRY <= Cardinality(array) * PAGE

\* is_usable, and the frames the kernel's allocator will find: whole pages of
\* usable entries of BootInfo::memory_regions, never the one at address 0.
is_usable(r) == r.kind = CONVENTIONAL
UsableFrames ==
    {p \in 1 .. PageCount : \E i \in 1 .. bootInfo.memory_regions_len :
        /\ is_usable(regions[i])
        /\ regions[i].start <= p * PAGE
        /\ (p + 1) * PAGE <= regions[i].start + regions[i].pages * PAGE}

\* The map the kernel receives offers no frame that is in use, or that is not
\* memory at all: it was taken after the last allocation, and truncating it
\* only hides memory (handoff.rs).
OnlyFreeFramesOffered ==
    pc = "kernel" =>
        \A p \in UsableFrames : p \in Page /\ kind[p] = "conventional" /\ p \notin Handed

\* What _start relies on: interrupts masked, a stack pointer inside the stack
\* and 8 below a multiple of 16, as after a call, and a BootInfo it accepts,
\* at an address that is not null, whose pixel format is the screen's and
\* whose kernel span has all the kernel's pages.
EntryContract ==
    /\ pc # "fatal"
    /\ pc \in {"start", "kernel"} =>
          /\ ~iflag
          /\ rsp % 16 = 8 /\ (rsp \div PAGE) \in stack
          /\ from_u32(bootInfo.pixel_format_raw) = mode
          /\ \A p \in kernel : /\ bootInfo.kernel_base <= p * PAGE
                                /\ (p + 1) * PAGE <= bootInfo.kernel_base + bootInfo.kernel_size

\* The bootloader neither hangs nor waits for bytes a short file lacks.
BootDecides == <>(pc \in {"kernel", "failed", "fatal", "panic"})
=============================================================================
