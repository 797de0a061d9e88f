# A verification of the x86 Rust bootloader and kernel

This directory holds TLA+ models of the UEFI bootloader, of the kernel it starts
and of the harness that tests both; TLC configurations that check them on small
instances; and proofs, checked by TLAPS, of the safety properties of every
component for every instance. `PROJECT.json` lists the components, the runs, the mutants that show
each property can fail, the source lines behind every definition, the findings,
the hazards the properties are aimed at, and the theorems.

## The system

| Part | Source | State it keeps | Operations | Talks to |
|---|---|---|---|---|
| Bootloader | `bootloader/src/main.rs`, `file.rs`, `graphics.rs`, `memory.rs`, `handoff.rs` | pages claimed from the firmware, `BootInfo`, the region array | read the kernel file, load it, describe the screen, claim stack and `BootInfo`, leave the firmware, jump | UEFI calls; hands `BootInfo` to the kernel |
| ELF loader | `bootloader/src/elf.rs` | span of the image so far, pages written | check header, check and load each segment, check entry | UEFI `allocate_pages` |
| Handoff contract | `boot_info/src/lib.rs` | `BootInfo`, `MemoryRegion[]` | validation, iteration over usable runs | shared by both binaries |
| Start-up | `kernel/src/main.rs` (`kernel_main` to `sti`) | none of its own | `init`, `selftest`, memory bring-up, `interrupts::enable` | calls every part below, prints in between |
| Descriptor tables | `kernel/src/gdt.rs`, `idt.rs` | `GDT`, `TSS`, `IDT`, the fault stack | build and load each table; exception handlers | read by the CPU at every interrupt and exception |
| Device programming | `kernel/src/pic.rs`, `pit.rs`, `port.rs` | none of its own | `pic::init`, `pit::init`, `end_of_interrupt` | the 8259s and the 8254, by port I/O |
| Frame allocator | `kernel/src/frame.rs` | cursor, run end, free stack threaded through freed frames, `in_use` | `init`, `alloc_frame`, `alloc_contiguous`, `dealloc_frame` | reads the region array; feeds the heap |
| Heap | `kernel/src/heap.rs` | free list threaded through free memory | `init`, `alloc`, `dealloc`, `free_bytes`, `free_blocks` | the global allocator |
| Interrupts | `kernel/src/idt.rs`, `interrupts.rs`, `pic.rs`, `keyboard.rs` | `TICKS`, `KEY_EVENTS_SEEN`, the interrupt flag | timer, keyboard and catch-all handlers, `without_interrupts`, EOI | preempt `kernel_main` |
| Verdict | `kernel/src/main.rs`, `qemu_exit.rs` | deadline | wait for ticks, wait for a key, exit | counters of the handlers |
| Serial output | `kernel/src/serial.rs` | none of its own | `init`, `_print`, `write_str`, `write_byte` | the UART, the screen; called by everyone, handlers included |
| Screen | `kernel/src/console.rs`, `main.rs` (`fill_screen`) | cursor, framebuffer | paint, draw, wrap, scroll | called by serial output |
| PS/2 start-up | `kernel/src/ps2.rs` | none of its own | `init` | the 8042, by port I/O |
| Harness | `xtask/src/main.rs` | staged kernel image, QEMU child, capture file | `run`, `test`, key injector thread | QEMU, its monitor, the guest |

What is hard in it: intrusive lists whose nodes live in memory clients wrote to;
arithmetic at the ends of regions and of the address space; interrupts between
any two accesses; tables and chips programmed by untagged words and bytes that
are only tried when something goes wrong; devices that answer late, never, or with somebody else's byte;
a firmware that may refuse every call and changes the memory map under its
caller; a harness with three polling loops around a process that may exit in any
of them. There is one core and no threads in the guest; the harness has one
extra thread. Nothing is persisted by the guest; the harness leaves an ESP
directory behind for the next command.

What makes each part correct: the allocators hand out aligned, disjoint, in-range
memory and lose none; the loader puts exactly the file's image in place and
writes nowhere else; the handoff survives the firmware and the map offers no
frame in use; handlers do not nest and every interrupt is acknowledged once, for
its own line; every table and chip is ready before it is first needed, and no
fault resets the machine without a report; every wait ends; terminal and screen
show the text; `PASS` comes from this command's own guest.

## Modules

| Module | Models | One step is |
|---|---|---|
| `Arith` | `next_multiple_of`, rounding down, `max` | (operators) |
| `Allocator` | what a `GlobalAlloc` promises: the abstract specification | an allocation or a free |
| `Heap` | `heap.rs` | an iteration of a list walk, or the carve or merge that ends it |
| `Frames` | `frame.rs` and `UsableRegions::next` | a turn of one of `bump`'s loops, or a call that does not loop |
| `Runtime` | `kernel_main` from `sti` on, handlers, `without_interrupts`, `_print` | one access to shared state |
| `ElfLoader` | `elf.rs` | one program header |
| `Tables` | GDT, TSS and IDT formats: how `gdt.rs` and `idt.rs` write them, how the CPU reads them | (operators on sets of bits) |
| `Traps` | the tables in use: `gdt::init`, `idt::init`, delivery of exceptions and interrupts, exception handlers | one instruction that the CPU notices, or one fault in delivery |
| `Ps2` | `ps2::init` | one port access |
| `Startup` | `kernel_main` to `sti` and the first interrupts; composes `Traps` and `Ps2`, adds `pic::init` and `pit::init` | one instruction that a device or the CPU notices |
| `Memory` | memory bring-up and both self-tests; composes `Frames` and `Heap` | as in `Frames` and `Heap` |
| `Console` | `fill_screen`, `console.rs` | one byte drawn |
| `Serial` | `serial.rs`; composes the UART and the terminal with `Console` | one port write, one byte |
| `Boot` | the bootloader's `main` to the jump, `boot_info`, and `_start` | one firmware call, read or copied descriptor |
| `Harness` | `xtask run` and `xtask test` | one poll, file operation or message |
| `MCHeap`, `MCMemory`, `MCElfLoader`, `MCStartup`, `MCSerial`, `MCBoot` | the small instances for TLC | |
| `ArithProofs` | lemmas about multiples, quotients and rounding, extremes of sets of numbers, counting | |
| `HeapProofs`, `FramesProofs`, `ElfProofs`, `BootProofs`, `StartupProofs`, `RuntimeProofs`, `HarnessProofs` | theorems about the module of that name; `StartupProofs` also about `Traps` and `Ps2`, `FramesProofs` about `Frames` alone and about `Memory`, citing `HeapProofs` at the arena, `RuntimeProofs` about `Runtime` and about `Serial` with `Console` | |

`Heap` implements `Allocator` (the property `Contract`, with the arena's bounds
substituted). The modules meet at assumptions that the neighbour establishes:

* `Boot!OnlyFreeFramesOffered` is what `Frames` takes for granted of its map;
  `Frames` itself assumes only that usable descriptors do not overlap
  (`FramesAssumption`), not that they are sorted, aligned or sane.
* `Memory` joins `Frames` and `Heap`: `heap::init` arms the heap with the frames
  that `alloc_contiguous` returned, and the self-tests run on both, step by step.
  Inside, the arena is moved to a fixed address; it is page aligned wherever the
  frame allocator found it, and the heap looks at differences only.
* `Startup` joins `Traps` and `Ps2`. Its end is the initial condition of
  `Runtime`: interrupts on, the lines of timer and keyboard open (`DevicesReady`),
  a byte left in the 8042 announced (`KeyboardReady`), each line with a handler
  (`IrqReachesItsHandler`). In it, `Screen`, `MemoryUp` and `MemoryFails` stand
  for the calls that `Serial` and `Memory` model in full.
* `Serial` writes each byte to the UART and then to the screen of `Console`, as
  `write_str` does.
* In `Boot`, `LoadKernel` is the effect of a successful `ElfLoader` run on the
  memory map, and any of its errors is one of the refusals.

State and actions carry the names of the code where TLA+ allows. A few variables
are history: `live` in `Heap` and `owned`, `singles`, `stack` in `Frames` record
what clients hold or what was pushed; `lines` in `Console` is the text printed;
`said` in `Serial` the text before any wrapping; `lost` in `Ps2` records an
overrun write; `source` and `cause` of a trap in `Traps` what led to it; `open` in `Runtime` who is inside a
line. Memory is modelled as memory: `mem` in `Heap` is what each grain reads as
when taken for a header, and clients may overwrite what they own (`Junk`), so a
list is what following its pointers gives, never a set kept on the side. A
64-bit descriptor word is the set of its one bits, so that the shifts and masks
of `gdt.rs` and `idt.rs` are kept as they are and the CPU's own decoding can be
compared with them.

Abstractions: field decoding in `parse_header` is reduced to which of its checks
fail; scancodes to "translated" or not; the text of messages is left out, what
the exception handlers dump included; the pixel comparison in
`check_screen_has_text` is an outcome, but the file it looks at may be missing,
short, of an earlier moment or of an earlier command (`"stale"`, which the code
cannot tell from its own). The guest of `Harness` may run or not whatever kernel
is staged: that the loader rejects a spoilt one is not assumed. Both binaries are
built in the dev profile, so an arithmetic overflow is a panic (`BumpPanic`,
`SpanCoversPages`). External to `src/`, and modelled from how the code uses
them: the UEFI services, the 8259, 8042, 8254 and 16550, the terminal, the CPU's
segment loads, interrupt delivery and `iretq`, and QEMU with its guest as seen by
the harness.

## Runs

| Run | Shows | Bounds, and why they suffice |
|---|---|---|
| `heap` | the list and the live blocks tile the arena at every iteration; null means full; statistics exact; contract; calls return | five grains, three layouts: below, at and above a grain, one alignment coarser than the arena's own. Carves leave a front, a tail, both or neither; frees merge on either side, both or none. The theorems remove the bound |
| `memory` | start-up fails only for want of memory; no frame lost, doubled or stranded; the stack in memory is the stack pushed; `None` means exhausted; calls return | twelve pages of eight grains, a heap of two pages, ten maps: a hole, unsorted runs, misaligned and vanishing runs, overflowing descriptors, runs ending one page below the top, one frame short, nothing usable, empty. The vectors of the heap's self-test grow three and four times instead of nine and six |
| `runtime` | no reentry, EOI for the right line, whole lines, no stuck byte, a verdict | two ticks, two more to the deadline, two keys, an unbounded supply of spurious interrupts. The tick count is cut at the value it is compared with; a second interrupt frame is allowed, so that nesting would be seen |
| `elf` | image in place, no stray write, span covers pages without overflow | all pairs of twenty program headers, four entry points, truncated tables; two free pages of four |
| `startup` | tables, 8259s, 8254 and 8042 are each ready when first needed; no fault after `lidt` resets the machine; reports name the fault; `kernel_main` gets to its waits or stops with a verdict | spin budget of three, two keys, eight firmware configurations of the 8042 or none; the 48 gates that anything can reach; addresses with bits in every field of a descriptor; exceptions with and without a handler and of each class for escalation, with a good and a bad stack, raised at every instruction on the machine without an 8042 (with one, keys and answers come between the instructions instead) |
| `serial` | terminal and screen show the text; no write outside the framebuffer; prints end | eleven framebuffers, valid and not, and a UART left with `DLAB` set or clear, or none; six characters, up to two before the screen is painted, are enough to wrap, scroll twice and print on |
| `boot` | handoff survives and fits its pages, only free frames offered, entry contract (neither of `_start`'s two checks fails), decision reached | nine pages on four machines; the array holds five entries, and some final maps have more |
| `harness` | `run` passes only on its own guest's screen, keys wait for the text, image restored and never booted by `run`, no orphan, end reached | three commands in a row, loops of three turns, up to four captures on their way; the loops only count, so more turns add nothing |

Four runs end in a violation. Each is a disagreement between the code and what
it says of itself:

* `runtime_deadline`: the key count and the tick count are read in two critical
  sections. A key that is counted between them, followed by the tick that passes
  the deadline, is reported as "no input within 10s - IRQ1 is not delivering".
* `elf_entry`: the entry point is compared with the span of all segments, from the
  start of the lowest one's page, while `EntryOutOfRange` is documented as "does
  not fall inside any loaded segment". The trace has it in the padding in front of
  the only segment; a gap between two segments, or an empty one, would do as well.
* `ps2_translation`: a scancode that arrives after the drain is taken for the
  configuration byte, so the translation bit need not be "as firmware set it".
  The bits `init` forces are right all the same (`KeyboardReady`).
* `harness_exit`: a guest that exits before its text appears is reported as a
  monitor error; the "expected 33, got N" branch is not reached.

Some results deserve a remark. `PanicsOnlyAtTheTop` says when the unchecked
addition in `bump`'s loop condition overflows: only when a run that ends exactly
one page below the top of the address space is used up, which no PC's memory map
has. `NoOrphan` excepts the path on which polling the child itself fails: there
the code returns without killing it. `StartsWhenItCan` asks for two frames more
than the heap has: the frames of the self-test come from the front of the first
run and go to the free stack, which cannot serve a contiguous request, so a
machine whose only long run is exactly the heap's size does not boot.
`NoSilentReset` begins at `lidt`: between `lgdt` and `lidt` the firmware's gates
name selectors the kernel's GDT lacks, and any fault there resets the machine;
`FaultIsNamed` and the other runs find no cause for one. `KeyboardReady` depends
on the order of `init`: ICW1 makes the 8259 forget a latched IRQ1, so the drain
in `ps2::init` has to come after `pic::init`. `TerminalShowsText` holds also when
the firmware left `DLAB` set, although the first write of `serial::init`, meant
to mask the UART's interrupts, then goes to the divisor and the mask is never
written; the UART's line is masked at the 8259 (`DevicesReady`).

`PassIsEarned` says that keys wait for the text, as the code does now;
`docs/running.md` (lines 86 to 88) still has them sent as soon as the monitor's
socket exists. It is about `run` only: `test` takes exit code 35 for a rejection,
and a kernel that runs and fails has the same code. If the loader missed the
spoilt magic, the kernel would get no key, since `test` types none, exit with 35
at its deadline, and `test` would print "PASS: bootloader rejected the corrupted
image (exit 35) instead of jumping into it". The model lets that happen, so no
property claims that a pass of `test` is evidence of a rejection; that the loader
does reject is read off `elf.rs`.

Deadlock is checked in every run. A model that has come to an end (a verdict, a
returned call, an ended command) stutters explicitly.

## Fairness

* `Heap`, `Memory`: weak fairness of the step of a call in progress. A call runs
  inside `without_interrupts` on the only core, so nothing else can run.
* `Runtime`: the timer keeps ticking (weak) and its interrupt is taken when it is
  repeatedly deliverable (strong): the CPU takes a pending interrupt whenever IF
  is set. Handlers run on (weak). `kernel_main` runs on (strong, since a handler
  disables it): a tick is 10 ms, a handler microseconds. Nothing is assumed of
  the keyboard.
* `Startup`: `kernel_main` runs while no handler does, and exceptions are
  delivered and handled; the devices may never do anything.
* `Serial`: the CPU runs, and the UART sends a byte it was given: `write_byte`
  has no bound of its own. Without a UART the port reads as ready.
* `Boot`: the processor runs, and a firmware call that cannot succeed is refused.
  A read that has not reached the end is not assumed to fail.
* `Harness`: the main thread runs. The guest and the injector may stop for good.

## Proofs

Every invariant and action property that a passing run checks is also a theorem
of its specification. A theorem
holds for every value of the constants that satisfies the module's named
assumption. Each proof has the same shape: an inductive invariant that the
initial states satisfy, one lemma per action that keeps it, and a last step that
reads the property off it. Each inductive invariant was an invariant of a TLC run
first. Where a proof needs induction over data, it takes the least or the
greatest counterexample instead (`LeastElement`, `GreatestElement` of
`ArithProofs`).

| Module | Theorem | Property |
|---|---|---|
| `HeapProofs` | `HeapStaysWhole`, `EmptyHeapIsRestored`, `NullMeansFull`, `StatisticsAreExact` | `HeapWhole`, `RestoredWhenEmpty`, `NullOnlyWhenFull`, `StatsExact` |
| | `HeapMeetsContract` | `Contract`: the heap implements `Allocator` |
| | `AllocIsFirstFit`, `WalksEnd` | (no run) what `alloc` returns is the lowest range that would do; every turn of a walk moves up the arena or ends the call |
| `FramesProofs` | `FramesAreAccounted`, `StackIsInMemory`, `PanicIsAtTheTop` | `FramesAccounted`, `StackInMemory`, `PanicsOnlyAtTheTop` |
| | `NoneIsExhaustion`, `NoRoomIsMissed` | `NoneMeansExhausted`, `RoomIsFound` (action properties) |
| | `StartupNeedsLittle` | `StartsWhenItCan` |
| | `StartupHeapIsWhole`, `ArenaStaysTheHeaps` | (no run) the composition: the heap inside start-up keeps `HeapWhole`; the arena's frames stay the heap's whatever clients do |
| | `BumpEnds`, `StartupWalksEnd` | (no run) every turn of `bump`, and of a walk of start-up's heap, makes headway |
| `ElfProofs` | `SegmentsAreInPlace`, `LoaderStaysInside`, `SpanIsSound` | `ImageIsInPlace`, `WritesStayInside`, `SpanCoversPages` |
| `BootProofs` | `HandoffIsSafe`, `FramesOfferedAreFree`, `EntryIsSound` | `HandoffSurvives`, `OnlyFreeFramesOffered`, `EntryContract` |
| `StartupProofs` | `NoFaultIsSilent`, `FaultsAreNamed`, `InterruptsFindTheirHandlers` | `NoSilentReset`, `FaultIsNamed`, `IrqReachesItsHandler` |
| | `DevicesAreReady`, `WritesAreTaken`, `KeyboardIsReady` | `DevicesReady`, `NoWriteLost`, `KeyboardReady` |
| `RuntimeProofs` | `HandlersDoNotNest`, `EoisAreForTheirLine`, `LinesStayWhole`, `BytesAreAnnounced` | `NoReentry`, `EOIAcknowledgesOwn`, `LinesWhole`, `ByteAnnounced` |
| | `TerminalIsFaithful`, `ScreenIsFaithful`, `PaintersStayInside` | `TerminalShowsText`, `ScreenShowsText`, `WritesStayInside` |
| `HarnessProofs` | `PassesAreEarned`, `ImageIsRestored`, `NoOrphanIsLeft` | `PassIsEarned`, `ImageRestored`, `NoOrphan` |

**Heap.** For every grain, arena, set of layouts and client data that satisfy
`HeapAssumption` (the grain divides the arena's address and size; a layout's
alignment and the grain divide one another, as powers of two do). The inductive
invariant is `TypeOK /\ HeapWhole`. That live blocks are disjoint is
not inductive alone: the next carve is right only because the free list is
sorted and disjoint from them, and the next free only because `prev` and `cur`
are neighbours on that list. So `HeapWhole` asserts that some set `F` of grid
addresses is what the list visits in address order (`ListOf`), that its blocks
are whole grains separated by gaps (`FreeBlocksOK`), that live blocks are
aligned, in range and apart from all others (`LiveBlocksOK`), that every grain is
in one or the other (`NothingLost`), and what the loops know between iterations
(`CursorsOK`: the cursors are neighbours, everything before `cur` was too small
for `alloc`, everything up to `prev` lies below the block `dealloc` frees). One
lemma per action names the new `F`: unchanged for a walk, `F` less the carved
block plus its front and tail for a carve, `F` with the freed block merged for a
free. `NothingLost` and the gaps give `EmptyHeapIsRestored`: with nothing live,
a first block that did not reach the end would leave a grain uncovered.
`NullMeansFull` uses `NothingLost` again: a clear aligned range would lie inside
one free block, which `alloc` has passed over as too small. `StatisticsAreExact`
adds `StatInv`: during a statistics walk, `count` is the number of blocks passed
and `total` the number of their grains times the grain; at the end the grains
passed are those that no live block holds, by `NothingLost` once more.
`AllocIsFirstFit` strengthens `NullMeansFull`: `CursorsOK` says that no block
passed over would do, so what is carved from the first that does is the lowest
clear aligned range there is. `WalksEnd` is the safety half of `CallsReturn`: the
list is sorted, so a walk cannot come back to a block.

**Frames.** For every page size and width of an address, every map whose usable
runs do not overlap (`FramesAssumption`), and every sequence of calls; once for
`Frames!Spec` and once for `MemorySpec`, where start-up makes the calls.
`FramesInv` adds to the three properties where the cursor is: in a run that the
map iterator has already yielded (`CurrentRun`; `NotYet` before that), and
that `bump` is entered for a single frame only with an empty stack
(`LastResort`). Disjoint runs make the frame at the cursor one that nobody holds;
`LastResort` is what `NoneIsExhaustion` needs, since a stranded remainder of a run
is pushed on the stack rather than dropped.

**Memory bring-up.** `StartsWhenItCan` is about the whole of start-up, so its proof
has to follow the script of calls that `kernel_main` makes, for vectors that grow
through any capacities (`Growth`, `Text`). Besides `MemoryAssumption` (the grain is
even, as a `u64` is half of it, and divides the page) it needs `SelftestFits`: the
three adjacent blocks fit the arena, and so does a buffer together with twice its
successor. The code is far from that limit: the arena is 1 MiB and the largest
buffer 8 KiB. `StartupInv` is `FramesInv` and three more parts.

* `Control`: which call is running is the one the script is at, in either
  allocator.
* `HeapScript`: before `heap::init` the heap is empty memory; from then on it is
  whole (the invariant of `HeapProofs`, instantiated at the arena), and what is
  live is exactly what the script holds at that point (`HeldAt`, computed from
  `Growth` and `Text` by place, with no recursion; `ScriptAccounts` shows that each
  call turns one `HeldAt` into the next). The three adjacent blocks are the first
  three of the arena, by `AllocIsFirstFit`: that is how the third is known to fit.
  At a `stat` nothing is held, so the heap is one block again, and the sums agree.
* `FrameScript`, on a map with a run of the heap's frames and two more: that run is
  ahead, or is the current one with at most as many frames gone as the self-test
  has bumped (`Room`), and the free stack is what the script has freed. It gives
  each of the self-test's comparisons, and finally `RoomAhead` for the arena.

A null pointer contradicts `SelftestFits` (`NeverNull`): what the script holds at
that call leaves a clear aligned range, below or above the one buffer held, and
`alloc` returns null only when there is none. `ArenaStaysTheHeaps` then follows
the frames: the arena is taken from what lies ahead, so no client held it, and
only a frame that `alloc_frame` returned can be given to `dealloc_frame`.

**ELF loader.** For every file: any number of headers with any fields, any page
size and address width, any free pages (`LoaderAssumption`). `ElfInv` is the
properties together with: the span holds every claimed page and can be rounded up
without overflow (`Span`), the result is the span (`Reported`), and every segment
dealt with so far is in place (`InPlace`). The last clause is the hard one: a
later segment must not overwrite an earlier one. It does not, because its pages
are claimed afresh and `allocate_pages` refuses a page that is claimed.

**Boot.** For every machine, file size, stack and array size (`BootAssumption`:
pages are multiples of 16 and hold a descriptor; there is a stack). `BootInv` says
what has been claimed and what has not, step by step (`Claimed`, `InTurn`,
`Shapes`), what `BootInfo` holds (`InfoWritten`), that the array is a prefix of
the final map and that this map is exact (`MapCopied`), and how the kernel is
entered (`Entry`). `FramesOfferedAreFree` follows from the last two with
`Claimed`: a page of ours is of kind `loader` in an exact map, so no usable
entry covers it. `EntryIsSound` says that `_start` takes neither of its fatal
exits. For the null check that rests on the `uefi` crate, whose `allocate_pages`
returns a `NonNull`: `FreeRuns` leaves out page 0, which the firmware's pool
(`PoolRuns`) may use.

**Start-up.** For every address of handlers and TSS (`TrapsAssumption`: handlers
have different addresses, and the TSS is not at address 0), every rate
`pit::init` accepts, every spin budget and 8042. `StartupInv` records what each
step of each call leaves behind for good: `TablesOK`, `PicOK`, `PitOK`; that
interrupts are off until `interrupts::enable` (`MaskedUntilEnabled`); what may be
in delivery and in which handler (`TrapOK`, `ReportOK`); and the handshake with
the 8042 (`KeyboardOK`). Under it are lemmas on the formats: what the CPU decodes
from a gate or a TSS descriptor is what `set` and `Gdt` were given, for every
64-bit word. `DevicesAreReady` computes with the divisor: its two bytes are put
back together by the 8254, and it is the greatest that is not too slow.

**Runtime.** For every number of ticks, keys and frames the CPU might nest.
`RuntimeInv` says that `kernel_main` is in a critical section only with IF clear
and no handler running (`SectionIsMasked`), that there is at most one frame, with
IF clear and a saved flag that is clear too, so that the `without_interrupts`
inside a handler does not enable interrupts (`HandlerIsMasked`), and who is in
the middle of a line (`OneLine`).

**Serial and screen.** For every text, font, framebuffer and UART
(`ConsoleAssumption`: glyphs fit their cells, line ends have none, the watched
memory includes the framebuffer; `SerialAssumption`). `PrintInv` has four parts.
`PrintType`: at most one byte waits in the UART and at most a line end in
`write_str`. `UartOK`: what each write of `serial::init` has achieved, and that
nothing is printed before its last. `TermOK`: the terminal, *after* the byte in
the UART and those in `write_str` have been shown, is at the end of the text;
the property alone speaks of quiet moments only and is not inductive. `ScreenOK`:
once the console is set up, memory and cursor follow the text (`Follows`).
The screen needs geometry (no two pixels share a word since rows are a stride
apart and `stride >= width`; a dot of a cell is a visible pixel), what
`draw_glyph` and `scroll` do to one pixel (`DrawnPixel`, `ScrolledPixel`), and
what a character or a line more does to the dots the text calls for (`CharLit`,
`LineLit`); `CharFollows` and `NewlineFollows` put them together, and a wrap is
one after the other.

**Harness.** For any number of commands, loop turns, keys and captures
(`HarnessAssumption`). `HarnessInv` says which steps a command takes, which
kernel is staged while it boots and after (`StagedKernel`), that only `run` types
keys (`KeysAreTyped`), and whose text a capture can hold (`CaptureIsFresh`): the
file a command finds may be an earlier one's, but it is removed before a capture
is asked for, and keys come later still. A guest's exit code can be 33 only if it
was typed to, so a pass implies that the file was removed and written anew, and
the injector starts only from such a file (`PassesAreEarned`). Nothing is assumed of the guest here except that it reports
success only after a key.

What the proofs changed in the models: `CASE` expressions with overlapping guards
in `Traps` and `ElfLoader` became chains of `IF`, since the order of the tests
decides; `TrapsAssumption` says that the TSS is not at address 0, which
in the model is the base of a task register that was never loaded; `StatsExact`
counts grains; `Memory` names the layouts of the self-test and the assumption that
they fit; a byte of a pixel is a quotient by its weight instead of by a
power; and `Serial` names its specification `PrintSpec`, so that it can be proved
about beside `Runtime`.

Only model-checked:

* liveness (`CallsReturn`, `VerdictReached`, `StartupDecides`, `PrintEnds`,
  `BootDecides`, `HarnessEnds`): the prover does not do fairness. For the loops of
  the two allocators, the measure that liveness rests on is proved (`WalksEnd`,
  `BumpEnds`, `StartupWalksEnd`);
* the violations: a counterexample is all there is to show.

## Not modelled

* The text of messages and of the fault reports, `Display` formatting.
* A UART that answers but never sends: `write_byte` spins on it for good, and only
  the harness's timeout reports it (`HarnessEnds`).
* The interrupt stack itself: how deep handlers nest in the kernel's 16 pages.
* A failure inside `exit_boot_services`, which the `uefi` crate ends with a reset.
* A harness that is killed itself: the code has no handling for it; the next
  command stages a fresh kernel (`ImageRestored`).
* The font (generated data) and the build scripts.

## Plan

Done, in this order: `Heap` with `Allocator` and its proofs, `Frames`, `Runtime`,
`ElfLoader`, `Ps2`, `Console`, `Boot`, `Harness`; then `Tables`, `Traps` and
`Startup`, `Memory`, `Serial`, the `BootInfo` record in `Boot` and late captures
in `Harness`. The type invariants of `Heap`, `Frames`, `ElfLoader` and `Ps2` are
stated for the proofs.

The proofs followed: arithmetic, heap, harness, interrupts, bootloader, ELF loader,
start-up, frames, heap statistics, the terminal and the screen, and last memory
bring-up, where the proofs of the two allocators meet.

Left: liveness, which stays with TLC; and, in the same way as `Memory` joins the two
allocators, a composition of `Boot` with `Frames`, in which the map that
`OnlyFreeFramesOffered` describes is the one the frame allocator walks.
