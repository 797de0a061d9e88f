----------------------------- MODULE ElfLoader -----------------------------
(***************************************************************************)
(* The bootloader's ELF loader (bootloader/src/elf.rs): load_kernel        *)
(* validates the header, then checks and loads the program headers one by  *)
(* one, then checks the entry point.  Addresses, offsets and sizes are     *)
(* u64s: LIMIT stands for 2^64.  The firmware's allocate_pages is          *)
(* external: it grants exactly the pages asked for if all of them are free.*)
(***************************************************************************)
EXTENDS Arith, Sequences

CONSTANTS
    PAGE, LIMIT,        \* PAGE_SIZE and 2^64
    PHDR_SIZE,          \* bytes in a program header
    FreePages,          \* pages the firmware has not given to anyone
    Images              \* files: [wrong, entry, phoff, len, phdrs], where
                        \* phdrs is a sequence of [load, offset, vaddr, filesz, memsz]
                        \* and wrong the set of parse_header's checks that fail

Address == 0 .. (LIMIT - 1)
FOREIGN == LIMIT        \* what a byte nobody has written holds

ProgramHeader == [load : BOOLEAN, offset : Address, vaddr : Address, filesz : Address, memsz : Address]

\* Physical memory ends well below the top of the address space.
ASSUME LoaderAssumption ==
    /\ PAGE \in Nat \ {0} /\ LIMIT \in Nat \ {0} /\ LIMIT % PAGE = 0
    /\ PHDR_SIZE \in Nat
    /\ \A p \in FreePages : p \in Address /\ p % PAGE = 0 /\ p + PAGE < LIMIT
    /\ \A im \in Images : /\ im.entry \in Address /\ im.phoff \in Address /\ im.len \in Address
                          /\ im.phdrs \in Seq(ProgramHeader)

VARIABLES
    image,              \* the file being loaded
    pc,                 \* "parse", "headers", "done", "error"
    index,              \* program headers dealt with
    lowest, highest,    \* the span of the segments seen so far
    loaded_any,
    claimed,            \* pages allocate_pages has granted
    mem,                \* physical memory
    error,              \* the ElfError returned
    kernel              \* the LoadedKernel returned: [entry, base, size]

vars == <<image, pc, index, lowest, highest, loaded_any, claimed, mem, error, kernel>>

align_down(value) == PrevMultiple(value, PAGE)
align_up_Omitted(value) == value
align_up(value)   == PrevMultiple(value + (PAGE - 1), PAGE)

Phdr(i) == image.phdrs[i + 1]
FileByte(i) == i + 1    \* any byte, as long as it tells where it comes from

Init ==
    /\ image \in Images
    /\ pc = "parse" /\ index = 0
    /\ lowest = LIMIT - 1 /\ highest = 0 /\ loaded_any = FALSE
    /\ claimed = {} /\ mem = [a \in Address |-> FOREIGN]
    /\ error = "none" /\ kernel = [entry |-> 0, base |-> 0, size |-> 0]

Fail(e) ==
    /\ pc' = "error" /\ error' = e
    /\ UNCHANGED <<image, index, lowest, highest, loaded_any, claimed, mem, kernel>>

\* parse_header's checks, in their order; the first that fails decides.
HeaderChecks == <<"TooSmall", "BadMagic", "Not64Bit", "NotLittleEndian",
                  "NotExecutable", "WrongArchitecture", "BadProgramHeaders">>

ParseHeader ==
    /\ pc = "parse"
    /\ \/ \E i \in 1 .. Len(HeaderChecks) :
             /\ HeaderChecks[i] \in image.wrong
             /\ \A j \in 1 .. (i - 1) : HeaderChecks[j] \notin image.wrong
             /\ Fail(HeaderChecks[i])
       \/ /\ image.wrong = {} /\ pc' = "headers"
          /\ UNCHANGED <<image, index, lowest, highest, loaded_any, claimed, mem, error, kernel>>

-----------------------------------------------------------------------------
\* The whole program header lies in the file; no sum wraps.
HeaderInFile(i) ==
    /\ i * PHDR_SIZE < LIMIT
    /\ image.phoff + i * PHDR_SIZE + PHDR_SIZE < LIMIT
    /\ image.phoff + i * PHDR_SIZE + PHDR_SIZE <= image.len

\* The checks of load_kernel on a PT_LOAD header, in their order.
SegmentError(s) ==
    IF s.filesz > s.memsz THEN "SegmentTooLarge"
    ELSE IF \/ s.offset + s.filesz >= LIMIT \/ s.offset + s.filesz > image.len
            \/ s.vaddr + s.memsz >= LIMIT
         THEN "SegmentOutOfBounds" ELSE "none"

\* load_segment: how many bytes its pages must hold, and which pages.
Total_NoPadding(s) == s.memsz
Total(s) == (s.vaddr - align_down(s.vaddr)) + s.memsz
PagesOf(s) ==
    {p \in Address : /\ p % PAGE = 0
                     /\ align_down(s.vaddr) <= p
                     /\ p < align_down(s.vaddr) + Total(s)}

\* Zero the whole pages, then copy the file's bytes.
Placed(s) ==
    [a \in Address |->
        IF s.vaddr <= a /\ a < s.vaddr + s.filesz THEN FileByte(s.offset + (a - s.vaddr))
        ELSE IF align_down(a) \in PagesOf(s) THEN 0
        ELSE mem[a]]

BadHeader ==
    /\ pc = "headers" /\ index < Len(image.phdrs)
    /\ ~HeaderInFile(index)
    /\ Fail("BadProgramHeaders")

SkipHeader ==
    /\ pc = "headers" /\ index < Len(image.phdrs)
    /\ HeaderInFile(index) /\ ~Phdr(index).load
    /\ index' = index + 1
    /\ UNCHANGED <<image, pc, lowest, highest, loaded_any, claimed, mem, error, kernel>>

BadSegment ==
    /\ pc = "headers" /\ index < Len(image.phdrs)
    /\ HeaderInFile(index) /\ Phdr(index).load
    /\ SegmentError(Phdr(index)) # "none"
    /\ Fail(SegmentError(Phdr(index)))

\* allocate_pages refuses pages that are not free, or no longer.
Granted_Shared(s) == PagesOf(s) \subseteq FreePages
Granted(s) == PagesOf(s) \subseteq FreePages \ claimed

RefusedSegment ==
    /\ pc = "headers" /\ index < Len(image.phdrs)
    /\ HeaderInFile(index) /\ Phdr(index).load
    /\ SegmentError(Phdr(index)) = "none"
    /\ Total(Phdr(index)) # 0 /\ ~Granted(Phdr(index))
    /\ Fail("AllocationFailed")

\* A segment with nothing to hold is not allocated, yet widens the span.
LoadSegment ==
    /\ pc = "headers" /\ index < Len(image.phdrs)
    /\ HeaderInFile(index) /\ Phdr(index).load
    /\ LET s == Phdr(index)
       IN  /\ SegmentError(s) = "none"
           /\ \/ Total(s) = 0 /\ UNCHANGED <<claimed, mem>>
              \/ /\ Total(s) # 0 /\ Granted(s)
                 /\ claimed' = claimed \cup PagesOf(s)
                 /\ mem' = Placed(s)
           /\ lowest' = IF align_down(s.vaddr) < lowest THEN align_down(s.vaddr) ELSE lowest
           /\ highest' = AtLeast(highest, s.vaddr + s.memsz)
    /\ loaded_any' = TRUE /\ index' = index + 1
    /\ UNCHANGED <<image, pc, error, kernel>>

\* After the loop: something was loaded, the entry point lies in the span,
\* and the span is reported in whole pages.
EntryInSpan == lowest <= image.entry /\ image.entry < highest

Finish ==
    /\ pc = "headers" /\ index = Len(image.phdrs)
    /\ \/ ~loaded_any /\ Fail("NoLoadableSegments")
       \/ loaded_any /\ ~EntryInSpan /\ Fail("EntryOutOfRange")
       \/ /\ loaded_any /\ EntryInSpan
          /\ pc' = "done"
          /\ kernel' = [entry |-> image.entry, base |-> lowest,
                        size |-> align_up(highest) - lowest]
          /\ UNCHANGED <<image, index, lowest, highest, loaded_any, claimed, mem, error>>

Returned == pc \in {"done", "error"} /\ UNCHANGED vars

Next == \/ ParseHeader \/ BadHeader \/ SkipHeader \/ BadSegment \/ RefusedSegment
        \/ LoadSegment \/ Finish \/ Returned

Spec == Init /\ [][Next]_vars

-----------------------------------------------------------------------------
(* Properties *)

Segments == {image.phdrs[i] : i \in {j \in 1 .. Len(image.phdrs) : image.phdrs[j].load}}

\* The type invariant: the values load_kernel computes are u64s, and it holds
\* only pages the firmware had free.
TypeOK ==
    /\ image \in Images /\ index \in 0 .. Len(image.phdrs)
    /\ pc \in {"parse", "headers", "done", "error"}
    /\ lowest \in Address /\ highest \in Address
    /\ claimed \subseteq FreePages
    /\ mem \in [Address -> 0 .. LIMIT]
    /\ kernel \in [entry : Address, base : Address, size : Address]

\* The kernel that is started is the one in the file: every PT_LOAD segment
\* holds its file bytes followed by zeroes, no segment having damaged another
\* with its zeroed pages (load_segment).
ImageIsInPlace ==
    pc = "done" =>
        \A s \in Segments : \A i \in 0 .. (s.memsz - 1) :
            mem[s.vaddr + i] = IF i < s.filesz THEN FileByte(s.offset + i) ELSE 0

\* Even while loading a file it will reject, the loader writes to no page
\* the firmware did not grant it.
WritesStayInside == \A a \in Address : align_down(a) \notin claimed => mem[a] = FOREIGN

\* The span in BootInfo covers every page the loader claimed, and no file makes
\* the rounding of its end overflow, which would panic (the precondition that
\* the comment on align_up states): a segment near the top of the address
\* space is refused, or is empty and aligned.
SpanCoversPages ==
    /\ highest + (PAGE - 1) < LIMIT
    /\ pc = "done" =>
          /\ kernel.base % PAGE = 0 /\ kernel.size % PAGE = 0
          /\ \A p \in claimed : kernel.base <= p /\ p + PAGE <= kernel.base + kernel.size

\* "The entry point does not fall inside any loaded segment" is an error: a
\* load that succeeds has its entry point inside a loaded segment.
EntryIsLoaded ==
    pc = "done" => \E s \in Segments : s.vaddr <= kernel.entry /\ kernel.entry < s.vaddr + s.memsz
=============================================================================
