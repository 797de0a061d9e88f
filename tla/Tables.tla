------------------------------- MODULE Tables -------------------------------
(***************************************************************************)
(* The hardware formats that kernel/src/gdt.rs and kernel/src/idt.rs        *)
(* write, and what the CPU reads back from them.  A word is the set of its  *)
(* bits that are one, so `|` is union and a mask is a filter.               *)
(***************************************************************************)
EXTENDS Naturals

Word == SUBSET (0 .. 63)

Low(w, n) == {b \in w : b < n}                          \* w & (2^n - 1)
Shl(w, n) == {b + n : b \in Low(w, 64 - n)}             \* w << n, 64 bits wide
Shr(w, n) == {b - n : b \in {c \in w : c >= n}}         \* w >> n

-----------------------------------------------------------------------------
(* gdt.rs *)

WRITABLE        == {41}
EXECUTABLE      == {43}
DESCRIPTOR_TYPE == {44}
PRESENT         == {47}
LONG_MODE       == {53}

KERNEL_CODE_SELECTOR == 1 * 8
KERNEL_DATA_SELECTOR == 2 * 8
TSS_SELECTOR         == 3 * 8
GDT_ENTRIES          == 5

\* The limit of the pointer that lgdt loads.
GdtLimit == GDT_ENTRIES * 8 - 1

\* size_of::<TaskStateSegment>() - 1, which is 103.
TSS_LIMIT == {0, 1, 2, 5, 6}

CodeSegment == DESCRIPTOR_TYPE \cup PRESENT \cup EXECUTABLE \cup LONG_MODE
DataSegment == DESCRIPTOR_TYPE \cup PRESENT \cup WRITABLE

\* The two halves of the system descriptor of a TSS at `base`.
TssLow(base) ==
    Low(TSS_LIMIT, 16)
        \cup Shl(Low(base, 24), 16)
        \cup Shl({0, 3}, 40)
        \cup PRESENT
        \cup Shl(Low(Shr(TSS_LIMIT, 16), 4), 48)
        \cup Shl(Low(Shr(base, 24), 8), 56)
TssHigh(base) == Shr(base, 32)

\* GDT, as gdt::init fills it.
Gdt(tss_base) ==
    [i \in 0 .. (GDT_ENTRIES - 1) |->
        CASE i = 0 -> {}
          [] i = 1 -> CodeSegment
          [] i = 2 -> DataSegment
          [] i = 3 -> TssLow(tss_base)
          [] i = 4 -> TssHigh(tss_base)]

-----------------------------------------------------------------------------
(* idt.rs *)

\* Present, ring 0, 64-bit interrupt gate: 0x8E.
INTERRUPT_GATE == {1, 2, 3, 7}

\* Entry::missing
Missing == [offset_low |-> {}, selector |-> 0, ist |-> 0, type_attributes |-> {},
            offset_middle |-> {}, offset_high |-> {}]

\* Entry::set; ist_index is an Option: no index, or one below 7 (asserted).
set(handler, ist_index) ==
    [offset_low      |-> Low(handler, 16),
     offset_middle   |-> Low(Shr(handler, 16), 16),
     offset_high     |-> Low(Shr(handler, 32), 32),
     selector        |-> KERNEL_CODE_SELECTOR,
     ist             |-> IF ist_index = {} THEN 0
                         ELSE ((CHOOSE i \in ist_index : i < 7) + 1) % 8,
     type_attributes |-> INTERRUPT_GATE]

-----------------------------------------------------------------------------
(* The CPU reads them (external) *)

\* The base address in a 16-byte system descriptor.
SegmentBase(low, high) ==
    Low(Shr(low, 16), 24) \cup Shl(Shr(low, 56), 24) \cup Shl(Low(high, 32), 32)

\* A present 64-bit code segment; a present data segment that can be a stack.
IsCode(d) == PRESENT \cup DESCRIPTOR_TYPE \cup EXECUTABLE \cup LONG_MODE \subseteq d
IsStack(d) == PRESENT \cup DESCRIPTOR_TYPE \cup WRITABLE \subseteq d /\ 43 \notin d

\* A present, available (not busy) 64-bit TSS that is long enough for its
\* stack tables; ltr makes it busy.
IsAvailableTss(d) ==
    /\ 47 \in d /\ 44 \notin d
    /\ Low(Shr(d, 40), 4) = {0, 3}
    /\ TSS_LIMIT \subseteq Low(d, 16)
Busy(d) == d \cup {41}

\* A present 64-bit interrupt gate, and the handler it leads to.
IsGate(e) == 7 \in e.type_attributes /\ Low(e.type_attributes, 4) = {1, 2, 3}
GateOffset(e) ==
    e.offset_low \cup Shl(e.offset_middle, 16) \cup Shl(e.offset_high, 32)
=============================================================================
