---------------------------- MODULE MCElfLoader ----------------------------
(* Files of up to two program headers over a 16-byte address space whose    *)
(* pages 4..7 and 8..11 are free.                                           *)
EXTENDS ElfLoader

Segment(v, m, f, o) == [load |-> TRUE, offset |-> o, vaddr |-> v, filesz |-> f, memsz |-> m]
Note == [load |-> FALSE, offset |-> 0, vaddr |-> 0, filesz |-> 0, memsz |-> 0]

MCSegments ==
    { Note,
      Segment(4, 3, 1, 2), Segment(4, 4, 4, 0), Segment(4, 8, 5, 3), Segment(8, 3, 3, 5),
      Segment(5, 1, 1, 4), Segment(6, 4, 3, 5), Segment(7, 1, 0, 0), Segment(9, 3, 2, 2),
      Segment(8, 0, 0, 2), Segment(5, 0, 0, 2), Segment(12, 0, 0, 2),  \* empty
      Segment(15, 0, 0, 2), Segment(13, 2, 1, 2), Segment(10, 5, 2, 2), Segment(2, 4, 2, 2),
      Segment(4, 2, 3, 0),                                             \* filesz > memsz
      Segment(8, 4, 4, 6), Segment(8, 4, 4, 15),                       \* past the file
      Segment(12, 4, 1, 0), Segment(4, 15, 2, 3) }                     \* past 2^64

File(w, e, o, n, p) == [wrong |-> w, entry |-> e, phoff |-> o, len |-> n, phdrs |-> p]

MCImages ==
    {File({}, e, 1, 8, p) : e \in {4, 6, 9, 12}, p \in {<<s, t>> : s \in MCSegments, t \in MCSegments}}
    \cup {File({}, 4, o, n, <<Segment(4, 3, 1, 2)>>) : o \in {0, 7, 14}, n \in {0, 8, 15}}
    \cup {File(w, 4, 0, 8, <<>>) : w \in {{}, {"BadMagic"}, {"NotExecutable", "BadProgramHeaders"}}}
    \cup {File({"TooSmall"}, 4, 0, 0, <<>>)}
=============================================================================
