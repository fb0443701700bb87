---------------------------- MODULE MC_SoLoader ----------------------------
(* SoLoader on every pair of a small family of libraries: all ways to      *)
(* define and export two symbols, four segment layouts, every set of       *)
(* packed words in an image of four words, one unknown relocation.         *)
EXTENDS SoLoader

Segment(vaddr, memsz, x) == [vaddr |-> vaddr, memsz |-> memsz, x |-> x]

Plain == <<Segment(0, 2, TRUE), Segment(2, 2, FALSE)>>

Layouts ==
    {Plain,
     <<Segment(0, 1, FALSE), Segment(2, 3, TRUE), Segment(6, 1, FALSE)>>,
     <<Segment(0, 1, TRUE), Segment(4, 1, TRUE)>>,
     <<Segment(1, 2, TRUE), Segment(6, 1, FALSE)>>}

Rela(type) ==
    [vtable |-> [type |-> "ABS64", sym |-> "a"],
     call |-> [type |-> "JUMP_SLOT", sym |-> "a"],
     data |-> [type |-> "GLOB_DAT", sym |-> "s"],
     object |-> [type |-> type, sym |-> "s"],
     own |-> [type |-> "RELATIVE", sym |-> "a"]]

(* The linker's packing: an address, then bitmaps while they have a bit.   *)
RECURSIVE Pack(_), PackAfter(_, _)
Pack(W) ==
    IF W = {} THEN <<>>
    ELSE <<[addr |-> Min(W)]>> \o PackAfter(W \ {Min(W)}, Min(W) + 1)
PackAfter(W, from) ==
    LET near == {w \in W : w < from + BITS}
    IN  IF near = {} THEN Pack(W)
        ELSE <<[bits |-> {w - from + 1 : w \in near}]>>
               \o PackAfter(W \ near, from + BITS)

File(layout, type, defined, exported, packed) ==
    [segments |-> layout, rela |-> Rela(type), defined |-> defined,
     exported |-> exported, relr |-> Pack(packed), packed |-> packed]

MC_Files ==
    UNION {{File(Plain, "ABS64", d, e, {}) : e \in SUBSET d}
             : d \in SUBSET {"a", "s"}}
      \cup {File(l, "ABS64", {"a"}, {"a"}, {}) : l \in Layouts}
      \cup {File(Plain, "ABS64", {"a"}, {"a"}, w) : w \in SUBSET (0..3)}
      \cup {File(Plain, "unknown", {"a"}, {"a"}, {})}

MC_Heaps ==
    {[addr |-> 0, size |-> 40], [addr |-> 2, size |-> 15],
     [addr |-> 0, size |-> 32], [addr |-> 4, size |-> 20]}
=============================================================================
