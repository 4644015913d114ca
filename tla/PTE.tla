-------------------------------- MODULE PTE --------------------------------
(***************************************************************************)
(* Page table entries: the 32-bit words of src/src/mm.c (pte_set_swap,     *)
(* pte_set_fpn) and the macros of src/include/mm.h that set and extract    *)
(* their fields.  A word is the set of its 1 bits, so that a mask is an    *)
(* interval of bit positions.                                              *)
(***************************************************************************)
EXTENDS Naturals, FiniteSetsExt

\* Wide enough for every field: no field goes beyond bit 25.
Word == 0..25

PRESENT == 31             \* PAGING_PTE_PRESENT_MASK
SWAPPED == 30
FPN_MASK == 0..12
SWPTYP_MASK == 0..4
SWPOFF_MASK == 5..25
FPN_LOBIT == 0
SWPTYP_LOBIT == 0
SWPOFF_LOBIT == 5

BitsOf(x) == {i \in Word : (x \div 2^i) % 2 = 1}
ValueOf(bits) == MapThenSumSet(LAMBDA i : 2^i, bits)

SETVAL(v, value, mask, offst) == (v \ mask) \cup ({i + offst : i \in BitsOf(value)} \cap mask)

\* The bits of a field, moved down to where those of a number are.
Field(v, mask, offst) == {i - offst : i \in {j \in v \cap mask : j >= offst}}
GETVAL(v, mask, offst) == ValueOf(Field(v, mask, offst))

\* The addresses of a page of 256 bytes in a RAM of 2^10 bytes: the masks
\* that the code also applies to page table entries.
PAGING_FPN(v) == GETVAL(v, 8..9, 8)
PAGING_SWP(v) == GETVAL(v, 8..13, 5)

pte_set_fpn(pte, fpn) ==
    SETVAL((pte \cup {PRESENT}) \ {SWAPPED}, fpn, FPN_MASK, FPN_LOBIT)

pte_set_swap(pte, swptyp, swpoff) ==
    SETVAL(SETVAL(pte \cup {PRESENT, SWAPPED}, swptyp, SWPTYP_MASK, SWPTYP_LOBIT),
           swpoff, SWPOFF_MASK, SWPOFF_LOBIT)

=============================================================================
