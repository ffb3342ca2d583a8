-------------------------------- MODULE Words -------------------------------
(***************************************************************************)
(* The 32-bit values of src/pci_glue.h and src/pcie_designware.h.  A word  *)
(* is the set of the positions of its one bits: or is union, and-not is    *)
(* set difference, and a shift moves every position, dropping those that   *)
(* leave the word.                                                         *)
(***************************************************************************)
EXTENDS Integers, FiniteSetsExt

Bits == 0 .. 31
AnyWord == SUBSET Bits

GENMASK(h, l) == l .. h

\* The positions of the one bits of a small number.
BitsOf(n) == {b \in 0 .. 15 : (n \div 2^b) % 2 = 1}

ShiftLeft(w, k) == {b \in Bits : b - k \in w}

\* Shift to the lowest bit of the mask, cut to the mask.
FIELD_PREP(mask, n) == mask \cap ShiftLeft(BitsOf(n), Min(mask))
=============================================================================
