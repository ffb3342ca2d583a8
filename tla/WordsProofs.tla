----------------------------- MODULE WordsProofs ----------------------------
(***************************************************************************)
(* What the bit operations of src/pci_glue.h yield, for the proofs about   *)
(* the registers.                                                          *)
(***************************************************************************)
EXTENDS Words, TLAPS

\* The values of the sixteen bits BitsOf looks at.
Weight == <<1, 2, 4, 8, 16, 32, 64, 128, 256, 512, 1024, 2048, 4096, 8192, 16384, 32768>>

LEMMA Weights == \A b \in 0 .. 15 : 2^b = Weight[b + 1]
<1> SUFFICES ASSUME NEW b \in 0 .. 15 PROVE 2^b = Weight[b + 1]
  OBVIOUS
<1>0. b = 0 => 2^b = Weight[b + 1]
  BY DEF Weight
<1>1. b = 1 => 2^b = Weight[b + 1]
  BY DEF Weight
<1>2. b = 2 => 2^b = Weight[b + 1]
  BY DEF Weight
<1>3. b = 3 => 2^b = Weight[b + 1]
  BY DEF Weight
<1>4. b = 4 => 2^b = Weight[b + 1]
  BY DEF Weight
<1>5. b = 5 => 2^b = Weight[b + 1]
  BY DEF Weight
<1>6. b = 6 => 2^b = Weight[b + 1]
  BY DEF Weight
<1>7. b = 7 => 2^b = Weight[b + 1]
  BY DEF Weight
<1>8. b = 8 => 2^b = Weight[b + 1]
  BY DEF Weight
<1>9. b = 9 => 2^b = Weight[b + 1]
  BY DEF Weight
<1>10. b = 10 => 2^b = Weight[b + 1]
  BY DEF Weight
<1>11. b = 11 => 2^b = Weight[b + 1]
  BY DEF Weight
<1>12. b = 12 => 2^b = Weight[b + 1]
  BY DEF Weight
<1>13. b = 13 => 2^b = Weight[b + 1]
  BY DEF Weight
<1>14. b = 14 => 2^b = Weight[b + 1]
  BY DEF Weight
<1>15. b = 15 => 2^b = Weight[b + 1]
  BY DEF Weight
<1>16. QED
  BY <1>0, <1>1, <1>2, <1>3, <1>4, <1>5, <1>6, <1>7, <1>8, <1>9, <1>10, <1>11, <1>12,
     <1>13, <1>14, <1>15

LEMMA BitTest ==
  ASSUME NEW n \in Nat, NEW b \in 0 .. 15
  PROVE  b \in BitsOf(n) <=> (n \div Weight[b + 1]) % 2 = 1
<1>1. b \in BitsOf(n) <=> (n \div 2^b) % 2 = 1
  BY DEF BitsOf
<1>2. 2^b = Weight[b + 1]
  BY Weights
<1>3. QED
  BY <1>1, <1>2

LEMMA BitsOfRange == \A n : BitsOf(n) \subseteq 0 .. 15
BY DEF BitsOf

\* A number below 2^k has its one bits below k.
LEMMA BitsBelow ==
  ASSUME NEW k \in 0 .. 15, NEW n \in 0 .. Weight[k + 1] - 1
  PROVE  BitsOf(n) \subseteq 0 .. k - 1
<1> SUFFICES ASSUME NEW b \in k .. 15 PROVE b \notin BitsOf(n)
  BY BitsOfRange
<1>1. Weight[k + 1] <= Weight[b + 1] /\ Weight[b + 1] \in Nat \ {0} /\ Weight[k + 1] \in Nat
  BY DEF Weight
<1>2. n \in Nat /\ n < Weight[b + 1]
  BY <1>1
<1>3. n \div Weight[b + 1] = 0
  BY <1>1, <1>2
<1>4. QED
  BY <1>2, <1>3, BitTest

-----------------------------------------------------------------------------
(***************************************************************************)
(* The numbers the set-up writes.                                          *)
(***************************************************************************)
LEMMA WrittenNumbers ==
  /\ BitsOf(0) = {} /\ BitsOf(1) = {0} /\ BitsOf(2) = {1}
  /\ BitsOf(255) = 0 .. 7
  /\ BitsOf(263) = {0, 1, 2, 8}
  /\ BitsOf(1540) = {2, 9, 10}
<1>1. BitsOf(0) = {}
  <2>1. \A b \in 0 .. 15 : (0 \div Weight[b + 1]) % 2 = 1 <=> b \in {}
    BY DEF Weight
  <2>2. QED
    BY <2>1, BitTest, BitsOfRange
<1>2. BitsOf(1) = {0}
  <2>1. \A b \in 0 .. 15 : (1 \div Weight[b + 1]) % 2 = 1 <=> b \in {0}
    BY DEF Weight
  <2>2. QED
    BY <2>1, BitTest, BitsOfRange
<1>3. BitsOf(2) = {1}
  <2>1. \A b \in 0 .. 15 : (2 \div Weight[b + 1]) % 2 = 1 <=> b \in {1}
    BY DEF Weight
  <2>2. QED
    BY <2>1, BitTest, BitsOfRange
<1>4. BitsOf(255) = 0 .. 7
  <2>1. \A b \in 0 .. 15 : (255 \div Weight[b + 1]) % 2 = 1 <=> b \in 0 .. 7
    BY DEF Weight
  <2>2. QED
    BY <2>1, BitTest, BitsOfRange
<1>5. BitsOf(263) = {0, 1, 2, 8}
  <2>1. \A b \in 0 .. 15 : (263 \div Weight[b + 1]) % 2 = 1 <=> b \in {0, 1, 2, 8}
    BY DEF Weight
  <2>2. QED
    BY <2>1, BitTest, BitsOfRange
<1>6. BitsOf(1540) = {2, 9, 10}
  <2>1. \A b \in 0 .. 15 : (1540 \div Weight[b + 1]) % 2 = 1 <=> b \in {2, 9, 10}
    BY DEF Weight
  <2>2. QED
    BY <2>1, BitTest, BitsOfRange
<1>7. QED
  BY <1>1, <1>2, <1>3, <1>4, <1>5, <1>6

-----------------------------------------------------------------------------
(***************************************************************************)
(* Shifts and fields.                                                      *)
(***************************************************************************)
LEMMA MinOfMask ==
  ASSUME NEW l \in Bits, NEW h \in l .. 31
  PROVE  Min(GENMASK(h, l)) = l
BY DEF Min, GENMASK, Bits

LEMMA ShiftIsWord == \A w, k : ShiftLeft(w, k) \in AnyWord
BY DEF ShiftLeft, AnyWord

\* FIELD_PREP stays inside its mask, and is the shifted number itself when that
\* is no wider than the mask.
LEMMA FieldPrepInMask ==
  ASSUME NEW l \in Bits, NEW h \in l .. 31, NEW n
  PROVE  FIELD_PREP(GENMASK(h, l), n) \subseteq GENMASK(h, l)
BY DEF FIELD_PREP

LEMMA FieldPrepFits ==
  ASSUME NEW l \in Bits, NEW h \in l .. 31, NEW n,
         BitsOf(n) \subseteq 0 .. h - l
  PROVE  /\ FIELD_PREP(GENMASK(h, l), n) = ShiftLeft(BitsOf(n), l)
         /\ ShiftLeft(BitsOf(n), l) \subseteq GENMASK(h, l)
<1>1. ShiftLeft(BitsOf(n), l) \subseteq GENMASK(h, l)
  BY DEF ShiftLeft, GENMASK, Bits
<1>2. QED
  BY <1>1, MinOfMask DEF FIELD_PREP
=============================================================================
