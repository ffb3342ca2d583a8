------------------------------ MODULE DbiAccess -----------------------------
(***************************************************************************)
(* The DBI accessors of src/pcie_designware.c: a register of a controller  *)
(* is named by the type of the access, for the translation unit also by a  *)
(* direction and an index, and an offset; the accessors turn the name into *)
(* a bus address and a read or write of one, two or four bytes into        *)
(* accesses of the bus, which carries words.  A write of part of a word is *)
(* two of them; nothing else of the program runs in between.               *)
(*                                                                         *)
(* Offsets and addresses are the sets of their one bits (see Words); data  *)
(* are four bytes, low byte first, so that a shift by 8 * n moves bytes.   *)
(***************************************************************************)
EXTENDS Words, FiniteSets, Sequences, TLC

CONSTANTS
  Requests,         \* the accesses callers make: [space, reg, size]
  Writes,           \* the writes among them: [request, word]
  Byte,             \* the values of a byte
  MaxWords          \* bound: the words behind the bus that get a value

Word == [0 .. 3 -> Byte]
Zero == [n \in 0 .. 3 |-> 0]
Ones == [n \in 0 .. 3 |-> 255]        \* -1

DW_PCIE_CDM    == "cdm"
DW_PCIE_SHADOW == "shadow"
DW_PCIE_ELBI   == "elbi"
DW_PCIE_ATU    == "atu"
DW_PCIE_DMA    == "dma"
DW_PCIE_MSI_TABLE == "msi_table"
DW_PCIE_MSI_PBA   == "msi_pba"
AccessTypes ==
  {DW_PCIE_CDM, DW_PCIE_SHADOW, DW_PCIE_ELBI, DW_PCIE_ATU, DW_PCIE_DMA,
   DW_PCIE_MSI_TABLE, DW_PCIE_MSI_PBA}

DW_PCIE_REGION_UNKNOWN  == "unknown"
DW_PCIE_REGION_INBOUND  == "inbound"
DW_PCIE_REGION_OUTBOUND == "outbound"

\* A space of registers: an access type, with a region for the ATU.
Space(type) == [type |-> type, region |-> DW_PCIE_REGION_UNKNOWN, index |-> 0]
AtuSpace(region, index) == [type |-> DW_PCIE_ATU, region |-> region, index |-> index]

\* Callers name registers at the alignment of their size.
ASSUME DbiAccessAssumption ==
  /\ {0, 255} \subseteq Byte
  /\ MaxWords \in Nat
  /\ \A m \in Writes : m.request \in Requests /\ m.word \in Word
  /\ \A q \in Requests :
       /\ q.space.type \in AccessTypes
       /\ q.reg \in Nat
       /\ q.size \in {1, 2, 4}
       /\ q.reg % q.size = 0

-----------------------------------------------------------------------------
(***************************************************************************)
(* Addresses.                                                              *)
(***************************************************************************)
Supported == {DW_PCIE_CDM, DW_PCIE_SHADOW, DW_PCIE_ATU, DW_PCIE_DMA}

route1(type) ==
  CASE type = DW_PCIE_CDM    -> {}
    [] type = DW_PCIE_SHADOW -> {0}
    [] type = DW_PCIE_ATU    -> {1}
    [] type = DW_PCIE_DMA    -> {0, 1}

\* An unsupported type is reported and gives 0xffffffff.
format_dbi_addr(type, reg) ==
  IF type \in Supported THEN ShiftLeft(route1(type), 17) \cup reg ELSE Bits

\* The offset dw_pcie_read_atu and dw_pcie_write_atu put together, for the
\* regions they know.
Directions == {DW_PCIE_REGION_INBOUND, DW_PCIE_REGION_OUTBOUND}

dir(region) == IF region = DW_PCIE_REGION_INBOUND THEN {0} ELSE {}

AtuOffset(space, reg) ==
  ShiftLeft(BitsOf(space.index), 9) \cup ShiftLeft(dir(space.region), 8) \cup reg

\* BitsOf for all the bits an offset may have.
OffsetBits(n) == BitsOf(n) \cup ShiftLeft(BitsOf(n \div 2^16), 16)

Offset(space, reg) ==
  IF space.type = DW_PCIE_ATU THEN AtuOffset(space, OffsetBits(reg)) ELSE OffsetBits(reg)

\* The low bits of a register that choose a byte, a half or nothing.
Low(w, bits) == (IF 0 \in w \cap bits THEN 1 ELSE 0) + (IF 1 \in w \cap bits THEN 2 ELSE 0)

WordOffset(w) == w \ {0, 1}          \* & 0xfffffffc

-----------------------------------------------------------------------------
VARIABLES
  bus,              \* the words behind the bus that were ever written
  merging,          \* a write of part of a word between its read and its write-back
  last              \* the last access: [op, request, word], with the word read or written

vars == <<bus, merging, last>>

Init ==
  /\ bus = <<>>
  /\ merging = {}
  /\ last \in [op : {"none"}, request : Requests, word : {Zero}]

(***************************************************************************)
(* The bus.  What it returns for an address inside a word is not known:    *)
(* the word around it, the bytes from there on, or anything else.          *)
(***************************************************************************)
WordAligned(a) == a \cap {0, 1} = {}

Contents(a) == IF a \in DOMAIN bus THEN bus[a] ELSE Zero

ReadResults(a) == IF WordAligned(a) THEN {Contents(a)} ELSE Word

PutWord(a, w) == bus' = (a :> w) @@ bus

Room(a) == Cardinality({a} \cup DOMAIN bus) <= MaxWords

\* dw_pcie_read_atu and dw_pcie_write_atu do nothing for another region.
Refused(q) == q.space.type = DW_PCIE_ATU /\ q.space.region \notin Directions

-----------------------------------------------------------------------------
(***************************************************************************)
(* Reading.                                                                *)
(***************************************************************************)
BytesRight(w, k) == [n \in 0 .. 3 |-> IF n + k <= 3 THEN w[n + k] ELSE 0]
BytesLeft(w, k)  == [n \in 0 .. 3 |-> IF n >= k THEN w[n - k] ELSE 0]
LowBytes(w, k)   == [n \in 0 .. 3 |-> IF n < k THEN w[n] ELSE 0]

\* The parameter reg of readb_dbi is a uint8_t, that of readw_dbi a uint16_t.
ReadOffset(offset, size) ==
  CASE size = 1 -> {b \in offset : b < 8}
    [] size = 2 -> {b \in offset : b < 16}
    [] size = 4 -> offset

Shift(offset, size) ==
  CASE size = 1 -> Low(offset, {0, 1})
    [] size = 2 -> Low(offset, {1})
    [] size = 4 -> 0

dw_pcie_read_dbi(q) ==
  LET reg == ReadOffset(Offset(q.space, q.reg), q.size)
  IN  /\ merging = {} /\ ~Refused(q)
      /\ \E w \in ReadResults(format_dbi_addr(q.space.type, reg)) :
           last' = [op |-> "read", request |-> q,
                    word |-> LowBytes(BytesRight(w, Shift(reg, q.size)), q.size)]
      /\ UNCHANGED <<bus, merging>>

dw_pcie_read_atuRefused(q) ==
  /\ merging = {} /\ Refused(q)
  /\ last' = [op |-> "read", request |-> q, word |-> Ones]
  /\ UNCHANGED <<bus, merging>>

(***************************************************************************)
(* Writing: part of a word is merged into the word read first.             *)
(***************************************************************************)
MergedHighHalf(old, w, shift, size) ==
  [n \in 0 .. 3 |-> IF n \in shift .. 3 THEN BytesLeft(w, shift)[n] ELSE old[n]]

Merged(old, w, shift, size) ==
  [n \in 0 .. 3 |->
     IF n \in shift .. shift + size - 1 THEN BytesLeft(w, shift)[n] ELSE old[n]]

dw_pcie_writel_dbi(q, w) ==
  LET a == format_dbi_addr(q.space.type, Offset(q.space, q.reg))
  IN  /\ merging = {} /\ ~Refused(q) /\ q.size = 4 /\ Room(a)
      /\ PutWord(a, w)
      /\ last' = [op |-> "write", request |-> q, word |-> w]
      /\ UNCHANGED merging

\* dw_pcie_writeb_dbi and dw_pcie_writew_dbi: the read of the word.
MergeRead(q, w) ==
  LET a == format_dbi_addr(q.space.type, WordOffset(Offset(q.space, q.reg)))
  IN  /\ merging = {} /\ ~Refused(q) /\ q.size < 4 /\ Room(a)
      /\ \E tmp \in ReadResults(a) : merging' = {[request |-> q, word |-> w, tmp |-> tmp]}
      /\ last' = [op |-> "none", request |-> q, word |-> Zero]
      /\ UNCHANGED bus

\* And the write-back.
MergeWrite ==
  \E m \in merging :
    LET q      == m.request
        offset == Offset(q.space, q.reg)
    IN  /\ PutWord(format_dbi_addr(q.space.type, WordOffset(offset)),
                   Merged(m.tmp, m.word, Shift(offset, q.size), q.size))
        /\ last' = [op |-> "write", request |-> q, word |-> m.word]
        /\ merging' = {}

dw_pcie_write_atuRefused(q, w) ==
  /\ merging = {} /\ Refused(q)
  /\ last' = [op |-> "write", request |-> q, word |-> w]
  /\ UNCHANGED <<bus, merging>>

Next ==
  \/ \E q \in Requests : dw_pcie_read_dbi(q) \/ dw_pcie_read_atuRefused(q)
  \/ \E m \in Writes :
       \/ dw_pcie_writel_dbi(m.request, m.word)
       \/ MergeRead(m.request, m.word)
       \/ dw_pcie_write_atuRefused(m.request, m.word)
  \/ MergeWrite

Spec == Init /\ [][Next]_vars

-----------------------------------------------------------------------------
(***************************************************************************)
(* Properties.                                                             *)
(***************************************************************************)

\* What an access touches, and the address of every byte.
RequestRun(q) == [n \in 1 .. q.size |-> [space |-> q.space, offset |-> q.reg + n - 1]]

\* The spaces there are: the others have no registers.
Exists(q) == q.space.type \in Supported /\ ~Refused(q)

RequestRuns == {RequestRun(q) : q \in {r \in Requests : Exists(r)}}

NoRuns == {RequestRun(q) : q \in {r \in Requests : ~Exists(r)}}

\* The reads the accessors can answer: a word at any offset, a half and a byte
\* at the start of a word that the parameter of readw_dbi or readb_dbi can name.
Answered(q) ==
  /\ Exists(q) /\ q.reg % 4 = 0
  /\ q.size = 2 => Offset(q.space, q.reg) \subseteq 0 .. 15
  /\ q.size = 1 => Offset(q.space, q.reg) \subseteq 0 .. 7

SpaceLocations == UNION {{run[n] : n \in DOMAIN run} : run \in RequestRuns}

AddressAt ==
  [l \in SpaceLocations |-> format_dbi_addr(l.space.type, Offset(l.space, l.offset))]

Abstract == INSTANCE ByteSpace WITH
  Locations <- SpaceLocations,
  Runs <- RequestRuns,
  Readable <- {RequestRun(q) : q \in {r \in Requests : Answered(r)}},
  Foreign <- NoRuns,
  bytes <- [l \in SpaceLocations |-> Contents(WordOffset(AddressAt[l]))[l.offset % 4]],
  access <- [op  |-> last.op,
             run |-> RequestRun(last.request),
             val |-> [n \in 1 .. last.request.size |-> last.word[n - 1]]]

(***************************************************************************)
(* The accessors give every space its own bytes.  A write of one, two or   *)
(* four bytes at any offset changes exactly those of its space, although   *)
(* the bus carries whole words; a read, of the offsets that readb_dbi and  *)
(* readw_dbi can name and need not pass unaligned, returns those of its    *)
(* space; no other read and no access to a type or region that does not    *)
(* exist changes anything.  Registers of different types, directions or    *)
(* indexes never overlap.                                                  *)
(***************************************************************************)
ImplementsByteSpace == Abstract!Spec
=============================================================================
