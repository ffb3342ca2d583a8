----------------------------- MODULE MCDbiAccess ----------------------------
(***************************************************************************)
(* Requests and data for the runs of DbiAccess.                            *)
(***************************************************************************)
EXTENDS DbiAccess

Request(space, reg, size) == [space |-> space, reg |-> reg, size |-> size]

Cdm == Space(DW_PCIE_CDM)
Outbound(index) == AtuSpace(DW_PCIE_REGION_OUTBOUND, index)
Inbound(index)  == AtuSpace(DW_PCIE_REGION_INBOUND, index)

\* Every byte, half and the word of one register, through the CDM.
Narrow ==
  {Request(Cdm, reg, 1) : reg \in 8 .. 11}
  \cup {Request(Cdm, reg, 2) : reg \in {8, 10}}
  \cup {Request(Cdm, 8, 4)}

\* Bytes and halves whose offset a uint8_t or uint16_t would cut to that of Narrow.
Far ==
  {Request(Cdm, 267, 1), Request(Cdm, 65544, 2),
   Request(Outbound(1), 8, 1), Request(Inbound(0), 10, 2)}

\* The same offset in other spaces, two of which do not exist.
Others ==
  {Request(s, 8, 4) : s \in
     {Space(DW_PCIE_SHADOW), Space(DW_PCIE_DMA), Outbound(0), Inbound(0)}}
Missing ==
  {Request(Space(DW_PCIE_ELBI), 8, 4), Request(AtuSpace(DW_PCIE_REGION_UNKNOWN, 0), 8, 4)}

MCRequests == Narrow \cup Far \cup Others \cup Missing

WordOf(b0, b1, b2, b3) ==
  [n \in 0 .. 3 |-> CASE n = 0 -> b0 [] n = 1 -> b1 [] n = 2 -> b2 [] n = 3 -> b3]

\* The bytes of a word differ from those they could be mistaken for.
MCWrites ==
  [request : {q \in Narrow : q.size > 1},
   word : {WordOf(255, 0, 0, 255), WordOf(0, 255, 255, 255)}]
  \cup [request : {q \in Narrow : q.size = 1} \cup Far \cup Others \cup Missing, word : {WordOf(255, 255, 0, 255)}]
=============================================================================
