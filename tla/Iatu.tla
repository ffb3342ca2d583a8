-------------------------------- MODULE Iatu --------------------------------
(***************************************************************************)
(* The address map of the subsystem (src/pcie_duowen.h) and the outbound   *)
(* windows dw_pcie_setup_rc programs into the address translation unit of  *)
(* a controller, src/pcie_designware.c.  Addresses are numbers below       *)
(* Half * Half, kept in registers as two halves of Half values each; in    *)
(* the code Half is 2^32.                                                  *)
(***************************************************************************)
EXTENDS Integers

CONSTANTS
  Half,             \* 2^32: values of a register
  AddrStart,        \* PCIE_SUBSYS_ADDR_START
  MemSize,          \* PCIE_CORE_MEM_SIZE, the aperture of a controller
  CfgSize,          \* PCIE_CORE_CFG_SIZE, and the literal 0x80000
  Cfg1Target,       \* 0x1000000000000000
  Cfg0Target,       \* 0x1100000000000000
  MemTarget         \* 0x2000000000000000

Address == 0 .. Half * Half - 1

ASSUME IatuAssumption ==
  /\ Half \in Nat \ {0}
  /\ AddrStart \in Nat
  /\ MemSize \in Nat
  /\ CfgSize \in Nat \ {0}
  /\ 2 * CfgSize <= MemSize
  /\ AddrStart + 4 * MemSize <= Half * Half
  /\ {Cfg1Target, Cfg0Target, MemTarget} \subseteq Address

PCIE_ATU_TYPE_MEM  == 0
PCIE_ATU_TYPE_CFG0 == 4
PCIE_ATU_TYPE_CFG1 == 5

(***************************************************************************)
(* The apertures of the controllers follow each other; the two             *)
(* configuration windows are the last of each aperture.                    *)
(***************************************************************************)
mem_base(port) == AddrStart + port * MemSize
cfg_bar0(port) == mem_base(port + 1) - CfgSize
cfg_bar1(port) == mem_base(port + 1) - 2 * CfgSize

Aperture(port) == mem_base(port) .. mem_base(port + 1) - 1

\* The arguments of the three calls of dw_pcie_prog_outbound_atu, by index.
Regions == 0 .. 2

Call(type, cpu, pci, size) == [type |-> type, cpu |-> cpu, pci |-> pci, size |-> size]

WindowMemFirst(port, index) ==
  CASE index = 1 -> Call(PCIE_ATU_TYPE_CFG1, cfg_bar1(port), Cfg1Target, CfgSize)
    [] index = 2 -> Call(PCIE_ATU_TYPE_CFG0, cfg_bar0(port), Cfg0Target, CfgSize)
    [] index = 0 -> Call(PCIE_ATU_TYPE_MEM, mem_base(port), MemTarget, MemSize)

Window(port, index) ==
  CASE index = 0 -> Call(PCIE_ATU_TYPE_CFG1, cfg_bar1(port), Cfg1Target, CfgSize)
    [] index = 1 -> Call(PCIE_ATU_TYPE_CFG0, cfg_bar0(port), Cfg0Target, CfgSize)
    [] index = 2 -> Call(PCIE_ATU_TYPE_MEM, mem_base(port), MemTarget, MemSize)

(***************************************************************************)
(* lower_32_bits and upper_32_bits.                                        *)
(***************************************************************************)
LowerUncut(n) == n
Lower(n) == n % Half
Upper(n) == (n \div Half) % Half

(***************************************************************************)
(* The registers a region takes its window from: base and limit, both      *)
(* inclusive, and target, each in two halves; and the type.                *)
(***************************************************************************)
Registers(w) ==
  LET limit == w.cpu + w.size - 1
  IN  [lwr_base |-> Lower(w.cpu),    upper_base |-> Upper(w.cpu),
       lwr_limit |-> Lower(limit),   upper_limit |-> Upper(limit),
       lwr_target |-> Lower(w.pci),  upper_target |-> Upper(w.pci),
       type |-> w.type]

Joined(upper, lwr) == upper * Half + lwr

Matches(r, a) ==
  /\ Joined(r.upper_base, r.lwr_base) <= a
  /\ a <= Joined(r.upper_limit, r.lwr_limit)

Translated(r, a) ==
  [type |-> r.type,
   address |-> Joined(r.upper_target, r.lwr_target) + a - Joined(r.upper_base, r.lwr_base)]

(***************************************************************************)
(* The translation unit: of the regions in use, the one of lowest index    *)
(* that matches an address translates it; otherwise it passes unchanged.   *)
(***************************************************************************)
Passed(a) == [type |-> PCIE_ATU_TYPE_MEM, address |-> a]

Translation(atu, inUse, a) ==
  LET hits == {k \in inUse : Matches(atu[k], a)}
  IN  IF hits = {} THEN Passed(a)
      ELSE Translated(atu[CHOOSE k \in hits : \A j \in hits : k <= j], a)

(***************************************************************************)
(* What the address map says an address of an aperture means.              *)
(***************************************************************************)
Meaning(port, a) ==
  CASE a < cfg_bar1(port) ->
         [type |-> PCIE_ATU_TYPE_MEM, address |-> MemTarget + a - mem_base(port)]
    [] a >= cfg_bar1(port) /\ a < cfg_bar0(port) ->
         [type |-> PCIE_ATU_TYPE_CFG1, address |-> Cfg1Target + a - cfg_bar1(port)]
    [] a >= cfg_bar0(port) ->
         [type |-> PCIE_ATU_TYPE_CFG0, address |-> Cfg0Target + a - cfg_bar0(port)]
=============================================================================
