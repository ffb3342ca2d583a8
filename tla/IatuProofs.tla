----------------------------- MODULE IatuProofs -----------------------------
(***************************************************************************)
(* The address map and the outbound windows, for every width of a          *)
(* register, every size of an aperture and of its configuration windows:   *)
(* with the three regions programmed as dw_pcie_setup_rc does, every       *)
(* address of the aperture of a controller is translated to what the map   *)
(* says it means.                                                          *)
(***************************************************************************)
EXTENDS Iatu, TLAPS

\* lower_32_bits and upper_32_bits lose nothing of an address.
LEMMA JoinedHalves ==
  ASSUME NEW n \in Address
  PROVE  /\ Joined(Upper(n), Lower(n)) = n
         /\ Lower(n) \in 0 .. Half - 1
         /\ Upper(n) \in 0 .. Half - 1
<1> USE IatuAssumption DEF Address
<1>1. n \in Nat /\ n < Half * Half /\ Half * Half \in Nat
  OBVIOUS
<1>2. n \div Half \in Nat /\ n \div Half < Half
  BY <1>1
<1>3. (n \div Half) % Half = n \div Half
  BY <1>2
<1>4. n = Half * (n \div Half) + (n % Half)
  BY <1>1, Z3
<1>5. n % Half \in 0 .. Half - 1
  BY <1>1
<1>6. QED
  BY <1>2, <1>3, <1>4, <1>5 DEF Joined, Upper, Lower

(***************************************************************************)
(* Where the windows lie.                                                  *)
(***************************************************************************)
LEMMA Geometry ==
  ASSUME NEW port \in 0 .. 3
  PROVE  /\ mem_base(port) \in Nat /\ cfg_bar1(port) \in Nat /\ cfg_bar0(port) \in Nat
         /\ mem_base(port + 1) = mem_base(port) + MemSize
         /\ cfg_bar0(port) = mem_base(port) + MemSize - CfgSize
         /\ cfg_bar1(port) = mem_base(port) + MemSize - 2 * CfgSize
         /\ mem_base(port) <= cfg_bar1(port)
         /\ mem_base(port) + MemSize <= Half * Half
<1> USE IatuAssumption
<1>1. port * MemSize \in Nat /\ (port + 1) * MemSize = port * MemSize + MemSize
  OBVIOUS
<1>2. port * MemSize + MemSize <= 4 * MemSize
  <2>1. port = 0 \/ port = 1 \/ port = 2 \/ port = 3
    OBVIOUS
  <2>2. QED
    BY <2>1
<1>3. QED
  BY <1>1, <1>2 DEF mem_base, cfg_bar0, cfg_bar1

LEMMA WindowsAreAddresses ==
  ASSUME NEW port \in 0 .. 3, NEW k \in Regions
  PROVE  LET w == Window(port, k)
         IN  w.cpu \in Address /\ w.pci \in Address /\ w.cpu + w.size - 1 \in Address
<1> USE IatuAssumption, Geometry DEF Address
<1>1. CASE k = 0
  BY <1>1 DEF Window, Call
<1>2. CASE k = 1
  BY <1>2 DEF Window, Call
<1>3. CASE k = 2
  BY <1>3 DEF Window, Call
<1>4. QED
  BY <1>1, <1>2, <1>3 DEF Regions

-----------------------------------------------------------------------------
(***************************************************************************)
(* What the registers of a region amount to once its window is written.    *)
(***************************************************************************)
Holds(r, window) ==
  /\ r.lwr_base = Registers(window).lwr_base
  /\ r.upper_base = Registers(window).upper_base
  /\ r.lwr_limit = Registers(window).lwr_limit
  /\ r.upper_limit = Registers(window).upper_limit
  /\ r.lwr_target = Registers(window).lwr_target
  /\ r.upper_target = Registers(window).upper_target
  /\ r.type = Registers(window).type

LEMMA WrittenRegion ==
  ASSUME NEW port \in 0 .. 3, NEW k \in Regions, NEW r, Holds(r, Window(port, k)),
         NEW a \in Int
  PROVE  LET w == Window(port, k)
         IN  /\ Matches(r, a) <=> w.cpu <= a /\ a <= w.cpu + w.size - 1
             /\ Translated(r, a) = [type |-> w.type, address |-> w.pci + a - w.cpu]
<1> DEFINE w == Window(port, k)
<1>1. w.cpu \in Address /\ w.pci \in Address /\ w.cpu + w.size - 1 \in Address
  BY WindowsAreAddresses
<1> HIDE DEF w
<1>2. /\ r.lwr_base = Lower(w.cpu) /\ r.upper_base = Upper(w.cpu)
      /\ r.lwr_limit = Lower(w.cpu + w.size - 1) /\ r.upper_limit = Upper(w.cpu + w.size - 1)
      /\ r.lwr_target = Lower(w.pci) /\ r.upper_target = Upper(w.pci)
      /\ r.type = w.type
  BY DEF Holds, Registers, w
<1>3. /\ Joined(r.upper_base, r.lwr_base) = w.cpu
      /\ Joined(r.upper_limit, r.lwr_limit) = w.cpu + w.size - 1
      /\ Joined(r.upper_target, r.lwr_target) = w.pci
  BY <1>1, <1>2, JoinedHalves
<1>4. /\ Matches(r, a) <=> w.cpu <= a /\ a <= w.cpu + w.size - 1
      /\ Translated(r, a) = [type |-> w.type, address |-> w.pci + a - w.cpu]
  BY <1>2, <1>3 DEF Matches, Translated
<1>5. QED
  BY <1>4 DEF w

(***************************************************************************)
(* The three windows of dw_pcie_setup_rc, all in use, translate every      *)
(* address of the aperture as the map says: the configuration windows win  *)
(* over the memory window that contains them, and their limits meet.       *)
(***************************************************************************)
THEOREM WindowsTranslate ==
  ASSUME NEW port \in 0 .. 3, NEW atu,
         \A k \in Regions : Holds(atu[k], Window(port, k))
  PROVE  \A a \in Aperture(port) : Translation(atu, Regions, a) = Meaning(port, a)
<1> SUFFICES ASSUME NEW a \in Aperture(port)
             PROVE  Translation(atu, Regions, a) = Meaning(port, a)
  OBVIOUS
<1> USE IatuAssumption DEF Regions
<1> DEFINE hits == {k \in Regions : Matches(atu[k], a)}
           first == CHOOSE k \in hits : \A j \in hits : k <= j
<1>1. /\ a \in Int
      /\ mem_base(port) <= a /\ a <= mem_base(port) + MemSize - 1
  BY Geometry DEF Aperture
<1>2. /\ Matches(atu[0], a) <=> cfg_bar1(port) <= a /\ a <= cfg_bar1(port) + CfgSize - 1
      /\ Translated(atu[0], a) = [type |-> PCIE_ATU_TYPE_CFG1,
                                  address |-> Cfg1Target + a - cfg_bar1(port)]
  <2> DEFINE w == Window(port, 0)
  <2>1. w = Call(PCIE_ATU_TYPE_CFG1, cfg_bar1(port), Cfg1Target, CfgSize)
    BY DEF Window
  <2>2. /\ Matches(atu[0], a) <=> w.cpu <= a /\ a <= w.cpu + w.size - 1
        /\ Translated(atu[0], a) = [type |-> w.type, address |-> w.pci + a - w.cpu]
    <3>1. 0 \in Regions /\ Holds(atu[0], Window(port, 0))
      OBVIOUS
    <3>2. QED
      BY <1>1, <3>1, WrittenRegion
  <2> HIDE DEF w
  <2>3. QED
    BY <2>1, <2>2 DEF Call
<1>3. /\ Matches(atu[1], a) <=> cfg_bar0(port) <= a /\ a <= cfg_bar0(port) + CfgSize - 1
      /\ Translated(atu[1], a) = [type |-> PCIE_ATU_TYPE_CFG0,
                                  address |-> Cfg0Target + a - cfg_bar0(port)]
  <2> DEFINE w == Window(port, 1)
  <2>1. w = Call(PCIE_ATU_TYPE_CFG0, cfg_bar0(port), Cfg0Target, CfgSize)
    BY DEF Window
  <2>2. /\ Matches(atu[1], a) <=> w.cpu <= a /\ a <= w.cpu + w.size - 1
        /\ Translated(atu[1], a) = [type |-> w.type, address |-> w.pci + a - w.cpu]
    <3>1. 1 \in Regions /\ Holds(atu[1], Window(port, 1))
      OBVIOUS
    <3>2. QED
      BY <1>1, <3>1, WrittenRegion
  <2> HIDE DEF w
  <2>3. QED
    BY <2>1, <2>2 DEF Call
<1>4. /\ Matches(atu[2], a) <=> mem_base(port) <= a /\ a <= mem_base(port) + MemSize - 1
      /\ Translated(atu[2], a) = [type |-> PCIE_ATU_TYPE_MEM,
                                  address |-> MemTarget + a - mem_base(port)]
  <2> DEFINE w == Window(port, 2)
  <2>1. w = Call(PCIE_ATU_TYPE_MEM, mem_base(port), MemTarget, MemSize)
    BY DEF Window
  <2>2. /\ Matches(atu[2], a) <=> w.cpu <= a /\ a <= w.cpu + w.size - 1
        /\ Translated(atu[2], a) = [type |-> w.type, address |-> w.pci + a - w.cpu]
    <3>1. 2 \in Regions /\ Holds(atu[2], Window(port, 2))
      OBVIOUS
    <3>2. QED
      BY <1>1, <3>1, WrittenRegion
  <2> HIDE DEF w
  <2>3. QED
    BY <2>1, <2>2 DEF Call
<1>5. 2 \in hits
  BY <1>1, <1>4
<1>6. first \in hits /\ (\A j \in hits : first <= j)
      /\ Translation(atu, Regions, a) = Translated(atu[first], a)
  <2>1. \E k \in hits : \A j \in hits : k <= j
    <3>1. hits \subseteq {0, 1, 2}
      OBVIOUS
    <3>2. CASE 0 \in hits
      BY <3>1, <3>2
    <3>3. CASE 0 \notin hits /\ 1 \in hits
      BY <3>1, <3>3
    <3>4. CASE 0 \notin hits /\ 1 \notin hits
      BY <1>5, <3>1, <3>4
    <3>5. QED
      BY <3>2, <3>3, <3>4
  <2>2. hits # {}
    BY <1>5
  <2>3. QED
    BY <2>1, <2>2 DEF Translation
<1>7. CASE a < cfg_bar1(port)
  <2>1. first = 2
    BY <1>1, <1>2, <1>3, <1>6, <1>7, Geometry
  <2>2. QED
    BY <1>1, <1>4, <1>6, <1>7, <2>1, Geometry DEF Meaning
<1>8. CASE cfg_bar1(port) <= a /\ a < cfg_bar0(port)
  <2>1. first = 0
    BY <1>1, <1>2, <1>6, <1>8, Geometry
  <2>2. QED
    BY <1>1, <1>2, <1>6, <1>8, <2>1, Geometry DEF Meaning
<1>9. CASE cfg_bar0(port) <= a
  <2>1. first = 1
    BY <1>1, <1>2, <1>3, <1>6, <1>9, Geometry
  <2>2. QED
    BY <1>1, <1>3, <1>6, <1>9, <2>1, Geometry DEF Meaning
<1>10. QED
  BY <1>1, <1>7, <1>8, <1>9, Geometry
=============================================================================
