------------------------------ MODULE LinkMode ------------------------------
(***************************************************************************)
(* The link modes of the Duowen PCIe subsystem, src/pcie_duowen.c: how the *)
(* lanes of the shared PHY are divided over the four controllers, and      *)
(* which controllers each mode starts.                                     *)
(*                                                                         *)
(* A build is a record [dpu |-> BOOLEAN, mode |-> LinkModes]: whether the  *)
(* program is compiled with DPU, and its DEFAULT_LINK_MODE.                *)
(***************************************************************************)
EXTENDS Integers

\* The indexes of the controllers in controllers[].
X16  == 0
X8   == 1
X4_0 == 2
X4_1 == 3
NumPorts == 4
Ports == 0 .. NumPorts - 1

LINK_MODE_4_4_4_4  == 0
LINK_MODE_8_4_0_4  == 1
LINK_MODE_8_8_0_0  == 2
LINK_MODE_16_0_0_0 == 3
LinkModes == 0 .. 3

AllBuilds == [dpu : BOOLEAN, mode : LinkModes]

NO_ORDER == 255

(***************************************************************************)
(* The fields of struct dw_pcie that subsys_link_init_pre assigns.  Every  *)
(* case assigns the lanes, the flag and the order of a controller          *)
(* together: an unused one gets 0, false and 0xff.                         *)
(***************************************************************************)
Setting(lanes, ord) ==
  [lane_num |-> lanes, active |-> ord # NO_ORDER, order |-> ord]

Unused == Setting(0, NO_ORDER)

Case(lanes, orders) ==
  [p \in Ports |-> Setting(lanes[p + 1], orders[p + 1])]

OnlyFour(port) == [p \in Ports |-> IF p = port THEN Setting(4, 0) ELSE Unused]

DpuCase(mode) ==
  CASE mode = LINK_MODE_4_4_4_4  -> OnlyFour(X4_0)
    [] mode = LINK_MODE_8_4_0_4  -> OnlyFour(X4_1)
    [] mode = LINK_MODE_8_8_0_0  -> OnlyFour(X8)
    [] mode = LINK_MODE_16_0_0_0 -> OnlyFour(X16)

ServerCaseSwapped(mode) ==
  CASE mode = LINK_MODE_4_4_4_4  -> Case(<<4, 4, 4, 4>>, <<0, 1, 2, 2>>)
    [] mode = LINK_MODE_8_4_0_4  -> Case(<<8, 4, 0, 4>>, <<0, 1, NO_ORDER, 2>>)
    [] mode = LINK_MODE_8_8_0_0  -> Case(<<8, 8, 0, 0>>, <<0, 1, NO_ORDER, NO_ORDER>>)
    [] mode = LINK_MODE_16_0_0_0 ->
         Case(<<16, 0, 0, 0>>, <<0, NO_ORDER, NO_ORDER, NO_ORDER>>)

ServerCase(mode) ==
  CASE mode = LINK_MODE_4_4_4_4  -> Case(<<4, 4, 4, 4>>, <<0, 1, 2, 3>>)
    [] mode = LINK_MODE_8_4_0_4  -> Case(<<8, 4, 0, 4>>, <<0, 1, NO_ORDER, 2>>)
    [] mode = LINK_MODE_8_8_0_0  -> Case(<<8, 8, 0, 0>>, <<0, 1, NO_ORDER, NO_ORDER>>)
    [] mode = LINK_MODE_16_0_0_0 ->
         Case(<<16, 0, 0, 0>>, <<0, NO_ORDER, NO_ORDER, NO_ORDER>>)

(***************************************************************************)
(* The case whose assignments stand after the switch.  In a DPU build the  *)
(* break of LINK_MODE_8_4_0_4 is compiled out (it stands inside the #else  *)
(* part), so that case falls through into the next, which assigns every    *)
(* field again.                                                            *)
(***************************************************************************)
LastCase(b) ==
  IF b.dpu /\ b.mode = LINK_MODE_8_4_0_4 THEN LINK_MODE_8_8_0_0 ELSE b.mode

Table(b) == IF b.dpu THEN DpuCase(LastCase(b)) ELSE ServerCase(LastCase(b))

(***************************************************************************)
(* The controller whose LTSSM each case of subsys_link_init_post enables.  *)
(***************************************************************************)
PostPort(case) ==
  CASE case = LINK_MODE_4_4_4_4  -> X4_0
    [] case = LINK_MODE_8_4_0_4  -> X4_1
    [] case = LINK_MODE_8_8_0_0  -> X8
    [] case = LINK_MODE_16_0_0_0 -> X16

-----------------------------------------------------------------------------
(***************************************************************************)
(* What the tables amount to.                                              *)
(***************************************************************************)
ActivePorts(b) == {p \in Ports : Table(b)[p].active}

\* The controllers before the first inactive one.
ActivePrefix(b) == {p \in Ports : \A q \in 0 .. p : Table(b)[q].active}
=============================================================================
