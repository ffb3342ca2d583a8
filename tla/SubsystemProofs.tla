--------------------------- MODULE SubsystemProofs --------------------------
(***************************************************************************)
(* Proofs about the whole program under restarts: the properties of        *)
(* Subsystem hold of every set of builds, every content of the registers   *)
(* after a cold boot and every geometry of the address map, wherever a     *)
(* restart cuts a boot short.                                              *)
(*                                                                         *)
(* What a set-up does to its controller is taken from RootPortProofs,      *)
(* whose invariants hold of a first set-up and of a repeated one alike;    *)
(* this module shows that every boot finds the controllers in a state in   *)
(* which a set-up may begin.                                               *)
(***************************************************************************)
EXTENDS Subsystem, BringUpProofs, Sequences

\* The calls of dw_pcie_setup_rc a program could make.
AnyCall == [port : 0 .. 3, lane_num : {4, 8, 16}, order : 0 .. 3]

RP == INSTANCE RootPortProofs WITH Setups <- AnyCall, ErrorBits <- {}

-----------------------------------------------------------------------------
(***************************************************************************)
(* The invariant.                                                          *)
(***************************************************************************)

\* Where a boot is: the part of LoopInv of PlatformProofs that a restart leaves
\* true, for what earlier boots have latched stays in the hardware.
BootInv ==
  /\ build \in Builds /\ build \in AllBuilds
  /\ i \in 0 .. NumPorts /\ controller \in 0 .. NumPorts
  /\ pc # "instance" => link_mode = build.mode
  /\ pc \in AfterTables => controllers = Table(build)
  /\ IF pc \in InLoopOrLater THEN controller <= i ELSE controller = 0
  /\ \A p \in Ports : p < controller => Table(build)[p].active
  /\ controller < i /\ pc \in InLoopOrLater => ~Table(build)[controller].active
  /\ pc \in {"post", "done"} => i = NumPorts
  /\ ltssm \subseteq Ports
  /\ pc = "post" => /\ case \in build.mode .. 3
                    /\ build.dpu => case = build.mode

\* A call is for the controller of the loop, with the fields of the tables.  No
\* enable takes effect in Subsystem, which asks what is enabled.
CallInv ==
  /\ calling \in BOOLEAN
  /\ calling => /\ pc = "loop" /\ i < NumPorts
                /\ Table(build)[controller].active
                /\ pci.port = controller
                /\ pci.lane_num = Table(build)[controller].lane_num
                /\ pci.order = Table(build)[controller].order
  /\ ~calling => ip = 1 /\ ~fetched
  /\ inUse = {}

\* The invariants of a set-up, of the controller that had the last call.  They
\* hold outside the calls too, with the first access still to come.
DriverInv ==
  /\ RP!TypeOK /\ RP!FetchedInv /\ RP!UnlockedInv /\ RP!FieldsInv /\ RP!RatesInv
  /\ RP!AtuInv

\* The types of RootPort, for the registers of one controller.
ControllerRegs ==
  [regs : [RP!PlainRegs -> RP!AnyWord],
   gen3_sel : SUBSET RP!RATE_SHADOW_SEL_MASK,
   gen3 : [0 .. 3 -> SUBSET (RP!Bits \ RP!RATE_SHADOW_SEL_MASK)],
   atu : [RP!Regions -> RP!AtuRegs]]

\* The registers r of controller p have the link of the tables and all windows.
InPlace(p, r) ==
  /\ RP!LinkInPlace(r.regs, Table(build)[p])
  /\ \A k \in RP!Regions : r.atu[k].enable

\* What a set-up of controller p leaves in its registers wherever it is cut
\* short: all that a later set-up relies on at its first access.
Left(p, r) ==
  /\ r.gen3_sel \in {{}, {24}}
  /\ r.gen3_sel = {24} => RP!GEN3_BIT \in r.gen3[0]
  /\ RP!Complete(r.atu, {k \in RP!Regions : r.atu[k].enable}, p)
  /\ RP!Requested(r.regs) => InPlace(p, r)

LeftInv ==
  /\ others \in [Ports \ {pci.port} -> ControllerRegs]
  /\ \A p \in Ports : Left(p, Of(p))

\* A request of an earlier boot that access 4 has read and will repeat.
PendingInv ==
  fetched /\ ip = 4 /\ RP!PORT_LOGIC_SPEED_CHANGE \in val => InPlace(pci.port, Current)

\* A started link stays in place.  In an unsound build the switch also starts
\* controllers that no loop reaches: nothing is said of those.
StartedInv == \A p \in ltssm \cap ActivePrefix(build) : InPlace(p, Of(p))

\* The loop leaves ready what it passes.
ReadyInv == pc \in InLoopOrLater => \A p \in Ports : p < controller => Ready(p)

SystemInv ==
  BootInv /\ CallInv /\ DriverInv /\ LeftInv /\ PendingInv /\ StartedInv /\ ReadyInv

-----------------------------------------------------------------------------
(***************************************************************************)
(* Subsystem and RootPortProofs each have an instance of RootPort, R and   *)
(* RP, which say the same of every call.                                   *)
(***************************************************************************)
LEMMA SameRegs == R!PlainRegs = RP!PlainRegs
BY DEF R!PlainRegs, RP!PlainRegs, R!PCI_COMMAND, RP!PCI_COMMAND,
       R!PCI_CLASS_REVISION, RP!PCI_CLASS_REVISION, R!PCI_BASE_ADDRESS_0,
       RP!PCI_BASE_ADDRESS_0, R!PCI_BASE_ADDRESS_1, RP!PCI_BASE_ADDRESS_1,
       R!PCI_PRIMARY_BUS, RP!PCI_PRIMARY_BUS, R!PCI_INTERRUPT_LINE,
       RP!PCI_INTERRUPT_LINE, R!PCIE_PORT_FORCE_OFF, RP!PCIE_PORT_FORCE_OFF,
       R!PCIE_PORT_LINK_CONTROL, RP!PCIE_PORT_LINK_CONTROL,
       R!PCIE_TIMER_CTRL_MAX_FUN_NUM_OFF, RP!PCIE_TIMER_CTRL_MAX_FUN_NUM_OFF,
       R!PCIE_LINK_WIDTH_SPEED_CONTROL, RP!PCIE_LINK_WIDTH_SPEED_CONTROL,
       R!PCIE_MISC_CONTROL_1_OFF, RP!PCIE_MISC_CONTROL_1_OFF

LEMMA Assumptions == RP!IatuAssumption /\ RP!RootPortAssumption
BY SubsystemAssumption, SameRegs
   DEF AnyCall, R!IatuAssumption, RP!IatuAssumption, RP!RootPortAssumption,
       R!AnyWord, RP!AnyWord, R!Bits, RP!Bits, R!Address, RP!Address

LEMMA SameProgram == \A c : R!dw_pcie_setup_rc(c) = RP!dw_pcie_setup_rc(c)
BY DEF R!dw_pcie_setup_rc, RP!dw_pcie_setup_rc, R!dw_pcie_dbi_ro_wr_en,
       RP!dw_pcie_dbi_ro_wr_en, R!dw_pcie_setup, RP!dw_pcie_setup, R!Rmw, RP!Rmw,
       R!Write, RP!Write, R!WriteHalf, RP!WriteHalf, R!WriteAtu, RP!WriteAtu,
       R!AtuFields, RP!AtuFields, R!dw_pcie_prog_outbound_atu,
       RP!dw_pcie_prog_outbound_atu, R!Registers, R!Window, RP!Registers, RP!Window,
       R!Lower, R!Upper, RP!Lower, RP!Upper, R!Call, RP!Call, R!PCIE_ATU_TYPE_CFG1,
       R!PCIE_ATU_TYPE_CFG0, R!PCIE_ATU_TYPE_MEM, RP!PCIE_ATU_TYPE_CFG1,
       RP!PCIE_ATU_TYPE_CFG0, RP!PCIE_ATU_TYPE_MEM, R!cfg_bar1, R!cfg_bar0,
       R!mem_base, RP!cfg_bar1, RP!cfg_bar0, RP!mem_base, R!set_command,
       RP!set_command, R!gen3_related, RP!gen3_related, R!link_number,
       RP!link_number, R!RATE_SHADOW_SEL, RP!RATE_SHADOW_SEL, R!FIELD_PREP,
       RP!FIELD_PREP, R!GENMASK, RP!GENMASK, R!ShiftLeft, RP!ShiftLeft, R!BitsOf,
       RP!BitsOf, R!Bits, RP!Bits, R!PORT_LINK_MODE, RP!PORT_LINK_MODE,
       R!PORT_LOGIC_LINK_WIDTH, RP!PORT_LOGIC_LINK_WIDTH, R!dw_pcie_dbi_ro_wr_dis,
       RP!dw_pcie_dbi_ro_wr_dis, R!PCI_COMMAND, RP!PCI_COMMAND,
       R!PCI_CLASS_REVISION, RP!PCI_CLASS_REVISION, R!PCI_BASE_ADDRESS_0,
       RP!PCI_BASE_ADDRESS_0, R!PCI_BASE_ADDRESS_1, RP!PCI_BASE_ADDRESS_1,
       R!PCI_PRIMARY_BUS, RP!PCI_PRIMARY_BUS, R!PCI_INTERRUPT_LINE,
       RP!PCI_INTERRUPT_LINE, R!PCIE_PORT_FORCE_OFF, RP!PCIE_PORT_FORCE_OFF,
       R!PCIE_PORT_LINK_CONTROL, RP!PCIE_PORT_LINK_CONTROL,
       R!PCIE_TIMER_CTRL_MAX_FUN_NUM_OFF, RP!PCIE_TIMER_CTRL_MAX_FUN_NUM_OFF,
       R!PCIE_LINK_WIDTH_SPEED_CONTROL, RP!PCIE_LINK_WIDTH_SPEED_CONTROL,
       R!PCIE_GEN3_RELATED_OFF, RP!PCIE_GEN3_RELATED_OFF, R!PCIE_MISC_CONTROL_1_OFF,
       RP!PCIE_MISC_CONTROL_1_OFF, R!PORT_LINK_NUM_MASK, RP!PORT_LINK_NUM_MASK,
       R!PORT_LINK_MODE_MASK, RP!PORT_LINK_MODE_MASK, R!PORT_LOGIC_LINK_WIDTH_MASK,
       RP!PORT_LOGIC_LINK_WIDTH_MASK, R!RATE_SHADOW_SEL_MASK,
       RP!RATE_SHADOW_SEL_MASK, R!PORT_LOGIC_SPEED_CHANGE,
       RP!PORT_LOGIC_SPEED_CHANGE, R!PCIE_DBI_RO_WR_EN, RP!PCIE_DBI_RO_WR_EN,
       R!GEN3_BIT, RP!GEN3_BIT, R!Min, RP!Min

LEMMA SameWindow ==
  \A port, k : R!Registers(R!Window(port, k)) = RP!Registers(RP!Window(port, k))
BY DEF R!Registers, R!Window, RP!Registers, RP!Window, R!Lower, R!Upper, RP!Lower,
       RP!Upper, R!Call, RP!Call, R!PCIE_ATU_TYPE_CFG1, R!PCIE_ATU_TYPE_CFG0,
       R!PCIE_ATU_TYPE_MEM, RP!PCIE_ATU_TYPE_CFG1, RP!PCIE_ATU_TYPE_CFG0,
       RP!PCIE_ATU_TYPE_MEM, R!cfg_bar1, R!cfg_bar0, R!mem_base, RP!cfg_bar1,
       RP!cfg_bar0, RP!mem_base

LEMMA SameDriver == R!Driver => RP!Driver
<1>1. R!Program = RP!Program
  BY SameProgram DEF R!Program, RP!Program
<1> DEFINE a == RP!Program[ip]
<1>2. ASSUME NEW reg, NEW w PROVE R!Written(reg, w) = RP!Written(reg, w)
  BY DEF R!Written, RP!Written, R!Protected, RP!Protected, R!ReadOnly, RP!ReadOnly,
         R!GENMASK, RP!GENMASK, R!PCI_COMMAND, RP!PCI_COMMAND, R!PCIE_DBI_RO_WR_EN,
         RP!PCIE_DBI_RO_WR_EN, R!PCIE_MISC_CONTROL_1_OFF,
         RP!PCIE_MISC_CONTROL_1_OFF, R!PCI_CLASS_REVISION, RP!PCI_CLASS_REVISION,
         R!PCI_BASE_ADDRESS_0, RP!PCI_BASE_ADDRESS_0, R!PCI_INTERRUPT_LINE,
         RP!PCI_INTERRUPT_LINE, R!PCI_STATUS_ERRORS, RP!PCI_STATUS_ERRORS
<1>3. ASSUME NEW sel PROVE R!Selected(sel) = RP!Selected(sel)
  BY DEF R!Selected, RP!Selected, R!RATE_SHADOW_SEL, RP!RATE_SHADOW_SEL,
         R!FIELD_PREP, RP!FIELD_PREP, R!GENMASK, RP!GENMASK, R!ShiftLeft,
         RP!ShiftLeft, R!BitsOf, RP!BitsOf, R!Bits, RP!Bits, R!Min, RP!Min,
         R!RATE_SHADOW_SEL_MASK, RP!RATE_SHADOW_SEL_MASK
<1>4. ASSUME NEW reg PROVE R!Value(reg) = RP!Value(reg)
  BY <1>3 DEF R!Value, RP!Value, R!PCIE_GEN3_RELATED_OFF, RP!PCIE_GEN3_RELATED_OFF
<1>5. ASSUME NEW reg, NEW w, R!Store(reg, w) PROVE RP!Store(reg, w)
  BY <1>2, <1>3, <1>5
     DEF R!Store, RP!Store, R!PCIE_GEN3_RELATED_OFF, RP!PCIE_GEN3_RELATED_OFF,
         R!RATE_SHADOW_SEL_MASK, RP!RATE_SHADOW_SEL_MASK, R!GENMASK, RP!GENMASK
<1> SUFFICES ASSUME R!Driver PROVE RP!Driver
  OBVIOUS
<1>6. R!ReadRegister(a) \/ R!WriteBack(a) \/ R!WriteRegister(a) \/ R!WriteAtuRegister(a)
  BY <1>1 DEF R!Driver
<1> HIDE DEF a
<1>7. R!ReadRegister(a) => RP!ReadRegister(a)
  BY <1>4
     DEF R!ReadRegister, RP!ReadRegister, R!fixed, RP!fixed, R!hardware, RP!hardware
<1>8. R!WriteBack(a) => RP!WriteBack(a)
  BY <1>5 DEF R!WriteBack, RP!WriteBack, R!fixed, RP!fixed, R!Advance, RP!Advance
<1>9. R!WriteRegister(a) => RP!WriteRegister(a)
  BY <1>5
     DEF R!WriteRegister, RP!WriteRegister, R!fixed, RP!fixed, R!Advance, RP!Advance
<1>10. R!WriteAtuRegister(a) => RP!WriteAtuRegister(a)
  BY DEF R!WriteAtuRegister, RP!WriteAtuRegister, R!fixed, RP!fixed, R!Advance,
         RP!Advance
<1>11. RP!Running
  BY <1>1 DEF R!Driver, R!Running, RP!Running
<1>12. QED
  BY <1>6, <1>7, <1>8, <1>9, <1>10, <1>11 DEF RP!Driver, a

\* What the properties of Subsystem say with R, in the words of RP.
LEMMA SameWords ==
  /\ R!Regions = RP!Regions
  /\ R!PCIE_LINK_WIDTH_SPEED_CONTROL = RP!PCIE_LINK_WIDTH_SPEED_CONTROL
  /\ R!PORT_LOGIC_SPEED_CHANGE = RP!PORT_LOGIC_SPEED_CHANGE
  /\ R!PCIE_MISC_CONTROL_1_OFF = RP!PCIE_MISC_CONTROL_1_OFF
  /\ R!PCIE_DBI_RO_WR_EN = RP!PCIE_DBI_RO_WR_EN
  /\ R!GEN3_BIT = RP!GEN3_BIT
  /\ R!AtuFields = RP!AtuFields
  /\ \A r : R!Requested(r) <=> RP!Requested(r)
BY DEF R!Regions, RP!Regions, R!PCIE_LINK_WIDTH_SPEED_CONTROL,
       RP!PCIE_LINK_WIDTH_SPEED_CONTROL, R!PORT_LOGIC_SPEED_CHANGE,
       RP!PORT_LOGIC_SPEED_CHANGE, R!PCIE_MISC_CONTROL_1_OFF,
       RP!PCIE_MISC_CONTROL_1_OFF, R!PCIE_DBI_RO_WR_EN, RP!PCIE_DBI_RO_WR_EN,
       R!GEN3_BIT, RP!GEN3_BIT, R!AtuFields, RP!AtuFields, R!Requested, RP!Requested

LEMMA SameField ==
  \A r, reg, h, l, n : R!HasField(r, reg, h, l, n) <=> RP!HasField(r, reg, h, l, n)
BY DEF R!HasField, RP!HasField, R!GENMASK, RP!GENMASK, R!ShiftLeft, RP!ShiftLeft,
       R!BitsOf, RP!BitsOf, R!Bits, RP!Bits

LEMMA SameReady == \A r, c : /\ R!LinkInPlace(r, c) <=> RP!LinkInPlace(r, c)
                             /\ R!PortReady(r, c) <=> RP!PortReady(r, c)
<1>1. ASSUME NEW r, NEW c PROVE R!LinkInPlace(r, c) <=> RP!LinkInPlace(r, c)
  BY SameField
     DEF R!LinkInPlace, RP!LinkInPlace, R!PCIE_PORT_LINK_CONTROL,
         RP!PCIE_PORT_LINK_CONTROL, R!PCIE_LINK_WIDTH_SPEED_CONTROL,
         RP!PCIE_LINK_WIDTH_SPEED_CONTROL, R!PCIE_PORT_FORCE_OFF,
         RP!PCIE_PORT_FORCE_OFF, R!PCI_CLASS_REVISION, RP!PCI_CLASS_REVISION
<1>2. ASSUME NEW r, NEW c PROVE R!PortReady(r, c) <=> RP!PortReady(r, c)
  BY <1>1, SameField
     DEF R!PortReady, RP!PortReady, R!PCIE_TIMER_CTRL_MAX_FUN_NUM_OFF,
         RP!PCIE_TIMER_CTRL_MAX_FUN_NUM_OFF, R!PCI_PRIMARY_BUS, RP!PCI_PRIMARY_BUS,
         R!PCI_INTERRUPT_LINE, RP!PCI_INTERRUPT_LINE, R!PCI_COMMAND, RP!PCI_COMMAND,
         R!PCI_BASE_ADDRESS_0, RP!PCI_BASE_ADDRESS_0, R!PCI_BASE_ADDRESS_1,
         RP!PCI_BASE_ADDRESS_1
<1>3. QED
  BY <1>1, <1>2

LEMMA SameComplete ==
  \A a, ks, port : R!Complete(a, ks, port) <=> RP!Complete(a, ks, port)
BY SameWindow, SameWords DEF R!Complete, RP!Complete

LEMMA SameInit == R!Init => RP!Init
BY DEF R!Init, RP!Init, AnyCall, NoCall, X16, R!PlainRegs, RP!PlainRegs,
       R!ClearedAtReset, RP!ClearedAtReset, R!RATE_SHADOW_SEL_MASK,
       RP!RATE_SHADOW_SEL_MASK, R!GENMASK, RP!GENMASK, R!AtuFields, RP!AtuFields,
       R!Regions, RP!Regions, R!PCI_COMMAND, RP!PCI_COMMAND, R!PCI_CLASS_REVISION,
       RP!PCI_CLASS_REVISION, R!PCI_BASE_ADDRESS_0, RP!PCI_BASE_ADDRESS_0,
       R!PCI_BASE_ADDRESS_1, RP!PCI_BASE_ADDRESS_1, R!PCI_PRIMARY_BUS,
       RP!PCI_PRIMARY_BUS, R!PCI_INTERRUPT_LINE, RP!PCI_INTERRUPT_LINE,
       R!PCIE_PORT_FORCE_OFF, RP!PCIE_PORT_FORCE_OFF, R!PCIE_PORT_LINK_CONTROL,
       RP!PCIE_PORT_LINK_CONTROL, R!PCIE_TIMER_CTRL_MAX_FUN_NUM_OFF,
       RP!PCIE_TIMER_CTRL_MAX_FUN_NUM_OFF, R!PCIE_LINK_WIDTH_SPEED_CONTROL,
       RP!PCIE_LINK_WIDTH_SPEED_CONTROL, R!PCIE_MISC_CONTROL_1_OFF,
       RP!PCIE_MISC_CONTROL_1_OFF, R!PORT_LOGIC_SPEED_CHANGE,
       RP!PORT_LOGIC_SPEED_CHANGE, R!PCI_STATUS_ERRORS, RP!PCI_STATUS_ERRORS

LEMMA SameSpeedChangeEnds == R!SpeedChangeEnds => RP!SpeedChangeEnds
BY SameWords
   DEF R!SpeedChangeEnds, RP!SpeedChangeEnds, R!SpeedChange, RP!SpeedChange,
       R!fixed, RP!fixed, R!driver, RP!driver

-----------------------------------------------------------------------------
(***************************************************************************)
(* The course of a boot.                                                   *)
(***************************************************************************)
LEMMA InitBootInv == SystemInit => BootInv
BY PlatformAssumption
   DEF SystemInit, Init, BootInv, AfterTables, InLoopOrLater, Ports, NumPorts

\* What each kind of step does to the variables of Platform.
LEMMA BootSteps ==
  ASSUME [SystemNext]_allVars
  PROVE  Program \/ Restart \/ UNCHANGED vars
<1>1. CASE Boot
  BY <1>1 DEF Boot, Outside, CallSetupRc, Enter, Setup, Return, Program
<1>2. CASE Hardware
  BY <1>2 DEF Hardware, OtherSpeedChangeEnds
<1>3. QED
  BY <1>1, <1>2 DEF SystemNext, allVars

LEMMA NextBootInv ==
  ASSUME BootInv, [SystemNext]_allVars
  PROVE  BootInv'
<1> USE DEF BootInv, InLoopOrLater, AfterTables, links
<1>0. build.mode \in 0 .. 3 /\ build.dpu \in BOOLEAN
  BY DEF AllBuilds, LinkModes
<1>1. CASE InstanceSubsystem \/ AssertPhyReset
  BY <1>1 DEF InstanceSubsystem, AssertPhyReset, Goto, memory, locals
<1>2. CASE ReleaseCore
  BY <1>2 DEF ReleaseCore, memory, NumPorts
<1>3. CASE CoresReleased \/ ReleasePhy \/ CallUdelay
  BY <1>3 DEF CoresReleased, ReleasePhy, CallUdelay, Goto, memory, locals
<1>4. CASE PollUdelay
  BY <1>4 DEF PollUdelay, AfterUdelay, memory, NumPorts
<1>5. CASE SubsysLinkInitPre
  <2>1. [build EXCEPT !.mode = link_mode] = build
    BY <1>5 DEF SubsysLinkInitPre, Goto, AllBuilds
  <2>2. QED
    BY <1>5, <2>1 DEF SubsysLinkInitPre, Goto, locals
<1>6. CASE SetupRc
  <2>1. pc = "loop" /\ i < NumPorts /\ controllers[controller].active
        /\ controller' = controller + 1 /\ i' = i + 1
        /\ UNCHANGED <<pc, memory, case, ltssm>>
    BY <1>6 DEF SetupRc
  <2>2. controller = i /\ Table(build)[controller].active
    BY <2>1
  <2>3. \A p \in Ports : p < controller + 1 => p < controller \/ p = controller
    BY DEF Ports, NumPorts
  <2>4. QED
    BY <2>1, <2>2, <2>3 DEF memory, NumPorts
<1>7. CASE SkipInactive
  BY <1>7 DEF SkipInactive, memory, NumPorts
<1>8. CASE LoopEnds
  BY <1>0, <1>8 DEF LoopEnds, Goto, memory
<1>9. CASE StartLtssm
  <2>1. PostPort(case) \in Ports
    BY <1>0, <1>9 DEF StartLtssm, PostPort, LINK_MODE_4_4_4_4, LINK_MODE_8_4_0_4,
       LINK_MODE_8_8_0_0, LINK_MODE_16_0_0_0, X4_0, X4_1, X8, X16, Ports, NumPorts
  <2>2. QED
    BY <1>0, <1>9, <2>1 DEF StartLtssm, LeavesSwitch, LINK_MODE_16_0_0_0, memory
<1>10. CASE Restart
  BY <1>10 DEF Restart, Goto, Ports, NumPorts
<1>11. CASE UNCHANGED vars
  BY <1>11 DEF vars, memory, locals
<1>12. QED
  BY <1>1, <1>2, <1>3, <1>4, <1>5, <1>6, <1>7, <1>8, <1>9, <1>10, <1>11, BootSteps
     DEF Program

\* The loop is at a controller of the prefix when it calls dw_pcie_setup_rc, and
\* past all of them at its end.
LEMMA LoopIsAt ==
  ASSUME BootInv
  PROVE  /\ Table(build)[controller].active /\ controller \in Ports =>
              controller \in ActivePrefix(build)
         /\ pc \in {"post", "done"} => \A p \in ActivePrefix(build) : p < controller
<1> USE DEF BootInv, ActivePrefix, Ports, NumPorts
<1>1. ASSUME Table(build)[controller].active, controller \in Ports
      PROVE  controller \in ActivePrefix(build)
  <2>1. \A q \in 0 .. controller : q < controller \/ q = controller
    OBVIOUS
  <2>2. QED
    BY <1>1, <2>1
<1>2. ASSUME pc \in {"post", "done"}, NEW p \in ActivePrefix(build), ~(p < controller)
      PROVE  FALSE
  <2>1. controller < i /\ ~Table(build)[controller].active
    BY <1>2 DEF InLoopOrLater
  <2>2. controller \in 0 .. p
    BY <1>2
  <2>3. QED
    BY <1>2, <2>1, <2>2
<1>3. QED
  BY <1>1, <1>2

-----------------------------------------------------------------------------
(***************************************************************************)
(* What a step does to the registers of a controller.                      *)
(***************************************************************************)
\* The controller with the registers r ends a speed change and has s.
SpeedCleared(r, s) ==
  /\ s.regs = [r.regs EXCEPT ![RP!PCIE_LINK_WIDTH_SPEED_CONTROL] =
                 @ \ {RP!PORT_LOGIC_SPEED_CHANGE}]
  /\ s.gen3_sel = r.gen3_sel /\ s.gen3 = r.gen3 /\ s.atu = r.atu

CurrentEnds == R!SpeedChangeEnds /\ UNCHANGED <<vars, calling, others>>

LEMMA Kinds ==
  ASSUME [SystemNext]_allVars
  PROVE  \/ Setup \/ Enter \/ Return \/ Restart \/ CurrentEnds
         \/ \E p \in Ports : OtherSpeedChangeEnds(p)
         \/ Outside \/ UNCHANGED allVars
BY DEF SystemNext, Boot, CallSetupRc, Hardware, CurrentEnds

\* Steps outside the calls leave the registers alone.
LEMMA Idles ==
  ASSUME \/ Return \/ Restart \/ Outside \/ UNCHANGED allVars
  PROVE  UNCHANGED <<pci, bankOnWrite, regs, gen3_sel, gen3, atu, inUse, others, build>>
<1>1. CASE Return
  BY <1>1 DEF Return, registers, SetupRc, memory
<1>2. CASE Restart
  BY <1>2 DEF Restart, registers
<1>3. CASE Outside
  BY <1>3 DEF Outside, call, registers, InstanceSubsystem, AssertPhyReset, ReleaseCore,
     CoresReleased, ReleasePhy, CallUdelay, PollUdelay, SubsysLinkInitPre, SkipInactive,
     LoopEnds, StartLtssm, memory
<1>4. CASE UNCHANGED allVars
  BY <1>4 DEF allVars, vars, memory, call, registers
<1>5. QED
  BY <1>1, <1>2, <1>3, <1>4

LEMMA OfTypes ==
  ASSUME DriverInv, LeftInv, NEW p \in Ports
  PROVE  Of(p) \in ControllerRegs
<1>1. Current \in ControllerRegs
  BY DEF Current, ControllerRegs, DriverInv, RP!TypeOK
<1>2. QED
  BY <1>1 DEF Of, LeftInv

LEMMA RegisterSteps ==
  ASSUME BootInv, DriverInv, LeftInv, [SystemNext]_allVars, NEW p \in Ports
  PROVE  /\ build' = build
         /\ \/ Of(p)' = Of(p)
            \/ SpeedCleared(Of(p), Of(p)')
            \/ /\ p = pci.port /\ Setup /\ RP!Driver
               /\ pci' = pci /\ Of(p) = Current /\ Of(p)' = Current'
<1>1. CASE Setup
  <2>1. RP!Driver /\ pci' = pci /\ others' = others /\ build' = build
    BY <1>1, SameDriver
       DEF Setup, vars, memory, R!Driver, R!ReadRegister, R!WriteBack, R!WriteRegister,
           R!WriteAtuRegister, R!fixed
  <2>2. QED
    BY <1>1, <2>1 DEF Of
<1>2. CASE Enter
  <2>1. controller \in Ports /\ build' = build
    BY <1>2 DEF Enter, BootInv, InLoopOrLater, Ports, NumPorts, vars, memory
  <2>2. pci'.port = controller /\ others' = [q \in Ports \ {controller} |-> Of(q)]
    BY <1>2 DEF Enter
  <2>3. CASE p = controller
    <3>1. Of(p)' = Current' /\ Of(p) \in ControllerRegs
      BY <2>2, <2>3, OfTypes DEF Of
    <3>2. Current' = [regs |-> Of(p).regs, gen3_sel |-> Of(p).gen3_sel,
                      gen3 |-> Of(p).gen3, atu |-> Of(p).atu]
      BY <1>2, <2>3 DEF Enter, Current
    <3>3. QED
      BY <2>1, <3>1, <3>2 DEF ControllerRegs
  <2>4. CASE p # controller
    BY <2>1, <2>2, <2>4 DEF Of
  <2>5. QED
    BY <2>3, <2>4
<1>3. CASE Return \/ Restart \/ Outside \/ UNCHANGED allVars
  BY <1>3, Idles DEF Of, Current
<1>4. CASE CurrentEnds
  <2>1. /\ pci' = pci /\ others' = others /\ build' = build
        /\ UNCHANGED <<gen3_sel, gen3, atu>>
        /\ regs' = [regs EXCEPT ![RP!PCIE_LINK_WIDTH_SPEED_CONTROL] =
                       @ \ {RP!PORT_LOGIC_SPEED_CHANGE}]
    BY <1>4, SameSpeedChangeEnds
       DEF CurrentEnds, RP!SpeedChangeEnds, RP!fixed, vars, memory
  <2>2. SpeedCleared(Current, Current')
    BY <2>1 DEF Current, SpeedCleared
  <2>3. QED
    BY <2>1, <2>2 DEF Of
<1>5. ASSUME NEW q \in Ports, OtherSpeedChangeEnds(q)
      PROVE  build' = build /\ (Of(p)' = Of(p) \/ SpeedCleared(Of(p), Of(p)'))
  <2>1. /\ q # pci.port /\ pci' = pci /\ build' = build
        /\ Current' = Current
        /\ others' = [others EXCEPT ![q].regs[RP!PCIE_LINK_WIDTH_SPEED_CONTROL] =
                        @ \ {RP!PORT_LOGIC_SPEED_CHANGE}]
    BY <1>5, SameWords DEF OtherSpeedChangeEnds, vars, memory, call, Current
  <2>2. others \in [Ports \ {pci.port} -> ControllerRegs]
    BY DEF LeftInv
  <2>3. \A m \in Ports \ {pci.port, q} : others'[m] = others[m]
    BY <2>1, <2>2
  <2>4. others'[q] = [others[q] EXCEPT !.regs =
                       [others[q].regs EXCEPT ![RP!PCIE_LINK_WIDTH_SPEED_CONTROL] =
                          @ \ {RP!PORT_LOGIC_SPEED_CHANGE}]]
    BY <2>1, <2>2, Zenon
  <2>5. others[q] \in ControllerRegs
    BY <2>1, <2>2
  <2>6. SpeedCleared(others[q], others'[q])
    BY <2>4, <2>5 DEF SpeedCleared, ControllerRegs
  <2>7. QED
    BY <2>1, <2>3, <2>6 DEF Of
<1>6. QED
  BY <1>1, <1>2, <1>3, <1>4, <1>5, Kinds

-----------------------------------------------------------------------------
(***************************************************************************)
(* Calls.                                                                  *)
(***************************************************************************)
LEMMA ActiveIsCall ==
  ASSUME NEW b \in AllBuilds, NEW p \in Ports, Table(b)[p].active
  PROVE  [port |-> p, lane_num |-> Table(b)[p].lane_num, order |-> Table(b)[p].order]
           \in AnyCall
<1>1. Table(b)[p] \in Settings /\ Table(b)[p] # Unused
  BY TableType
<1>2. \E lanes \in {0, 4, 8, 16}, ord \in {0, 1, 2, 3, NO_ORDER} :
        Table(b)[p] = Setting(lanes, ord) /\ (lanes = 0 <=> ord = NO_ORDER)
  <2>1. \A q \in Ports :
          OnlyFour(q)[p] = IF p = q THEN Setting(4, 0) ELSE Setting(0, NO_ORDER)
    BY OnlyFourEntries
  <2>2. p \in {0, 1, 2, 3}
    BY DEF Ports, NumPorts
  <2>3. QED
    BY <2>1, <2>2, TableCases, CaseEntries DEF NO_ORDER
<1>3. PICK lanes \in {0, 4, 8, 16}, ord \in {0, 1, 2, 3, NO_ORDER} :
        Table(b)[p] = Setting(lanes, ord) /\ (lanes = 0 <=> ord = NO_ORDER)
  BY <1>2
<1>4. ord # NO_ORDER
  BY <1>3, SettingFields
<1>5. QED
  BY <1>3, <1>4, SettingFields DEF AnyCall, Ports, NumPorts

LEMMA CallLength == \A c : Len(RP!dw_pcie_setup_rc(c)) = 41
<1>1. \A c : RP!ProgramIs(c)
  BY Assumptions, RP!ProgramAt
<1>2. ASSUME NEW c PROVE Len(RP!dw_pcie_setup_rc(c)) = 41
  BY <1>1, Zenon DEF RP!ProgramIs
<1>3. QED
  BY <1>2

LEMMA FinishedAt ==
  ASSUME DriverInv, R!Finished
  PROVE  ip = 42
<1>1. Len(RP!Program) = 41 /\ Len(R!Program) = 41
  BY CallLength, SameProgram DEF R!Program, RP!Program
<1>2. ip \in 1 .. 42
  BY <1>1 DEF DriverInv, RP!TypeOK
<1>3. ~(ip <= 41)
  BY <1>1 DEF R!Finished, R!Running
<1>4. QED
  BY <1>2, <1>3

LEMMA InitCallInv == SystemInit => CallInv
BY DEF SystemInit, R!Init, CallInv

LEMMA NextCallInv ==
  ASSUME BootInv, CallInv, DriverInv, [SystemNext]_allVars
  PROVE  CallInv'
<1> USE DEF CallInv
<1>1. CASE Setup
  BY <1>1, SameDriver
     DEF Setup, vars, memory, locals, R!Driver, R!ReadRegister, R!WriteBack,
         R!WriteRegister, R!WriteAtuRegister, R!fixed, R!hardware
<1>2. CASE Enter
  BY <1>2 DEF Enter, vars, memory, locals, BootInv, AfterTables, InLoopOrLater
<1>3. CASE Return
  <2>1. ip = 42
    BY <1>3, FinishedAt DEF Return
  <2>2. ~fetched
    BY <2>1 DEF DriverInv, RP!FetchedInv
  <2>3. QED
    BY <1>3, <2>2 DEF Return, registers
<1>4. CASE Restart
  BY <1>4 DEF Restart, registers
<1>5. CASE CurrentEnds
  BY <1>5 DEF CurrentEnds, R!SpeedChangeEnds, R!fixed, R!driver, vars, memory, locals
<1>6. ASSUME NEW p \in Ports, OtherSpeedChangeEnds(p) PROVE CallInv'
  BY <1>6 DEF OtherSpeedChangeEnds, call, vars, memory, locals
<1>7. CASE Outside
  BY <1>7 DEF Outside, call, registers
<1>8. CASE UNCHANGED allVars
  BY <1>8 DEF allVars, vars, call, registers, memory, locals
<1>9. QED
  BY <1>1, <1>2, <1>3, <1>4, <1>5, <1>6, <1>7, <1>8, Kinds

-----------------------------------------------------------------------------
(***************************************************************************)
(* The registers of the controller that is being set up.                   *)
(***************************************************************************)
LEMMA NextDriverInv ==
  ASSUME DriverInv, [RP!Next]_(RP!vars)
  PROVE  DriverInv'
<1>1. RP!TypeOK'
  BY Assumptions, RP!NextTypeOK DEF DriverInv
<1>2. RP!FetchedInv'
  BY Assumptions, RP!NextFetchedInv DEF DriverInv
<1>3. RP!UnlockedInv'
  BY Assumptions, RP!NextUnlockedInv DEF DriverInv
<1>4. RP!FieldsInv'
  BY Assumptions, RP!NextFieldsInv DEF DriverInv
<1>5. RP!RatesInv'
  BY Assumptions, RP!NextRatesInv DEF DriverInv
<1>6. RP!AtuInv'
  BY Assumptions, RP!NextAtuInv DEF DriverInv
<1>7. QED
  BY <1>1, <1>2, <1>3, <1>4, <1>5, <1>6 DEF DriverInv

\* A set-up begins: also over what earlier ones have left.
AtFirstAccess ==
  /\ RP!TypeOK
  /\ ip = 1 /\ ~fetched /\ inUse = {}
  /\ Left(pci.port, Current)

LEMMA FirstAccess == AtFirstAccess => DriverInv
<1> SUFFICES ASSUME AtFirstAccess PROVE DriverInv
  OBVIOUS
<1> USE DEF AtFirstAccess
<1>1. RP!FetchedInv /\ RP!UnlockedInv
  BY DEF RP!FetchedInv, RP!UnlockedInv
<1>2. RP!FieldsInv
  BY DEF RP!FieldsInv, Left, Current
<1>3. RP!RatesInv
  BY DEF RP!RatesInv, Left, Current
<1>4. RP!AtuInv
  <2>1. ASSUME NEW k \in RP!Regions, NEW j \in 1 .. 7
        PROVE  /\ ~(ip > 13 + 8 * k + j)
               /\ atu[k].enable =>
                    atu[k][RP!AtuFields[j]] =
                      RP!Registers(RP!Window(pci.port, k))[RP!AtuFields[j]]
    BY <2>1 DEF Left, Current, RP!Complete, RP!Regions
  <2>2. ASSUME NEW k \in RP!Regions PROVE ~(ip > 21 + 8 * k) /\ k \notin inUse
    BY DEF RP!Regions
  <2>3. QED
    BY <2>1, <2>2 DEF RP!AtuInv
<1>5. QED
  BY <1>1, <1>2, <1>3, <1>4 DEF DriverInv

\* The steps that RootPort has too, and those that begin or leave a set-up.
LEMMA DriverSteps ==
  ASSUME [SystemNext]_allVars
  PROVE  [RP!Next]_(RP!vars) \/ Enter \/ Return \/ Restart
<1> USE DEF RP!vars, RP!fixed, RP!driver, RP!hardware
<1>1. CASE Setup
  BY <1>1, SameDriver DEF Setup, RP!Next
<1>2. CASE CurrentEnds
  BY <1>2, SameSpeedChangeEnds DEF CurrentEnds, RP!Next, RP!Controller
<1>3. ASSUME NEW p \in Ports, OtherSpeedChangeEnds(p) PROVE UNCHANGED RP!vars
  BY <1>3 DEF OtherSpeedChangeEnds, call
<1>4. CASE Outside \/ UNCHANGED allVars
  BY <1>4 DEF Outside, call, registers, allVars
<1>5. QED
  BY <1>1, <1>2, <1>3, <1>4, Kinds

LEMMA EnterIsFirst ==
  ASSUME BootInv, CallInv, DriverInv, LeftInv, Enter
  PROVE  AtFirstAccess'
<1>1. controller \in Ports /\ Table(build)[controller].active /\ build' = build
  BY DEF Enter, BootInv, AfterTables, InLoopOrLater, Ports, NumPorts, vars, memory
<1>2. pci' = [port |-> controller, lane_num |-> Table(build)[controller].lane_num,
              order |-> Table(build)[controller].order]
  BY DEF Enter, BootInv, AfterTables, InLoopOrLater
<1>3. pci' \in AnyCall
  BY <1>1, <1>2, ActiveIsCall DEF BootInv
<1>4. /\ regs' = Of(controller).regs /\ gen3_sel' = Of(controller).gen3_sel
      /\ gen3' = Of(controller).gen3 /\ atu' = Of(controller).atu
      /\ UNCHANGED <<bankOnWrite, ip, fetched, val, inUse>>
      /\ ip = 1 /\ ~fetched /\ inUse = {}
  BY DEF Enter, CallInv
<1>5. Of(controller) \in ControllerRegs /\ Left(controller, Of(controller))
  BY <1>1, OfTypes DEF LeftInv
<1>6. Len(RP!Program') = 41
  BY CallLength DEF RP!Program
<1>7. RP!TypeOK'
  BY <1>3, <1>4, <1>5, <1>6 DEF RP!TypeOK, DriverInv, ControllerRegs
<1>8. Left(pci.port, Current)'
  <2>1. pci'.port = controller
    BY <1>2
  <2>2. QED
    BY <1>1, <1>4, <1>5, <2>1 DEF Left, Current, InPlace
<1>9. QED
  BY <1>4, <1>7, <1>8 DEF AtFirstAccess

LEMMA LeaveIsFirst ==
  ASSUME BootInv, CallInv, DriverInv, LeftInv, [SystemNext]_allVars, Return \/ Restart
  PROVE  AtFirstAccess'
<1>1. /\ UNCHANGED <<pci, bankOnWrite, regs, gen3_sel, gen3, atu, inUse, others, build>>
      /\ ip' = 1 /\ val' = {}
  BY Idles DEF Return, Restart
<1>2. fetched' = FALSE
  <2>1. CASE Return
    <3>1. fetched' = fetched /\ ip = 42 /\ fetched \in BOOLEAN
      BY <2>1, FinishedAt DEF Return, DriverInv, RP!TypeOK
    <3>2. QED
      BY <3>1 DEF DriverInv, RP!FetchedInv
  <2>2. CASE Restart
    BY <2>2 DEF Restart
  <2>3. QED
    BY <2>1, <2>2
<1>3. pci \in AnyCall /\ pci.port \in Ports
  BY DEF DriverInv, RP!TypeOK, AnyCall, Ports, NumPorts
<1>4. Left(pci.port, Current)
  BY <1>3 DEF LeftInv, Of
<1>5. Left(pci.port, Current)'
  BY <1>1, <1>4 DEF Left, Current, InPlace
<1>6. Len(RP!Program') = 41
  BY CallLength DEF RP!Program
<1>7. RP!TypeOK'
  <2>1. ip' \in 1 .. Len(RP!Program') + 1
    BY <1>1, <1>6
  <2>2. fetched' \in BOOLEAN
    BY <1>2
  <2>3. val' \in RP!AnyWord
    BY <1>1 DEF RP!AnyWord
  <2>4. RP!TypeOK
    BY DEF DriverInv
  <2>5. QED
    BY <1>1, <2>1, <2>2, <2>3, <2>4 DEF RP!TypeOK
<1>8. QED
  BY <1>1, <1>2, <1>5, <1>7 DEF AtFirstAccess, CallInv

LEMMA NextDriver ==
  ASSUME BootInv, CallInv, DriverInv, LeftInv, [SystemNext]_allVars
  PROVE  DriverInv'
<1>1. AtFirstAccess' => DriverInv'
  BY FirstAccess, PTL
<1>2. QED
  BY <1>1, NextDriverInv, DriverSteps, EnterIsFirst, LeaveIsFirst

-----------------------------------------------------------------------------
(***************************************************************************)
(* What the steps preserve of the registers of a controller.               *)
(***************************************************************************)
LEMMA ClearedKeeps ==
  ASSUME NEW p, NEW r \in ControllerRegs, NEW s, SpeedCleared(r, s)
  PROVE  /\ \A reg \in RP!PlainRegs :
              /\ s.regs[reg] \subseteq r.regs[reg]
              /\ s.regs[reg] \ {17} = r.regs[reg] \ {17}
              /\ reg # RP!PCIE_LINK_WIDTH_SPEED_CONTROL => s.regs[reg] = r.regs[reg]
         /\ ~RP!Requested(s.regs)
         /\ \A c : RP!LinkInPlace(s.regs, c) <=> RP!LinkInPlace(r.regs, c)
         /\ \A c : RP!PortReady(s.regs, c) <=> RP!PortReady(r.regs, c)
         /\ Left(p, r) => Left(p, s)
         /\ InPlace(p, r) => InPlace(p, s)
<1>0. r.regs \in [RP!PlainRegs -> RP!AnyWord]
  BY DEF ControllerRegs
<1>1. \A reg \in RP!PlainRegs :
              /\ s.regs[reg] \subseteq r.regs[reg]
              /\ s.regs[reg] \ {17} = r.regs[reg] \ {17}
              /\ reg # RP!PCIE_LINK_WIDTH_SPEED_CONTROL => s.regs[reg] = r.regs[reg]
  BY <1>0 DEF SpeedCleared, RP!PORT_LOGIC_SPEED_CHANGE
<1>2. ~RP!Requested(s.regs)
  BY <1>0 DEF SpeedCleared, RP!Requested, RP!PlainRegs
<1> USE Assumptions, RP!RegisterNumbers
<1>3. \A n : RP!HasField(s.regs, RP!PCIE_LINK_WIDTH_SPEED_CONTROL, 12, 8, n) <=>
              RP!HasField(r.regs, RP!PCIE_LINK_WIDTH_SPEED_CONTROL, 12, 8, n)
  <2>1. RP!PCIE_LINK_WIDTH_SPEED_CONTROL \in RP!PlainRegs
    BY DEF RP!PlainRegs
  <2>2. s.regs[RP!PCIE_LINK_WIDTH_SPEED_CONTROL] \cap RP!GENMASK(12, 8)
          = r.regs[RP!PCIE_LINK_WIDTH_SPEED_CONTROL] \cap RP!GENMASK(12, 8)
    BY <1>1, <2>1 DEF RP!GENMASK
  <2>3. QED
    BY <2>2 DEF RP!HasField
<1>4. \A c : RP!LinkInPlace(s.regs, c) <=> RP!LinkInPlace(r.regs, c)
  <2>1. /\ s.regs[RP!PCIE_PORT_LINK_CONTROL] = r.regs[RP!PCIE_PORT_LINK_CONTROL]
        /\ s.regs[RP!PCIE_PORT_FORCE_OFF] = r.regs[RP!PCIE_PORT_FORCE_OFF]
        /\ s.regs[RP!PCI_CLASS_REVISION] = r.regs[RP!PCI_CLASS_REVISION]
    BY <1>1
  <2>2. QED
    BY <1>3, <2>1 DEF RP!LinkInPlace, RP!HasField
<1>5. \A c : RP!PortReady(s.regs, c) <=> RP!PortReady(r.regs, c)
  <2>1. /\ s.regs[RP!PCIE_TIMER_CTRL_MAX_FUN_NUM_OFF]
             = r.regs[RP!PCIE_TIMER_CTRL_MAX_FUN_NUM_OFF]
        /\ s.regs[RP!PCI_PRIMARY_BUS] = r.regs[RP!PCI_PRIMARY_BUS]
        /\ s.regs[RP!PCI_INTERRUPT_LINE] = r.regs[RP!PCI_INTERRUPT_LINE]
        /\ s.regs[RP!PCI_COMMAND] = r.regs[RP!PCI_COMMAND]
        /\ s.regs[RP!PCI_BASE_ADDRESS_0] = r.regs[RP!PCI_BASE_ADDRESS_0]
        /\ s.regs[RP!PCI_BASE_ADDRESS_1] = r.regs[RP!PCI_BASE_ADDRESS_1]
    BY <1>1
  <2>2. QED
    BY <1>4, <2>1 DEF RP!PortReady, RP!HasField
<1>6. Left(p, r) => Left(p, s)
  <2>1. s.regs[RP!PCIE_TIMER_CTRL_MAX_FUN_NUM_OFF]
             = r.regs[RP!PCIE_TIMER_CTRL_MAX_FUN_NUM_OFF]
    BY <1>1
  <2>2. QED
    BY <1>2, <2>1 DEF Left, SpeedCleared
<1>7. InPlace(p, r) => InPlace(p, s)
  <2> SUFFICES ASSUME InPlace(p, r) PROVE InPlace(p, s)
    OBVIOUS
  <2> DEFINE c == Table(build)[p]
  <2>0. RP!LinkInPlace(r.regs, c)
    BY DEF InPlace
  <2>1. RP!LinkInPlace(s.regs, c)
    <3> HIDE DEF c
    <3>1. QED
      BY <1>4, <2>0
  <2>2. \A k \in RP!Regions : s.atu[k].enable
    BY DEF InPlace, SpeedCleared
  <2>3. QED
    BY <2>1, <2>2 DEF InPlace
<1>8. QED
  BY <1>1, <1>2, <1>4, <1>5, <1>6, <1>7

\* The controller that is being set up is the one of the call.
LEMMA CallIsOurs ==
  ASSUME BootInv, CallInv, calling
  PROVE  /\ pci.port \in Ports /\ pci.port = controller
         /\ pci.port \in ActivePrefix(build)
         /\ Of(pci.port) = Current
         /\ \A r : RP!LinkInPlace(r, Table(build)[pci.port]) <=> RP!LinkInPlace(r, pci)
         /\ \A r : RP!PortReady(r, Table(build)[pci.port]) <=> RP!PortReady(r, pci)
<1>1. /\ pci.port = controller /\ controller \in Ports
      /\ Table(build)[controller].active
      /\ pci.lane_num = Table(build)[controller].lane_num
      /\ pci.order = Table(build)[controller].order
  BY DEF CallInv, BootInv, InLoopOrLater, Ports, NumPorts
<1>2. \A r : RP!LinkInPlace(r, Table(build)[pci.port]) <=> RP!LinkInPlace(r, pci)
  BY <1>1 DEF RP!LinkInPlace
<1>3. \A r : RP!PortReady(r, Table(build)[pci.port]) <=> RP!PortReady(r, pci)
  BY <1>2 DEF RP!PortReady
<1>4. pci.port \in ActivePrefix(build)
  BY <1>1, LoopIsAt
<1>5. QED
  BY <1>1, <1>2, <1>3, <1>4 DEF Of

LEMMA InPlaceStays ==
  ASSUME BootInv, CallInv, DriverInv, calling, RP!Driver, InPlace(pci.port, Current),
         build' = build, pci' = pci
  PROVE  InPlace(pci.port, Current)'
<1>1. [RP!Next]_(RP!vars)
  BY DEF RP!Next
<1>2. RP!LinkInPlace(regs, pci) /\ \A k \in RP!Regions : atu[k].enable
  BY CallIsOurs DEF InPlace, Current
<1>3. RP!LinkInPlace(regs, pci)'
  BY <1>1, <1>2, Assumptions, RP!LinkStays DEF DriverInv
<1>4. \A k \in RP!Regions : atu'[k].enable
  BY <1>1, <1>2, Assumptions, RP!EnableStays DEF DriverInv
<1>5. RP!LinkInPlace(regs', Table(build)[pci.port])
  BY <1>3, CallIsOurs
<1>6. QED
  BY <1>4, <1>5 DEF InPlace, Current

-----------------------------------------------------------------------------
(***************************************************************************)
(* What set-ups leave.                                                     *)
(***************************************************************************)
LEMMA NextOthersType ==
  ASSUME BootInv, DriverInv, LeftInv, [SystemNext]_allVars
  PROVE  others' \in [Ports \ {pci'.port} -> ControllerRegs]
<1>0. others \in [Ports \ {pci.port} -> ControllerRegs]
  BY DEF LeftInv
<1>1. CASE Setup
  BY <1>0, <1>1, SameDriver
     DEF Setup, R!Driver, R!ReadRegister, R!WriteBack, R!WriteRegister,
         R!WriteAtuRegister, R!fixed
<1>2. CASE Enter
  <2>1. \A p \in Ports : Of(p) \in ControllerRegs
    BY OfTypes
  <2>2. pci'.port = controller /\ others' = [p \in Ports \ {controller} |-> Of(p)]
    BY <1>2 DEF Enter
  <2>3. QED
    BY <2>1, <2>2
<1>3. CASE Return \/ Restart \/ Outside \/ UNCHANGED allVars
  BY <1>0, <1>3, Idles
<1>4. CASE CurrentEnds
  BY <1>0, <1>4 DEF CurrentEnds, R!SpeedChangeEnds, R!fixed
<1>5. ASSUME NEW q \in Ports, OtherSpeedChangeEnds(q)
      PROVE  others' \in [Ports \ {pci'.port} -> ControllerRegs]
  <2>1. /\ q # pci.port /\ pci' = pci
        /\ others' = [others EXCEPT ![q].regs[RP!PCIE_LINK_WIDTH_SPEED_CONTROL] =
                        @ \ {RP!PORT_LOGIC_SPEED_CHANGE}]
    BY <1>5, SameWords DEF OtherSpeedChangeEnds, call
  <2>2. others[q] \in ControllerRegs
    BY <1>0, <2>1
  <2> DEFINE w == [others[q].regs EXCEPT ![RP!PCIE_LINK_WIDTH_SPEED_CONTROL] =
                     @ \ {RP!PORT_LOGIC_SPEED_CHANGE}]
             s == [others[q] EXCEPT !.regs = w]
  <2>3. others' = [others EXCEPT ![q] = s]
    BY <2>1
  <2>4. w \in [RP!PlainRegs -> RP!AnyWord]
    BY <2>2 DEF ControllerRegs, RP!AnyWord
  <2>5. s \in ControllerRegs
    <3> HIDE DEF w
    <3>1. QED
      BY <2>2, <2>4 DEF ControllerRegs
  <2>6. QED
    <3> HIDE DEF s
    <3>1. QED
      BY <1>0, <2>1, <2>3, <2>5
<1>6. QED
  BY <1>1, <1>2, <1>3, <1>4, <1>5, Kinds

LEMMA RequestInPlace ==
  ASSUME LeftInv, pci.port \in Ports, RP!Requested(regs)
  PROVE  InPlace(pci.port, Current)
<1>1. Left(pci.port, Current)
  BY DEF LeftInv, Of
<1>2. RP!Requested(Current.regs)
  BY DEF Current
<1>3. QED
  BY <1>1, <1>2 DEF Left

\* A request of a speed change finds the link in place.
LEMMA RequestFinds ==
  ASSUME BootInv, CallInv, DriverInv, LeftInv, PendingInv, Setup, RP!Requested(regs')
  PROVE  InPlace(pci.port, Current)
<1>0. RP!Driver /\ [RP!Next]_(RP!vars) /\ calling
  BY SameDriver DEF Setup, RP!Next
<1>1. CASE RP!Requested(regs)
  BY <1>0, <1>1, CallIsOurs, RequestInPlace
<1>2. CASE ip = 40
  <2>1. RP!PortReady(regs, pci)
    BY <1>2, Assumptions, RP!ReadyPastClass DEF DriverInv
  <2>2. RP!LinkInPlace(regs, Table(build)[pci.port])
    BY <1>0, <2>1, CallIsOurs DEF RP!PortReady
  <2>3. \A k \in RP!Regions : atu[k].enable
    BY <1>2 DEF DriverInv, RP!AtuInv, RP!Regions
  <2>4. QED
    BY <2>2, <2>3 DEF InPlace, Current
<1>3. CASE ip = 4 /\ fetched /\ RP!PORT_LOGIC_SPEED_CHANGE \in val
  BY <1>3 DEF PendingInv
<1>4. QED
  <2>1. CASE ~RP!Requested(regs)
    BY <1>0, <1>2, <1>3, <2>1, Assumptions, RP!RequestSources
       DEF DriverInv, RP!SpeedChange
  <2>2. QED
    BY <1>1, <2>1

LEMMA NextLeftInv ==
  ASSUME BootInv, CallInv, DriverInv, LeftInv, PendingInv, [SystemNext]_allVars
  PROVE  LeftInv'
<1>1. others' \in [Ports \ {pci'.port} -> ControllerRegs]
  BY NextOthersType
<1>2. ASSUME NEW p \in Ports PROVE Left(p, Of(p))'
  <2>0. build' = build
    BY RegisterSteps
  <2>1. CASE Of(p)' = Of(p)
    BY <2>0, <2>1 DEF LeftInv, Left, InPlace
  <2>2. CASE SpeedCleared(Of(p), Of(p)')
    <3>1. Left(p, Of(p)')
      BY <2>2, ClearedKeeps, OfTypes DEF LeftInv
    <3>2. QED
      BY <2>0, <3>1 DEF Left, InPlace
  <2>3. CASE /\ p = pci.port /\ Setup /\ RP!Driver
             /\ pci' = pci /\ Of(p) = Current /\ Of(p)' = Current'
    <3>1. DriverInv'
      BY NextDriver
    <3>2. /\ gen3_sel' \in {{}, {24}}
          /\ gen3_sel' = {24} => RP!GEN3_BIT \in gen3'[0]
      BY <3>1 DEF DriverInv, RP!RatesInv
    <3>3. RP!Complete(atu', {k \in RP!Regions : atu'[k].enable}, p)
      BY <2>3, <3>1 DEF DriverInv, RP!AtuInv, RP!Complete
    <3>4. RP!Requested(regs') => InPlace(p, Current)'
      BY <2>0, <2>3, RequestFinds, InPlaceStays DEF Setup
    <3>5. QED
      BY <2>3, <3>2, <3>3, <3>4 DEF Left, Current
  <2>4. QED
    BY <2>1, <2>2, <2>3, RegisterSteps
<1>3. QED
  BY <1>1, <1>2 DEF LeftInv

LEMMA NextPendingInv ==
  ASSUME BootInv, CallInv, DriverInv, LeftInv, PendingInv, [SystemNext]_allVars
  PROVE  PendingInv'
<1> SUFFICES ASSUME (fetched /\ ip = 4 /\ RP!PORT_LOGIC_SPEED_CHANGE \in val)'
             PROVE  InPlace(pci.port, Current)'
  BY DEF PendingInv
<1>0. pci.port \in Ports /\ Of(pci.port) = Current
  BY DEF DriverInv, RP!TypeOK, AnyCall, Ports, NumPorts, Of
<1>1. CASE Setup
  <2>1. RP!Driver /\ [RP!Next]_(RP!vars) /\ calling /\ build' = build
    BY <1>1, SameDriver DEF Setup, RP!Next, vars, memory
  <2>2. pci' = pci
    BY <1>1 DEF Setup, R!Driver, R!ReadRegister, R!WriteBack, R!WriteRegister,
       R!WriteAtuRegister, R!fixed
  <2>3. InPlace(pci.port, Current)
    <3>1. RP!SpeedChange \/ (fetched /\ ip = 4 /\ RP!PORT_LOGIC_SPEED_CHANGE \in val)
      BY <2>1, Assumptions, RP!PendingSources DEF DriverInv
    <3>2. QED
      BY <1>0, <3>1, RequestInPlace DEF PendingInv, RP!SpeedChange
  <2>4. QED
    BY <2>1, <2>2, <2>3, InPlaceStays
<1>2. CASE Enter \/ Return \/ Restart
  BY <1>2 DEF Enter, Return, Restart, CallInv
<1>3. CASE CurrentEnds \/ (\E p \in Ports : OtherSpeedChangeEnds(p))
           \/ Outside \/ UNCHANGED allVars
  <2>1. UNCHANGED <<pci, ip, fetched, val>>
    BY <1>3 DEF CurrentEnds, R!SpeedChangeEnds, R!fixed, R!driver, OtherSpeedChangeEnds,
       Outside, call, allVars
  <2>2. InPlace(pci.port, Current)
    BY <2>1 DEF PendingInv
  <2>3. PICK p \in Ports : p = pci.port
    BY <1>0
  <2>4. Of(p) = Current /\ Of(p)' = Current'
    BY <2>1, <2>3 DEF Of
  <2>5. build' = build
    BY RegisterSteps
  <2>6. CASE Of(p)' = Of(p)
    BY <2>1, <2>2, <2>4, <2>5, <2>6 DEF InPlace
  <2>7. CASE SpeedCleared(Of(p), Of(p)')
    <3>1. InPlace(p, Current')
      BY <2>2, <2>3, <2>4, <2>7, ClearedKeeps, OfTypes
    <3>2. QED
      BY <2>1, <2>3, <2>5, <3>1 DEF InPlace
  <2>8. QED
    BY <1>1, <2>6, <2>7, RegisterSteps
<1>4. QED
  BY <1>1, <1>2, <1>3, Kinds

-----------------------------------------------------------------------------
(***************************************************************************)
(* Started links and ready ports.                                          *)
(***************************************************************************)
LEMMA ReadyIsInPlace ==
  ASSUME NEW p \in Ports, Ready(p)
  PROVE  InPlace(p, Of(p))
<1>1. RP!PortReady(Of(p).regs, Table(build)[p])
  BY SameReady DEF Ready
<1>2. RP!LinkInPlace(Of(p).regs, Table(build)[p])
  BY <1>1 DEF RP!PortReady
<1>3. \A k \in RP!Regions : Of(p).atu[k].enable
  BY SameWords DEF Ready, Enabled
<1>4. QED
  BY <1>2, <1>3 DEF InPlace

\* A call only disturbs the controller it is for.
LEMMA InPlaceKept ==
  ASSUME BootInv, CallInv, DriverInv, LeftInv, [SystemNext]_allVars, NEW p \in Ports,
         InPlace(p, Of(p))
  PROVE  InPlace(p, Of(p))'
<1>0. build' = build
  BY RegisterSteps
<1>1. CASE Of(p)' = Of(p)
  BY <1>0, <1>1 DEF InPlace
<1>2. CASE SpeedCleared(Of(p), Of(p)')
  <2>1. InPlace(p, Of(p)')
    BY <1>2, ClearedKeeps, OfTypes
  <2>2. QED
    BY <1>0, <2>1 DEF InPlace
<1>3. CASE /\ p = pci.port /\ Setup /\ RP!Driver
           /\ pci' = pci /\ Of(p) = Current /\ Of(p)' = Current'
  <2>1. InPlace(pci.port, Current)'
    BY <1>0, <1>3, InPlaceStays DEF Setup
  <2>2. QED
    BY <1>3, <2>1 DEF InPlace
<1>4. QED
  BY <1>1, <1>2, <1>3, RegisterSteps

\* subsys_link_init_post comes to the controllers the loop has passed.
LEMMA Starts ==
  ASSUME BootInv, [SystemNext]_allVars, NEW p \in Ports, p \in ltssm' \ ltssm
  PROVE  pc = "post" /\ p = PostPort(case)
<1>1. CASE Outside
  BY <1>1 DEF Outside, InstanceSubsystem, AssertPhyReset, ReleaseCore, CoresReleased,
     ReleasePhy, CallUdelay, PollUdelay, SubsysLinkInitPre, SkipInactive, LoopEnds,
     StartLtssm, links
<1>2. CASE Return
  BY <1>2 DEF Return, SetupRc
<1>3. CASE ltssm' = ltssm
  BY <1>3
<1>4. QED
  BY <1>1, <1>2, <1>3, Kinds
     DEF Setup, Enter, Restart, CurrentEnds, OtherSpeedChangeEnds, vars, allVars, links

LEMMA NextStartedInv ==
  ASSUME BootInv, CallInv, DriverInv, LeftInv, StartedInv, ReadyInv, [SystemNext]_allVars
  PROVE  StartedInv'
<1>0. build' = build
  <2>1. X16 \in Ports
    BY DEF X16, Ports, NumPorts
  <2>2. QED
    BY <2>1, RegisterSteps
<1>1. ASSUME NEW p \in Ports, p \in ltssm', p \in ActivePrefix(build)
      PROVE  InPlace(p, Of(p))'
  <2>1. CASE p \in ltssm
    BY <1>1, <2>1, InPlaceKept DEF StartedInv
  <2>2. CASE p \notin ltssm
    <3>1. pc = "post" /\ p < controller
      BY <1>1, <2>2, Starts, LoopIsAt
    <3>2. Ready(p)
      BY <3>1 DEF ReadyInv, InLoopOrLater
    <3>3. QED
      BY <3>2, ReadyIsInPlace, InPlaceKept
  <2>3. QED
    BY <2>1, <2>2
<1>2. QED
  BY <1>0, <1>1 DEF StartedInv, ActivePrefix

\* Ready, of registers and in the words of RP.
ReadyRegs(r, c) ==
  /\ RP!PortReady(r.regs, c)
  /\ RP!PCIE_DBI_RO_WR_EN \notin r.regs[RP!PCIE_MISC_CONTROL_1_OFF]
  /\ RP!GEN3_BIT \in r.gen3[0] /\ RP!GEN3_BIT \in r.gen3[1]
  /\ \A k \in RP!Regions : r.atu[k].enable

ReadyMeaning == \A p \in Ports : Ready(p) <=> ReadyRegs(Of(p), Table(build)[p])

LEMMA ReadyMeans == ReadyMeaning
<1> SUFFICES ASSUME NEW p \in Ports
             PROVE  Ready(p) <=> ReadyRegs(Of(p), Table(build)[p])
  BY DEF ReadyMeaning
<1>1. {Of(p).gen3[n] \cap {RP!GEN3_BIT} : n \in 0 .. 1} = {{RP!GEN3_BIT}} <=>
        RP!GEN3_BIT \in Of(p).gen3[0] /\ RP!GEN3_BIT \in Of(p).gen3[1]
  <2> DEFINE f(n) == Of(p).gen3[n] \cap {RP!GEN3_BIT}
  <2>1. {f(n) : n \in 0 .. 1} = {f(0), f(1)}
    <3> HIDE DEF f
    <3>1. 0 .. 1 = {0, 1}
      OBVIOUS
    <3>2. QED
      BY <3>1
  <2>2. {f(0), f(1)} = {{RP!GEN3_BIT}} <=> f(0) = {RP!GEN3_BIT} /\ f(1) = {RP!GEN3_BIT}
    <3> HIDE DEF f
    <3>1. QED
      OBVIOUS
  <2>3. \A n : f(n) = {RP!GEN3_BIT} <=> RP!GEN3_BIT \in Of(p).gen3[n]
    OBVIOUS
  <2>4. QED
    BY <2>1, <2>2, <2>3, Zenon
<1>2. Enabled(p) = R!Regions <=> \A k \in RP!Regions : Of(p).atu[k].enable
  BY SameWords DEF Enabled
<1>3. R!PortReady(Of(p).regs, Table(build)[p])
        <=> RP!PortReady(Of(p).regs, Table(build)[p])
  BY SameReady
<1>4. QED
  BY <1>1, <1>2, <1>3, SameWords DEF Ready, ReadyRegs

LEMMA ReturnIsReady ==
  ASSUME BootInv, CallInv, DriverInv, Return
  PROVE  controller \in Ports /\ Ready(controller)
<1>1. ip = 42 /\ calling
  BY FinishedAt DEF Return
<1>2. controller \in Ports /\ controller = pci.port /\ Of(controller) = Current
  BY <1>1, CallIsOurs
<1>3. RP!PortReady(regs, pci)
  BY <1>1, Assumptions, RP!ReadyPastClass DEF DriverInv
<1>4. RP!PortReady(regs, Table(build)[controller])
  BY <1>1, <1>2, <1>3, CallIsOurs
<1>5. RP!PCIE_DBI_RO_WR_EN \notin regs[RP!PCIE_MISC_CONTROL_1_OFF]
  BY <1>1 DEF DriverInv, RP!UnlockedInv
<1>6. RP!GEN3_BIT \in gen3[0] /\ RP!GEN3_BIT \in gen3[1]
  BY <1>1 DEF DriverInv, RP!RatesInv
<1>7. \A k \in RP!Regions : atu[k].enable
  BY <1>1 DEF DriverInv, RP!AtuInv, RP!Regions
<1>8. QED
  BY <1>2, <1>4, <1>5, <1>6, <1>7, ReadyMeans DEF ReadyMeaning, Current, ReadyRegs

LEMMA ClearedReady ==
  ASSUME NEW c, NEW r \in ControllerRegs, NEW s, SpeedCleared(r, s), ReadyRegs(r, c)
  PROVE  ReadyRegs(s, c)
<1>1. RP!PortReady(s.regs, c) <=> RP!PortReady(r.regs, c)
  BY ClearedKeeps
<1>2. s.regs[RP!PCIE_MISC_CONTROL_1_OFF] \subseteq r.regs[RP!PCIE_MISC_CONTROL_1_OFF]
  <2>1. RP!PCIE_MISC_CONTROL_1_OFF \in RP!PlainRegs
    BY DEF RP!PlainRegs
  <2>2. QED
    BY <2>1, ClearedKeeps
<1>3. QED
  BY <1>1, <1>2 DEF ReadyRegs, SpeedCleared

\* Ready stays, unless a call is for the controller.
LEMMA ReadyKept ==
  ASSUME BootInv, CallInv, DriverInv, LeftInv, [SystemNext]_allVars, NEW p \in Ports,
         Ready(p), ~(calling /\ p = pci.port /\ Setup)
  PROVE  Ready(p)'
<1>0. build' = build
  BY RegisterSteps
<1>1. CASE Of(p)' = Of(p)
  BY <1>0, <1>1 DEF Ready, Enabled
<1>2. CASE SpeedCleared(Of(p), Of(p)')
  <2>1. Of(p) \in ControllerRegs
    BY OfTypes
  <2>2. ReadyRegs(Of(p), Table(build)[p])
    BY ReadyMeans DEF ReadyMeaning
  <2>3. ReadyRegs(Of(p)', Table(build)[p])
    BY <1>2, <2>1, <2>2, ClearedReady
  <2>4. ReadyMeaning'
    BY ReadyMeans, PTL
  <2>5. Ready(p)' <=> ReadyRegs(Of(p)', Table(build)[p])
    BY <1>0, <2>4 DEF ReadyMeaning
  <2>6. QED
    BY <2>3, <2>5
<1>3. QED
  BY <1>1, <1>2, RegisterSteps DEF Setup

LEMMA NextReadyInv ==
  ASSUME BootInv, CallInv, DriverInv, LeftInv, ReadyInv, [SystemNext]_allVars
  PROVE  ReadyInv'
<1> SUFFICES ASSUME (pc \in InLoopOrLater)', NEW p \in Ports, p < controller'
             PROVE  Ready(p)'
  BY DEF ReadyInv
<1>1. CASE Return
  <2>1. controller' = controller + 1 /\ pc = "loop"
    BY <1>1 DEF Return, SetupRc
  <2>2. p < controller \/ p = controller
    BY <2>1 DEF BootInv, NumPorts, Ports
  <2>3. Ready(p)
    BY <1>1, <2>1, <2>2, ReturnIsReady DEF ReadyInv, InLoopOrLater
  <2>4. ~Setup
    BY <1>1 DEF Return, Setup, R!Finished, R!Driver
  <2>5. QED
    BY <2>3, <2>4, ReadyKept
<1>2. CASE Restart
  BY <1>2 DEF Restart, Goto, InLoopOrLater
<1>3. CASE ~Return /\ ~Restart
  <2>1. controller' = controller /\ (pc \in InLoopOrLater \/ controller = 0)
    <3>1. CASE Outside
      BY <3>1
         DEF Outside, InstanceSubsystem, AssertPhyReset, ReleaseCore, CoresReleased,
             ReleasePhy, CallUdelay, PollUdelay, SubsysLinkInitPre, SkipInactive,
             LoopEnds, StartLtssm, locals, BootInv, InLoopOrLater, Goto
    <3>2. CASE UNCHANGED vars
      BY <3>2 DEF vars, locals
    <3>3. QED
      BY <1>3, <3>1, <3>2, Kinds
         DEF Setup, Enter, CurrentEnds, OtherSpeedChangeEnds, allVars
  <2>2. pc \in InLoopOrLater /\ p < controller
    BY <2>1 DEF BootInv, Ports, NumPorts
  <2>3. Ready(p)
    BY <2>2 DEF ReadyInv
  <2>4. ~(calling /\ p = pci.port)
    BY <2>2 DEF CallInv, Ports, NumPorts
  <2>5. QED
    BY <2>3, <2>4, ReadyKept
<1>4. QED
  BY <1>1, <1>2, <1>3

-----------------------------------------------------------------------------
(***************************************************************************)
(* The invariant, and what follows from it.                                *)
(***************************************************************************)
LEMMA InitSystemInv == SystemInit => SystemInv
<1> SUFFICES ASSUME SystemInit PROVE SystemInv
  OBVIOUS
<1> USE DEF SystemInit
<1>1. BootInv /\ CallInv
  BY InitBootInv, InitCallInv
<1>2. RP!Init
  BY SameInit
<1>3. DriverInv
  BY <1>2, Assumptions, RP!InitTypeOK, RP!InitFetchedInv, RP!InitUnlockedInv,
     RP!InitFieldsInv, RP!InitRatesInv, RP!InitAtuInv
     DEF DriverInv
<1>4. pci.port = X16 /\ ~fetched /\ ltssm = {} /\ pc = "instance"
  BY DEF Init, R!Init, NoCall
<1>5. Of(X16) = Current /\ \A p \in Ports \ {X16} : Of(p) = Current
  BY <1>4 DEF Of
<1>6. ASSUME NEW p \in Ports PROVE Left(p, Of(p))
  <2>1. /\ gen3_sel \in {{}, {24}}
        /\ gen3_sel = {24} => RP!GEN3_BIT \in gen3[0]
    BY <1>3 DEF DriverInv, RP!RatesInv
  <2>2. \A k \in RP!Regions : ~atu[k].enable
    BY <1>2 DEF RP!Init
  <2>3. ~RP!Requested(regs)
    <3>1. RP!NoSpeedChangeInv /\ ip = 1
      BY <1>2, Assumptions, RP!InitNoSpeedChangeInv DEF RP!Init
    <3>2. QED
      BY <3>1 DEF RP!NoSpeedChangeInv, RP!SpeedChange
  <2>4. Left(p, Current)
    BY <2>1, <2>2, <2>3 DEF Left, Current, RP!Complete
  <2>5. QED
    BY <1>5, <2>4
<1>7. LeftInv
  <2>1. Current \in ControllerRegs
    BY <1>3 DEF DriverInv, RP!TypeOK, Current, ControllerRegs
  <2>2. QED
    BY <1>4, <1>6, <2>1 DEF LeftInv
<1>8. PendingInv /\ StartedInv /\ ReadyInv
  BY <1>4 DEF PendingInv, StartedInv, ReadyInv, InLoopOrLater
<1>9. QED
  BY <1>1, <1>3, <1>7, <1>8 DEF SystemInv

LEMMA NextSystemInv == SystemInv /\ [SystemNext]_allVars => SystemInv'
BY NextBootInv, NextCallInv, NextDriver, NextLeftInv, NextPendingInv, NextStartedInv,
   NextReadyInv
   DEF SystemInv

LEMMA SystemInvHolds == SystemSpec => []SystemInv
BY InitSystemInv, NextSystemInv, PTL DEF SystemSpec

(***************************************************************************)
(* However often the processor is restarted, and wherever that cuts a      *)
(* set-up short, a region that is enabled holds all seven fields of its    *)
(* window, in every controller.                                            *)
(***************************************************************************)
THEOREM EnabledAlwaysWhole == SystemSpec => []EnabledIsWhole
<1>1. SystemInv => EnabledIsWhole
  <2> SUFFICES ASSUME LeftInv, NEW p \in Ports
               PROVE  R!Complete(Of(p).atu, Enabled(p), p)
    BY DEF SystemInv, EnabledIsWhole
  <2>1. RP!Complete(Of(p).atu, {k \in RP!Regions : Of(p).atu[k].enable}, p)
    BY DEF LeftInv, Left
  <2>2. Enabled(p) = {k \in RP!Regions : Of(p).atu[k].enable}
    BY SameWords DEF Enabled
  <2>3. QED
    BY <2>1, <2>2, SameComplete
<1>2. QED
  BY <1>1, SystemInvHolds, PTL

\* LinkFields, of registers and in the words of RP.
FieldsOf(r) ==
  << r[RP!PCIE_PORT_LINK_CONTROL] \cap RP!GENMASK(21, 16),
     r[RP!PCIE_LINK_WIDTH_SPEED_CONTROL] \cap RP!GENMASK(12, 8),
     r[RP!PCIE_PORT_FORCE_OFF] \cap RP!GENMASK(7, 0),
     r[RP!PCI_CLASS_REVISION] \cap RP!GENMASK(31, 16) >>

FieldsMeaning == \A p \in Ports : LinkFields(p) = FieldsOf(Of(p).regs)

LEMMA LinkFieldsMeans == FieldsMeaning
<1>1. \A h, l : RP!GENMASK(h, l) = l .. h
  BY DEF RP!GENMASK
<1>2. /\ R!PCIE_PORT_LINK_CONTROL = RP!PCIE_PORT_LINK_CONTROL
      /\ R!PCIE_LINK_WIDTH_SPEED_CONTROL = RP!PCIE_LINK_WIDTH_SPEED_CONTROL
      /\ R!PCIE_PORT_FORCE_OFF = RP!PCIE_PORT_FORCE_OFF
      /\ R!PCI_CLASS_REVISION = RP!PCI_CLASS_REVISION
  BY DEF R!PCIE_PORT_LINK_CONTROL, RP!PCIE_PORT_LINK_CONTROL,
         R!PCIE_LINK_WIDTH_SPEED_CONTROL, RP!PCIE_LINK_WIDTH_SPEED_CONTROL,
         R!PCIE_PORT_FORCE_OFF, RP!PCIE_PORT_FORCE_OFF, R!PCI_CLASS_REVISION,
         RP!PCI_CLASS_REVISION
<1>3. \A p, reg, h, l : Field(p, reg, h, l) = Of(p).regs[reg] \cap RP!GENMASK(h, l)
  BY <1>1 DEF Field
<1>4. ASSUME NEW p \in Ports PROVE LinkFields(p) = FieldsOf(Of(p).regs)
  BY <1>2, <1>3 DEF LinkFields, FieldsOf
<1>5. QED
  BY <1>4 DEF FieldsMeaning

LEMMA ClearedFields ==
  ASSUME NEW r \in ControllerRegs, NEW s, SpeedCleared(r, s)
  PROVE  FieldsOf(s.regs) = FieldsOf(r.regs)
<1> USE Assumptions, RP!RegisterNumbers
<1>1. \A reg \in RP!PlainRegs :
        /\ s.regs[reg] \ {17} = r.regs[reg] \ {17}
        /\ reg # RP!PCIE_LINK_WIDTH_SPEED_CONTROL => s.regs[reg] = r.regs[reg]
  BY ClearedKeeps
<1>2. s.regs[RP!PCIE_LINK_WIDTH_SPEED_CONTROL] \cap RP!GENMASK(12, 8)
        = r.regs[RP!PCIE_LINK_WIDTH_SPEED_CONTROL] \cap RP!GENMASK(12, 8)
  BY <1>1 DEF RP!GENMASK
<1>3. /\ s.regs[RP!PCIE_PORT_LINK_CONTROL] = r.regs[RP!PCIE_PORT_LINK_CONTROL]
      /\ s.regs[RP!PCIE_PORT_FORCE_OFF] = r.regs[RP!PCIE_PORT_FORCE_OFF]
      /\ s.regs[RP!PCI_CLASS_REVISION] = r.regs[RP!PCI_CLASS_REVISION]
  BY <1>1
<1>4. QED
  BY <1>2, <1>3 DEF FieldsOf

LEMMA InPlaceFields ==
  ASSUME NEW c, NEW r, NEW s, RP!LinkInPlace(r, c), RP!LinkInPlace(s, c)
  PROVE  FieldsOf(s) = FieldsOf(r)
BY DEF RP!LinkInPlace, RP!HasField, FieldsOf

(***************************************************************************)
(* The controller that a call sets up again after its link was started     *)
(* keeps its link fields, at each of the 41 accesses; a                    *)
(* controller whose LTSSM was started without a set-up never gets a call.  *)
(***************************************************************************)
THEOREM LinkFieldsNeverChange == SystemSpec => LinkFieldsStable
<1> DEFINE Stable == \A p \in ltssm : LinkFields(p)' = LinkFields(p)
<1>1. SystemInv /\ [SystemNext]_allVars => Stable
  <2> SUFFICES ASSUME SystemInv, [SystemNext]_allVars, NEW p \in ltssm
               PROVE  LinkFields(p)' = LinkFields(p)
    OBVIOUS
  <2> USE DEF SystemInv
  <2>0. p \in Ports
    BY DEF BootInv
  <2>1. FieldsMeaning'
    BY LinkFieldsMeans, PTL
  <2>2. LinkFields(p)' = FieldsOf(Of(p)'.regs) /\ LinkFields(p) = FieldsOf(Of(p).regs)
    BY <2>0, <2>1, LinkFieldsMeans DEF FieldsMeaning
  <2>3. CASE Of(p)' = Of(p)
    BY <2>2, <2>3
  <2>4. CASE SpeedCleared(Of(p), Of(p)')
    BY <2>0, <2>2, <2>4, ClearedFields, OfTypes
  <2>5. CASE p = pci.port /\ Setup /\ Of(p) = Current
    <3>1. p \in ActivePrefix(build) /\ build' = build
      BY <2>0, <2>5, CallIsOurs, RegisterSteps DEF Setup
    <3>2. InPlace(p, Of(p))
      BY <3>1 DEF StartedInv
    <3>3. InPlace(p, Of(p))'
      BY <2>0, <3>2, InPlaceKept
    <3>4. /\ RP!LinkInPlace(Of(p).regs, Table(build)[p])
          /\ RP!LinkInPlace(Of(p)'.regs, Table(build)[p])
      BY <3>1, <3>2, <3>3 DEF InPlace
    <3>5. QED
      BY <2>2, <3>4, InPlaceFields
  <2>6. QED
    BY <2>0, <2>3, <2>4, <2>5, RegisterSteps
<1>2. QED
  BY <1>1, SystemInvHolds, PTL DEF SystemSpec, LinkFieldsStable

(***************************************************************************)
(* A speed change is only ever requested of a link that is in place, by    *)
(* the last access but one of a set-up or by the write-back of a request   *)
(* that was pending when the set-up read the register.                     *)
(***************************************************************************)
THEOREM SpeedChangeFindsLink == SystemSpec => SpeedChangeWhenInPlace
<1> DEFINE Found ==
      \A p \in Ports : ~R!Requested(Of(p).regs) /\ R!Requested(Of(p).regs)'
        => R!LinkInPlace(Of(p).regs, Table(build)[p]) /\ Enabled(p) = R!Regions
<1>1. SystemInv /\ [SystemNext]_allVars => Found
  <2> SUFFICES ASSUME SystemInv, [SystemNext]_allVars, NEW p \in Ports,
                      ~RP!Requested(Of(p).regs), RP!Requested(Of(p)'.regs)
               PROVE  R!LinkInPlace(Of(p).regs, Table(build)[p]) /\ Enabled(p) = R!Regions
    BY SameWords DEF R!Requested, RP!Requested, RP!PORT_LOGIC_SPEED_CHANGE,
       RP!PCIE_LINK_WIDTH_SPEED_CONTROL, R!PORT_LOGIC_SPEED_CHANGE,
       R!PCIE_LINK_WIDTH_SPEED_CONTROL
  <2> USE DEF SystemInv
  <2>1. /\ p = pci.port /\ Setup /\ RP!Driver
        /\ pci' = pci /\ Of(p) = Current /\ Of(p)' = Current'
    BY RegisterSteps, ClearedKeeps, OfTypes
  <2>2. InPlace(p, Of(p))
    <3>1. RP!Requested(regs')
      BY <2>1 DEF Current
    <3>2. QED
      BY <2>1, <3>1, RequestFinds
  <2>3. QED
    BY <2>2, SameReady, SameWords DEF InPlace, Enabled
<1>2. QED
  BY <1>1, SystemInvHolds, PTL DEF SystemSpec, SpeedChangeWhenInPlace

(***************************************************************************)
(* In the builds whose active controllers come first in controllers[] and  *)
(* whose switch does not fall through, no boot starts a controller, for    *)
(* the first time or again, whose registers are not those of a complete    *)
(* set-up.                                                                 *)
(***************************************************************************)
THEOREM StartedPortsAreReady ==
  ASSUME Builds \subseteq SoundBuilds
  PROVE  SystemSpec => StartsReadyPorts
<1> DEFINE Started == pc = "post" /\ pc' # "instance" /\ <<pc, case>>' # <<pc, case>>
                        => Ready(PostPort(case))
<1>1. SystemInv /\ [SystemNext]_allVars => Started
  <2> SUFFICES ASSUME SystemInv, pc = "post" PROVE Ready(PostPort(case))
    OBVIOUS
  <2> USE DEF SystemInv
  <2>1. build \in SoundBuilds /\ build \in AllBuilds /\ build.mode \in 0 .. 3
    BY DEF BootInv, AllBuilds, LinkModes
  <2>2. LastCase(build) = build.mode /\ ActivePorts(build) = ActivePrefix(build)
    BY <2>1 DEF SoundBuilds
  <2>3. PostPort(case) \in StartedAtEnd(build)
    <3>1. case \in build.mode .. (IF build.dpu THEN build.mode + 1 ELSE 4) - 1
      BY <2>1 DEF BootInv
    <3>2. QED
      BY <3>1 DEF StartedAtEnd, StartedBefore
  <2>4. PostPort(case) \in ActivePrefix(build)
    BY <2>1, <2>2, <2>3, SwitchesAgree
  <2>5. PostPort(case) \in Ports /\ PostPort(case) < controller
    BY <2>4, LoopIsAt DEF ActivePrefix
  <2>6. QED
    BY <2>5 DEF ReadyInv, InLoopOrLater
<1>2. QED
  BY <1>1, SystemInvHolds, PTL DEF SystemSpec, StartsReadyPorts
=============================================================================
