------------------------------ MODULE Platform ------------------------------
(***************************************************************************)
(* pci_platform_init() of src/pcie_duowen.c: the bring-up of the Duowen    *)
(* PCIe subsystem, four DesignWare controllers that share one PHY.         *)
(*                                                                         *)
(* The program is sequential; the 32-bit counter that its delays read (see *)
(* Udelay) runs beside it.  DPU and DEFAULT_LINK_MODE are compile-time     *)
(* choices: the variable build holds them and never changes, so that one   *)
(* run covers several builds.  dw_pcie_setup_rc is one step here: it       *)
(* latches the lanes and the link number of a controller in that           *)
(* controller's registers.                                                 *)
(***************************************************************************)
EXTENDS LinkMode

CONSTANTS
  Builds,           \* the builds to consider
  Modulus,          \* 2^32: values of the counter
  TicksPerUs,       \* 125: counter ticks in a microsecond
  MaxGap,           \* ticks between two reads of the counter
  Ticks100ns,       \* 12.5: the wait reset_init asks for
  Ticks300ns        \* 37.5: the wait subsys_link_init_pre asks for

ASSUME PlatformAssumption ==
  /\ Builds \subseteq AllBuilds
  /\ Modulus \in Nat \ {0}
  /\ TicksPerUs \in Nat
  /\ MaxGap \in Nat
  /\ Ticks100ns \in 0 .. TicksPerUs
  /\ Ticks300ns \in 0 .. TicksPerUs

VARIABLES
  build,            \* how the program was compiled
  pc,               \* control
  i,                \* loop counter; before the loop, the next of four like writes
  controller,       \* its pointer into controllers[], as an index
  link_mode,        \* pcie_subsystem.link_mode
  controllers,      \* lane_num, active and order of each controller
  case,             \* the case of subsys_link_init_post control is in
  phy_released,     \* hardware: the PHY is out of reset
  cores_released,   \* hardware: the controllers out of reset
  subsys_control,   \* hardware: the lane division, SUBSYS_CONTROL
  rc,               \* hardware: what dw_pcie_setup_rc wrote, per controller
  ltssm,            \* hardware: the controllers told to train their link
  hold,             \* ticks since the last hardware write that a delay follows,
                    \*   saturating at HoldMax
  counter, current, next, polling, time, start, gap, elapsed

delayVars == <<counter, current, next, polling, time, start, gap, elapsed>>
locals    == <<i, controller, case>>
memory    == <<build, link_mode, controllers>>
resets    == <<phy_released, cores_released>>
links     == <<rc, ltssm>>
vars == <<pc, locals, memory, resets, subsys_control, links, hold, delayVars>>

Delay == INSTANCE Udelay WITH Times <- {1}

Locations == {"instance", "phy_assert", "phy_udelay", "phy_poll", "cores",
              "phy_release", "link_init_pre", "mode_udelay", "mode_poll", "loop",
              "post", "done"}

\* Every controller starts as the initialiser of controllers[] leaves it.
Blank == [lane_num |-> 0, active |-> FALSE, order |-> 0]

Settings == [lane_num : {0, 4, 8, 16}, active : BOOLEAN, order : {0, 1, 2, 3, NO_ORDER}]

HoldMax == IF Ticks100ns > Ticks300ns THEN Ticks100ns ELSE Ticks300ns

\* The loop looks at controller->active only while the pointer is in controllers[].
PointerInBounds == pc = "loop" /\ i < NumPorts => controller < NumPorts

TypeOK ==
  /\ PointerInBounds
  /\ build \in Builds
  /\ pc \in Locations
  /\ i \in 0 .. NumPorts
  /\ controller \in 0 .. NumPorts
  /\ link_mode \in LinkModes
  /\ controllers \in [Ports -> Settings]
  /\ case \in LinkModes
  /\ phy_released \in BOOLEAN
  /\ cores_released \in SUBSET Ports
  /\ subsys_control \in LinkModes
  /\ rc \in [Ports -> Settings]
  /\ ltssm \in SUBSET Ports
  /\ hold \in 0 .. HoldMax
  /\ Delay!TypeOK

(***************************************************************************)
(* The hardware is found as a reset or an earlier boot left it: with the   *)
(* PHY and the controllers in or out of reset, and any lane division.      *)
(***************************************************************************)
Init ==
  /\ build \in Builds
  /\ pc = "instance"
  /\ i = 0
  /\ controller = 0
  /\ link_mode = 0
  /\ controllers = [p \in Ports |-> Blank]
  /\ case = 0
  /\ phy_released \in BOOLEAN
  /\ cores_released \in {{}, Ports}
  /\ subsys_control \in LinkModes
  /\ rc = [p \in Ports |-> Unused]
  /\ ltssm = {}
  /\ hold = 0
  /\ Delay!Init

Goto(from, to) == pc = from /\ pc' = to

-----------------------------------------------------------------------------
(***************************************************************************)
(* instance_subsystem: clear the structure and look up the link mode.      *)
(***************************************************************************)
InstanceSubsystem ==
  /\ Goto("instance", "phy_assert")
  /\ link_mode' = build.mode
  /\ UNCHANGED <<build, controllers, locals, resets, subsys_control, links, hold, delayVars>>

(***************************************************************************)
(* reset_init: put the PHY in reset, wait, release the four controllers,   *)
(* one register each, and then the PHY.                                    *)
(***************************************************************************)
AssertPhyReset ==
  /\ Goto("phy_assert", "phy_udelay")
  /\ phy_released' = FALSE
  /\ hold' = 0
  /\ UNCHANGED <<memory, locals, cores_released, subsys_control, links, delayVars>>

ReleaseCorePastEnd ==
  /\ pc = "cores"
  /\ i <= NumPorts
  /\ cores_released' = cores_released \cup {i}
  /\ i' = i + 1
  /\ UNCHANGED <<pc, memory, controller, case, phy_released, subsys_control, links,
                 hold, delayVars>>

ReleaseCore ==
  /\ pc = "cores"
  /\ i < NumPorts
  /\ cores_released' = cores_released \cup {i}
  /\ i' = i + 1
  /\ UNCHANGED <<pc, memory, controller, case, phy_released, subsys_control, links,
                 hold, delayVars>>

CoresReleasedEarly ==
  /\ Goto("cores", "phy_release")
  /\ i = NumPorts - 1
  /\ UNCHANGED <<memory, locals, resets, subsys_control, links, hold, delayVars>>

CoresReleased ==
  /\ Goto("cores", "phy_release")
  /\ i = NumPorts
  /\ UNCHANGED <<memory, locals, resets, subsys_control, links, hold, delayVars>>

ReleasePhy ==
  /\ Goto("phy_release", "link_init_pre")
  /\ phy_released' = TRUE
  /\ UNCHANGED <<memory, locals, cores_released, subsys_control, links, hold, delayVars>>

(***************************************************************************)
(* The two calls udelay(1).  The first read of the counter and every turn  *)
(* of the loop are steps of their own.                                     *)
(***************************************************************************)
CallUdelay ==
  /\ \/ Goto("phy_udelay", "phy_poll")
     \/ Goto("mode_udelay", "mode_poll")
  /\ Delay!Enter(1)
  /\ UNCHANGED <<memory, locals, resets, subsys_control, links, hold>>

AfterUdelay == IF pc = "phy_poll" THEN "cores" ELSE "loop"

PollUdelay ==
  /\ pc \in {"phy_poll", "mode_poll"}
  /\ Delay!Poll
  /\ pc' = IF polling' THEN pc ELSE AfterUdelay
  /\ i' = IF polling' THEN i ELSE 0
  /\ UNCHANGED <<memory, controller, case, resets, subsys_control, links, hold>>

(***************************************************************************)
(* subsys_link_init_pre: fill the tables, then write the division of the   *)
(* lanes to SUBSYS_CONTROL.                                                *)
(***************************************************************************)
SubsysLinkInitPreNoDelay ==
  /\ Goto("link_init_pre", "loop")
  /\ controllers' = Table([build EXCEPT !.mode = link_mode])
  /\ subsys_control' = link_mode
  /\ hold' = 0
  /\ i' = 0
  /\ UNCHANGED <<build, link_mode, controller, case, resets, links, delayVars>>

SubsysLinkInitPre ==
  /\ Goto("link_init_pre", "mode_udelay")
  /\ controllers' = Table([build EXCEPT !.mode = link_mode])
  /\ subsys_control' = link_mode
  /\ hold' = 0
  /\ UNCHANGED <<build, link_mode, locals, resets, links, delayVars>>

(***************************************************************************)
(* The loop over the controllers.  The pointer moves on only past a        *)
(* controller that is set up; dw_pcie_setup_rc reads the lanes and order   *)
(* of the controller it is given.                                          *)
(***************************************************************************)
SetupRcUnchecked ==
  /\ pc = "loop"
  /\ i < NumPorts
  /\ rc' = [rc EXCEPT ![controller] = controllers[controller]]
  /\ controller' = controller + 1
  /\ i' = i + 1
  /\ UNCHANGED <<pc, memory, case, resets, subsys_control, ltssm, hold, delayVars>>

SetupRc ==
  /\ pc = "loop"
  /\ i < NumPorts
  /\ controllers[controller].active
  /\ rc' = [rc EXCEPT ![controller] = controllers[controller]]
  /\ controller' = controller + 1
  /\ i' = i + 1
  /\ UNCHANGED <<pc, memory, case, resets, subsys_control, ltssm, hold, delayVars>>

SkipInactiveForever ==
  /\ pc = "loop"
  /\ i < NumPorts
  /\ ~controllers[controller].active
  /\ UNCHANGED vars

SkipInactive ==
  /\ pc = "loop"
  /\ i < NumPorts
  /\ ~controllers[controller].active
  /\ i' = i + 1
  /\ UNCHANGED <<pc, memory, controller, case, resets, subsys_control, links, hold, delayVars>>

(***************************************************************************)
(* subsys_link_init_post looks up the link mode again and enters the       *)
(* switch at its case.                                                     *)
(***************************************************************************)
LoopEndsEarly ==
  /\ Goto("loop", "post")
  /\ i = NumPorts - 1
  /\ case' = build.mode
  /\ UNCHANGED <<memory, i, controller, resets, subsys_control, links, hold, delayVars>>

LoopEnds ==
  /\ Goto("loop", "post")
  /\ i = NumPorts
  /\ case' = build.mode
  /\ UNCHANGED <<memory, i, controller, resets, subsys_control, links, hold, delayVars>>

(***************************************************************************)
(* One case: enable a controller's LTSSM.  A DPU build then breaks; any    *)
(* other build falls through to the next case.                             *)
(***************************************************************************)
LeavesSwitchNever == case = LINK_MODE_16_0_0_0

LeavesSwitch == build.dpu \/ case = LINK_MODE_16_0_0_0

StartLtssm ==
  /\ pc = "post"
  /\ ltssm' = ltssm \cup {PostPort(case)}
  /\ IF LeavesSwitch
     THEN pc' = "done" /\ UNCHANGED case
     ELSE case' = case + 1 /\ UNCHANGED pc
  /\ UNCHANGED <<memory, i, controller, resets, subsys_control, rc, hold, delayVars>>

CounterTicks ==
  /\ Delay!Tick
  /\ hold' = IF hold < HoldMax THEN hold + 1 ELSE hold
  /\ UNCHANGED <<pc, memory, locals, resets, subsys_control, links>>

Program ==
  \/ InstanceSubsystem
  \/ AssertPhyReset
  \/ ReleaseCore
  \/ CoresReleased
  \/ ReleasePhy
  \/ CallUdelay
  \/ PollUdelay
  \/ SubsysLinkInitPre
  \/ SetupRc
  \/ SkipInactive
  \/ LoopEnds
  \/ StartLtssm

Next == Program \/ CounterTicks

(***************************************************************************)
(* The processor executes the program and the clock of the counter runs.   *)
(* Nothing else is assumed: a read that always falls on the wrong values   *)
(* of the counter is not excluded.                                         *)
(***************************************************************************)
Fairness == WF_vars(Program) /\ WF_vars(CounterTicks)

Spec == Init /\ [][Next]_vars /\ Fairness

-----------------------------------------------------------------------------
(***************************************************************************)
(* Properties.                                                             *)
(***************************************************************************)
Configured == {p \in Ports : rc[p] # Unused}

(***************************************************************************)
(* The loop of pci_platform_init sets up, with the lanes and order of the  *)
(* tables, exactly the controllers before the first inactive one: its      *)
(* pointer never leaves an inactive controller.                            *)
(***************************************************************************)
ConfiguredIsActivePrefix ==
  /\ \A p \in Configured : p \in ActivePrefix(build) /\ rc[p] = Table(build)[p]
  /\ pc \in {"post", "done"} => Configured = ActivePrefix(build)

(***************************************************************************)
(* The two switches agree, although only one is meant to fall through:     *)
(* subsys_link_init_post ends having started the controllers that          *)
(* subsys_link_init_pre marked active, in every build in which the case    *)
(* of the first switch ends with a break.                                  *)
(***************************************************************************)
StartedAreActive ==
  pc = "done" /\ LastCase(build) = build.mode => ltssm = ActivePorts(build)

PhysicalWidth == <<16, 8, 4, 4>>

\* The active controllers of t share the lanes of the PHY, none gets more than
\* it is wide, and their link numbers are distinct and start at 0.
Divides(t) ==
  LET used == {p \in Ports : t[p].active}
  IN  /\ t[X16].lane_num + t[X8].lane_num + t[X4_0].lane_num + t[X4_1].lane_num <= 16
      /\ \A p \in used : t[p].lane_num > 0 /\ t[p].lane_num <= PhysicalWidth[p + 1]
      /\ \A p \in used : t[p].order \in 0 .. 3
      /\ \A p, q \in used : t[p].order = t[q].order => p = q
      /\ used # {} => \E p \in used : t[p].order = 0

(***************************************************************************)
(* The table subsys_link_init_pre has filled in hands out no more than the *)
(* 16 lanes of the PHY, for every build, the rows the loop does not reach  *)
(* included; and so does, at every time of the loop, what dw_pcie_setup_rc *)
(* has written to the controllers so far.                                  *)
(***************************************************************************)
LanesDivide == Divides(controllers) /\ Divides(rc)

(***************************************************************************)
(* No register of a controller is written through its DBI before the       *)
(* controllers and the PHY are out of reset and the multiplexer holds the  *)
(* link mode of this build, whatever an earlier boot left in the hardware. *)
(***************************************************************************)
SetupAfterReset ==
  [][rc' # rc => /\ phy_released
                 /\ cores_released = Ports
                 /\ subsys_control = build.mode]_vars

(***************************************************************************)
(* Unless the deadline wraps, the PHY reset is held for the 100ns of       *)
(* reset_init, and the 300ns of subsys_link_init_pre pass between the      *)
(* write of SUBSYS_CONTROL and the first DBI write.                        *)
(***************************************************************************)
DelaysHonoured ==
  [][Delay!NoWrap =>
       /\ ~phy_released /\ phy_released' => hold >= Ticks100ns
       /\ rc' # rc => hold >= Ticks300ns]_vars

(***************************************************************************)
(* pci_platform_init returns, unless one of its two delays has a deadline  *)
(* just below the wrap of the counter, where every read of udelay can miss *)
(* the few values that end the loop.                                       *)
(***************************************************************************)
BringUpEnds == [](polling => Delay!WindowOpen) => <>(pc = "done")

SoundBuilds ==
  {b \in AllBuilds : LastCase(b) = b.mode /\ ActivePorts(b) = ActivePrefix(b)}

PortState(p) ==
  CASE build \notin SoundBuilds                          -> "off"
    [] build \in SoundBuilds /\ p \in ltssm              -> "training"
    [] build \in SoundBuilds /\ p \in Configured \ ltssm -> "configured"
    [] OTHER                                            -> "off"

Abstract == INSTANCE BringUp WITH
  Controllers <- Ports,
  wanted <- ActivePorts(build),
  state <- [p \in Ports |-> PortState(p)]

(***************************************************************************)
(* In the builds whose active controllers come first in controllers[] and  *)
(* whose switch does not fall through, the program implements BringUp.  Of *)
(* the other builds nothing is said: their steps are taken for stutters.   *)
(***************************************************************************)
ImplementsBringUp == Abstract!Spec

-----------------------------------------------------------------------------
(***************************************************************************)
(* What the comments of src/pcie_duowen.c say and the code does not do.    *)
(***************************************************************************)

\* The controller the comment beside each case names: "In DPU, X4_0" ...
DpuPort == <<X4_0, X4_1, X8, X16>>

(***************************************************************************)
(* In a DPU build, subsys_link_init_pre leaves active the controller that  *)
(* the comment beside the case names.                                      *)
(***************************************************************************)
DpuControllerActive ==
  pc = "mode_udelay" /\ build.dpu =>
    {p \in Ports : controllers[p].active} = {DpuPort[build.mode + 1]}

(***************************************************************************)
(* A controller that subsys_link_init_pre marks active is set up by the    *)
(* loop of pci_platform_init before subsys_link_init_post starts it.       *)
(***************************************************************************)
TrainsOnlyConfigured == ltssm \subseteq Configured

(***************************************************************************)
(* The udelay(1) between the two writes of RESET_PHY in reset_init lasts   *)
(* the 100ns that its comment gives.                                       *)
(***************************************************************************)
ResetWaits100ns == pc = "phy_release" => elapsed >= Ticks100ns
=============================================================================
