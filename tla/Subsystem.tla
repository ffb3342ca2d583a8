------------------------------ MODULE Subsystem -----------------------------
(***************************************************************************)
(* The bring-up with its set-ups in full, and what a warm boot adds.       *)
(*                                                                         *)
(* Platform takes a call of dw_pcie_setup_rc for one step; here the call   *)
(* runs access by access, as RootPort does, in the controller that the     *)
(* loop of pci_platform_init has reached.  The processor may be restarted  *)
(* between any two steps, also in the middle of a set-up or after the      *)
(* links have been started.  It then runs the same program again, over     *)
(* hardware that kept its state: reset_init asserts the reset of the PHY   *)
(* but only ever releases those of the controllers.                        *)
(***************************************************************************)
EXTENDS Platform

CONSTANTS ResetStates, Half, AddrStart, MemSize, CfgSize, Cfg1Target, Cfg0Target, MemTarget

VARIABLES
  calling,          \* control is inside dw_pcie_setup_rc
  pci, bankOnWrite, ip, fetched, val,
  regs, gen3_sel, gen3, atu, inUse,     \* the registers of controller pci.port
  others            \* the registers of the other controllers

call      == <<calling, pci, ip, fetched, val>>
registers == <<bankOnWrite, regs, gen3_sel, gen3, atu, inUse, others>>

\* pci before the first call: only its port says something.
NoCall == [port |-> X16, lane_num |-> 16, order |-> 0]

R == INSTANCE RootPort WITH Setups <- {NoCall}, ErrorBits <- {}

ASSUME SubsystemAssumption ==
  /\ R!IatuAssumption
  /\ ResetStates \subseteq
       [plain : [R!PlainRegs -> R!AnyWord], gen3 : [0 .. 3 -> R!AnyWord]]

Current == [regs |-> regs, gen3_sel |-> gen3_sel, gen3 |-> gen3, atu |-> atu]

\* The registers of a controller.
Of(p) == IF p = pci.port THEN Current ELSE others[p]

Enabled(p) == {k \in R!Regions : Of(p).atu[k].enable}

allVars == <<vars, call, registers>>

(***************************************************************************)
(* A cold boot finds all controllers alike.                                *)
(***************************************************************************)
SystemInit ==
  /\ Init
  /\ calling = FALSE
  /\ R!Init
  /\ others = [p \in Ports \ {X16} |-> Current]

-----------------------------------------------------------------------------
(***************************************************************************)
(* Everything the program does outside dw_pcie_setup_rc.                   *)
(***************************************************************************)
Outside ==
  /\ ~calling
  /\ \/ InstanceSubsystem
     \/ AssertPhyReset
     \/ ReleaseCore
     \/ CoresReleased
     \/ ReleasePhy
     \/ CallUdelay
     \/ PollUdelay
     \/ SubsysLinkInitPre
     \/ SkipInactive
     \/ LoopEnds
     \/ StartLtssm
  /\ UNCHANGED <<call, registers>>

(***************************************************************************)
(* The call dw_pcie_setup_rc(&(controller->pp)) of the loop: RootPort's    *)
(* variables now stand for the registers of this controller.               *)
(***************************************************************************)
Enter ==
  /\ ~calling
  /\ pc = "loop" /\ i < NumPorts /\ controllers[controller].active
  /\ calling' = TRUE
  /\ pci' = [port |-> controller,
             lane_num |-> controllers[controller].lane_num,
             order |-> controllers[controller].order]
  /\ LET r == Of(controller)
     IN  regs' = r.regs /\ gen3_sel' = r.gen3_sel /\ gen3' = r.gen3 /\ atu' = r.atu
  /\ others' = [p \in Ports \ {controller} |-> Of(p)]
  /\ UNCHANGED <<vars, bankOnWrite, ip, fetched, val, inUse>>

CallSetupRcWhenDisabled == Enabled(controller) = {} /\ Enter

CallSetupRcUnlessEnabled ==
  IF pc = "loop" /\ Enabled(controller) = R!Regions
  THEN ~calling /\ SetupRc /\ UNCHANGED <<call, registers>>
  ELSE Enter

CallSetupRc == Enter

Setup ==
  /\ calling
  /\ R!Driver
  /\ UNCHANGED <<vars, calling, others>>

\* The return, and the rest of the turn of the loop.
Return ==
  /\ calling
  /\ R!Finished
  /\ SetupRc
  /\ calling' = FALSE
  /\ ip' = 1
  /\ val' = {}
  /\ UNCHANGED <<pci, fetched, registers>>

Boot == Outside \/ CallSetupRc \/ Setup \/ Return

(***************************************************************************)
(* A controller ends its speed change, whether it is being set up or not.  *)
(***************************************************************************)
OtherSpeedChangeEnds(p) ==
  /\ p # pci.port
  /\ R!Requested(others[p].regs)
  /\ others' = [others EXCEPT
       ![p].regs[R!PCIE_LINK_WIDTH_SPEED_CONTROL] = @ \ {R!PORT_LOGIC_SPEED_CHANGE}]
  /\ UNCHANGED <<vars, call, bankOnWrite, regs, gen3_sel, gen3, atu, inUse>>

Hardware ==
  \/ R!SpeedChangeEnds /\ UNCHANGED <<vars, calling, others>>
  \/ \E p \in Ports : OtherSpeedChangeEnds(p)

(***************************************************************************)
(* A restart of the processor.  The image may be loaded again or still be  *)
(* in memory with its tables filled in; no register of the subsystem is    *)
(* touched.                                                                *)
(***************************************************************************)
Restart ==
  /\ Goto(pc, "instance")
  /\ pc # "instance"
  /\ i' = 0 /\ controller' = 0 /\ case' = 0 /\ link_mode' = 0
  /\ controllers' \in {controllers, [p \in Ports |-> Blank]}
  /\ polling' = FALSE
  /\ calling' = FALSE /\ ip' = 1 /\ fetched' = FALSE /\ val' = {}
  /\ UNCHANGED <<build, resets, subsys_control, links, hold, counter, current, next,
                 time, start, gap, elapsed, pci, registers>>

SystemNext == Boot \/ Hardware \/ Restart

(***************************************************************************)
(* The processor executes the program.  Restarts and speed changes may     *)
(* come at any time or never.                                              *)
(***************************************************************************)
SystemSpec == SystemInit /\ [][SystemNext]_allVars /\ WF_allVars(Boot)

-----------------------------------------------------------------------------
(***************************************************************************)
(* Properties.                                                             *)
(***************************************************************************)
Field(p, reg, h, l) == Of(p).regs[reg] \cap (l .. h)

LinkFields(p) ==
  <<Field(p, R!PCIE_PORT_LINK_CONTROL, 21, 16),
    Field(p, R!PCIE_LINK_WIDTH_SPEED_CONTROL, 12, 8),
    Field(p, R!PCIE_PORT_FORCE_OFF, 7, 0),
    Field(p, R!PCI_CLASS_REVISION, 31, 16)>>

\* The registers are those of a complete set-up with the lanes and order of
\* the tables, all windows are enabled and read-only fields protected.
Ready(p) ==
  /\ R!PortReady(Of(p).regs, Table(build)[p])
  /\ R!PCIE_DBI_RO_WR_EN \notin Of(p).regs[R!PCIE_MISC_CONTROL_1_OFF]
  /\ {Of(p).gen3[n] \cap {R!GEN3_BIT} : n \in 0 .. 1} = {{R!GEN3_BIT}}
  /\ Enabled(p) = R!Regions

Settled ==
  /\ pc = "done"
  /\ ltssm = ActivePorts(build)
  /\ \A p \in ltssm : Ready(p) /\ R!Translates(Of(p).atu, Enabled(p), p)

(***************************************************************************)
(* Once the LTSSM of a controller has been started, the mode, width, link  *)
(* number and class of its port never change again, not even for the time  *)
(* between two accesses, although a later boot sets the controller up      *)
(* again without resetting it.  This is about the registers: the link      *)
(* itself also depends on the PHY, whose reset every boot asserts.         *)
(***************************************************************************)
LinkFieldsStable == [][\A p \in ltssm : LinkFields(p)' = LinkFields(p)]_allVars

(***************************************************************************)
(* A region that is enabled holds its complete window, in every controller *)
(* and at every time: also when a set-up was cut short between two of the  *)
(* eight writes, and while a later boot writes a window that has been in   *)
(* use since the last one.                                                 *)
(***************************************************************************)
EnabledIsWhole == \A p \in Ports : R!Complete(Of(p).atu, Enabled(p), p)

(***************************************************************************)
(* Whatever interrupted set-ups have left behind, subsys_link_init_post    *)
(* starts the LTSSM of a controller, for the first time or again, only     *)
(* when its registers are those of a complete set-up.                      *)
(***************************************************************************)
StartsReadyPorts ==
  [][pc = "post" /\ pc' # "instance" /\ <<pc, case>>' # <<pc, case>>
       => Ready(PostPort(case))]_allVars

(***************************************************************************)
(* A speed change is requested only of a link whose width, mode, number    *)
(* and class are in place and whose windows are enabled.  A request that   *)
(* an earlier boot has left pending may end while a later set-up holds a   *)
(* copy of the register, whose write-back then repeats the request.        *)
(***************************************************************************)
SpeedChangeWhenInPlace ==
  [][\A p \in Ports : ~R!Requested(Of(p).regs) /\ R!Requested(Of(p).regs)'
       => R!LinkInPlace(Of(p).regs, Table(build)[p]) /\ Enabled(p) = R!Regions]_allVars

(***************************************************************************)
(* If the restarts stop, pci_platform_init ends with every wanted          *)
(* controller started, ready and translating its aperture, whatever the    *)
(* boots that were interrupted have left.                                  *)
(***************************************************************************)
RecoversFromRestarts == []<>(pc = "instance") \/ <>[]Settled
=============================================================================
