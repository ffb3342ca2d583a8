--------------------------- MODULE PlatformProofs ---------------------------
(***************************************************************************)
(* Proofs about pci_platform_init for every set of builds, every counter   *)
(* width, every tick rate and every read latency.  The invariant of the    *)
(* busy wait is the one of UdelayProofs.                                   *)
(***************************************************************************)
EXTENDS Platform, TLAPS

DelayProofs == INSTANCE UdelayProofs WITH Times <- {1}

-----------------------------------------------------------------------------
(***************************************************************************)
(* The inductive invariant, by parts.                                      *)
(***************************************************************************)
InLoopOrLater == {"loop", "post", "done"}
AfterTables   == {"mode_udelay", "mode_poll"} \cup InLoopOrLater
AfterReset    == {"link_init_pre"} \cup AfterTables

ResetInv ==
  /\ pc # "instance" => link_mode = build.mode
  /\ pc = "cores" => \A p \in Ports : p < i => p \in cores_released
  /\ pc \in {"phy_release"} \cup AfterReset => cores_released = Ports
  /\ pc \in AfterReset => phy_released
  /\ pc \in AfterTables => controllers = Table(build) /\ subsys_control = build.mode

(***************************************************************************)
(* hold runs at least as long as the delay that follows the write.         *)
(***************************************************************************)
TimerInv ==
  /\ polling <=> pc \in {"phy_poll", "mode_poll"}
  /\ pc \in {"phy_poll", "cores", "phy_release", "mode_poll"} \cup InLoopOrLater =>
       /\ time = 1
       /\ hold >= elapsed \/ hold = HoldMax

(***************************************************************************)
(* The controllers below the pointer are active and set up, those from it  *)
(* on are untouched, and once a turn is skipped the pointer stands on an   *)
(* inactive one.                                                           *)
(***************************************************************************)
LoopInv ==
  /\ pc \notin InLoopOrLater => controller = 0
  /\ pc \in InLoopOrLater => controller <= i
  /\ \A p \in Ports :
       IF p < controller
       THEN Table(build)[p].active /\ rc[p] = Table(build)[p]
       ELSE rc[p] = Unused
  /\ controller < i /\ pc \in InLoopOrLater => ~Table(build)[controller].active
  /\ pc \in {"post", "done"} => i = NumPorts

PlatformInv ==
  /\ TypeOK
  /\ DelayProofs!DelayInv
  /\ ResetInv
  /\ TimerInv
  /\ LoopInv

-----------------------------------------------------------------------------
(***************************************************************************)
(* Facts about the tables.                                                 *)
(***************************************************************************)
LEMMA TableType ==
  ASSUME NEW b \in AllBuilds
  PROVE  /\ Table(b) \in [Ports -> Settings]
         /\ \A p \in Ports : Table(b)[p].active => Table(b)[p] # Unused
<1>1. ASSUME NEW q \in Ports
      PROVE  /\ OnlyFour(q) \in [Ports -> Settings]
             /\ \A p \in Ports : OnlyFour(q)[p].active => OnlyFour(q)[p] # Unused
  BY DEF OnlyFour, Setting, Settings, Unused, NO_ORDER, Ports, NumPorts
<1>2. ASSUME NEW lanes \in [1 .. 4 -> {0, 4, 8, 16}],
             NEW orders \in [1 .. 4 -> {0, 1, 2, 3, NO_ORDER}]
      PROVE  /\ Case(lanes, orders) \in [Ports -> Settings]
             /\ \A p \in Ports :
                  Case(lanes, orders)[p].active => Case(lanes, orders)[p] # Unused
  <2>1. ASSUME NEW p \in Ports
        PROVE  /\ Setting(lanes[p + 1], orders[p + 1]) \in Settings
               /\ Case(lanes, orders)[p] = Setting(lanes[p + 1], orders[p + 1])
    <3>1. lanes[p + 1] \in {0, 4, 8, 16} /\ orders[p + 1] \in {0, 1, 2, 3, NO_ORDER}
      BY DEF Ports, NumPorts
    <3>2. QED
      BY <3>1 DEF Case, Setting, Settings
  <2>2. ASSUME NEW p \in Ports
        PROVE  Case(lanes, orders)[p].active => Case(lanes, orders)[p] # Unused
    <3>1. ~Unused.active
      BY DEF Unused, Setting
    <3>2. QED
      BY <3>1
  <2>3. QED
    BY <2>1, <2>2 DEF Case
<1> DEFINE Good(t) == /\ t \in [Ports -> Settings]
                      /\ \A p \in Ports : t[p].active => t[p] # Unused
<1>3. ASSUME NEW m \in LinkModes PROVE Good(DpuCase(m))
  BY <1>1
     DEF DpuCase, LinkModes, X16, X8, X4_0, X4_1, Ports, NumPorts,
         LINK_MODE_4_4_4_4, LINK_MODE_8_4_0_4, LINK_MODE_8_8_0_0, LINK_MODE_16_0_0_0
<1>4. ASSUME NEW m \in LinkModes PROVE Good(ServerCase(m))
  <2>1. /\ Good(Case(<<4, 4, 4, 4>>, <<0, 1, 2, 3>>))
        /\ Good(Case(<<8, 4, 0, 4>>, <<0, 1, NO_ORDER, 2>>))
        /\ Good(Case(<<8, 8, 0, 0>>, <<0, 1, NO_ORDER, NO_ORDER>>))
        /\ Good(Case(<<16, 0, 0, 0>>, <<0, NO_ORDER, NO_ORDER, NO_ORDER>>))
    <3>1. /\ <<4, 4, 4, 4>> \in [1 .. 4 -> {0, 4, 8, 16}]
          /\ <<8, 4, 0, 4>> \in [1 .. 4 -> {0, 4, 8, 16}]
          /\ <<8, 8, 0, 0>> \in [1 .. 4 -> {0, 4, 8, 16}]
          /\ <<16, 0, 0, 0>> \in [1 .. 4 -> {0, 4, 8, 16}]
      OBVIOUS
    <3>2. /\ <<0, 1, 2, 3>> \in [1 .. 4 -> {0, 1, 2, 3, NO_ORDER}]
          /\ <<0, 1, NO_ORDER, 2>> \in [1 .. 4 -> {0, 1, 2, 3, NO_ORDER}]
          /\ <<0, 1, NO_ORDER, NO_ORDER>> \in [1 .. 4 -> {0, 1, 2, 3, NO_ORDER}]
          /\ <<0, NO_ORDER, NO_ORDER, NO_ORDER>> \in [1 .. 4 -> {0, 1, 2, 3, NO_ORDER}]
      OBVIOUS
    <3>3. QED
      BY <1>2, <3>1, <3>2
  <2>2. \/ ServerCase(m) = Case(<<4, 4, 4, 4>>, <<0, 1, 2, 3>>)
        \/ ServerCase(m) = Case(<<8, 4, 0, 4>>, <<0, 1, NO_ORDER, 2>>)
        \/ ServerCase(m) = Case(<<8, 8, 0, 0>>, <<0, 1, NO_ORDER, NO_ORDER>>)
        \/ ServerCase(m) = Case(<<16, 0, 0, 0>>, <<0, NO_ORDER, NO_ORDER, NO_ORDER>>)
    BY DEF ServerCase, LinkModes,
           LINK_MODE_4_4_4_4, LINK_MODE_8_4_0_4, LINK_MODE_8_8_0_0, LINK_MODE_16_0_0_0
  <2>3. QED
    BY <2>1, <2>2
<1>5. LastCase(b) \in LinkModes
  BY DEF LastCase, AllBuilds, LinkModes, LINK_MODE_8_8_0_0
<1>6. QED
  BY <1>3, <1>4, <1>5 DEF Table

-----------------------------------------------------------------------------
(***************************************************************************)
(* The delay.                                                              *)
(***************************************************************************)
LEMMA DelayStep ==
  ASSUME DelayProofs!DelayInv, [Delay!Next]_delayVars
  PROVE  DelayProofs!DelayInv'
<1>1. [DelayProofs!Next]_delayVars
  BY DEF Delay!Next, Delay!Enter, Delay!Poll, Delay!Tick, Delay!Deadline, Delay!Ticks,
         DelayProofs!Next, DelayProofs!Enter, DelayProofs!Poll, DelayProofs!Tick,
         DelayProofs!Deadline, DelayProofs!Ticks
<1>2. DelayProofs!UdelayAssumption
  BY PlatformAssumption DEF DelayProofs!UdelayAssumption
<1>3. QED
  BY <1>1, <1>2, DelayProofs!NextDelayInv DEF DelayProofs!delayVars, delayVars

\* Before the first call of udelay its invariant holds.
LEMMA DelayInit == Delay!Init => DelayProofs!DelayInv
<1>1. Delay!Init => DelayProofs!Init
  BY DEF Delay!Init, DelayProofs!Init, Delay!Word, DelayProofs!Word
<1>2. DelayProofs!UdelayAssumption
  BY PlatformAssumption DEF DelayProofs!UdelayAssumption
<1>3. QED
  BY <1>1, <1>2, DelayProofs!InitDelayInv

\* To udelay, a step of the bring-up is a step of its own or nothing.
LEMMA NextIsDelayStep == [Next]_vars => [Delay!Next]_delayVars
BY DEF Next, Program, vars, InstanceSubsystem, AssertPhyReset, ReleaseCore, CoresReleased,
       ReleasePhy, CallUdelay, PollUdelay, SubsysLinkInitPre, SetupRc, SkipInactive,
       LoopEnds, StartLtssm, CounterTicks, Delay!Next

-----------------------------------------------------------------------------
(***************************************************************************)
(* The invariant.                                                          *)
(***************************************************************************)
LEMMA InitPlatformInv == Init => PlatformInv
<1> SUFFICES ASSUME Init PROVE PlatformInv
  OBVIOUS
<1> USE PlatformAssumption
<1>1. DelayProofs!DelayInv
  BY DelayInit DEF Init
<1>2. Delay!TypeOK
  BY <1>1 DEF DelayProofs!DelayInv, DelayProofs!TypeOK, Delay!TypeOK, DelayProofs!Word,
              Delay!Word
<1>3. TypeOK
  BY <1>2 DEF Init, TypeOK, PointerInBounds, Locations, LinkModes, Settings, Blank, Unused,
              Setting, HoldMax, Ports, NumPorts
<1>4. ResetInv /\ TimerInv /\ LoopInv
  BY DEF Init, Delay!Init, ResetInv, TimerInv, LoopInv, InLoopOrLater, AfterTables,
         AfterReset, Ports, NumPorts
<1>5. QED
  BY <1>1, <1>3, <1>4 DEF PlatformInv

\* Every step of pci_platform_init, and every tick, keeps the invariant.
LEMMA NextPlatformInv == PlatformInv /\ [Next]_vars => PlatformInv'
<1> SUFFICES ASSUME PlatformInv, [Next]_vars PROVE PlatformInv'
  OBVIOUS
<1> USE PlatformAssumption
<1>1. DelayProofs!DelayInv'
  BY NextIsDelayStep, DelayStep DEF PlatformInv
<1>2. Delay!TypeOK'
  BY <1>1 DEF DelayProofs!DelayInv, DelayProofs!TypeOK, Delay!TypeOK, DelayProofs!Word,
              Delay!Word
<1>0. HoldMax \in Nat
  BY DEF HoldMax
<1>4. ResetInv'
  <2> USE DEF PlatformInv, TypeOK, ResetInv, AfterReset, AfterTables, InLoopOrLater
  <2>1. CASE InstanceSubsystem
    BY <2>1 DEF InstanceSubsystem, Goto, memory
  <2>2. CASE AssertPhyReset
    BY <2>2 DEF AssertPhyReset, Goto, memory
  <2>3. CASE ReleaseCore
    BY <2>3 DEF ReleaseCore, memory, Ports, NumPorts
  <2>4. CASE CoresReleased
    <3>1. \A p \in Ports : p < NumPorts
      BY DEF Ports, NumPorts
    <3>2. cores_released = Ports
      BY <2>4, <3>1 DEF CoresReleased, Goto
    <3>3. QED
      BY <2>4, <3>2 DEF CoresReleased, Goto, memory, resets
  <2>5. CASE ReleasePhy
    BY <2>5 DEF ReleasePhy, Goto, memory
  <2>6. CASE CallUdelay
    BY <2>6 DEF CallUdelay, Goto, memory, resets
  <2>7. CASE PollUdelay
    BY <2>7 DEF PollUdelay, AfterUdelay, memory, resets, Ports, NumPorts
  <2>8. CASE SubsysLinkInitPre
    BY <2>8 DEF SubsysLinkInitPre, Goto, resets, AllBuilds
  <2>9. CASE SetupRc \/ SkipInactive
    BY <2>9 DEF SetupRc, SkipInactive, memory, resets
  <2>10. CASE LoopEnds \/ StartLtssm
    BY <2>10 DEF LoopEnds, StartLtssm, Goto, memory, resets
  <2>11. CASE CounterTicks \/ UNCHANGED vars
    BY <2>11 DEF CounterTicks, vars, locals, memory, resets
  <2>12. QED
    BY <2>1, <2>2, <2>3, <2>4, <2>5, <2>6, <2>7, <2>8, <2>9, <2>10, <2>11
       DEF Next, Program
<1>5. TimerInv'
  <2> USE DEF PlatformInv, TypeOK, TimerInv, InLoopOrLater
  <2>1. CASE InstanceSubsystem \/ AssertPhyReset
    BY <2>1 DEF InstanceSubsystem, AssertPhyReset, Goto, delayVars
  <2>2. CASE ReleaseCore \/ CoresReleased \/ ReleasePhy
    BY <2>2 DEF ReleaseCore, CoresReleased, ReleasePhy, Goto, delayVars
  <2>3. CASE CallUdelay
    BY <2>3 DEF CallUdelay, Delay!Enter, Goto
  <2>4. CASE PollUdelay
    BY <2>4 DEF PollUdelay, AfterUdelay, Delay!Poll
  <2>5. CASE SubsysLinkInitPre
    BY <2>5 DEF SubsysLinkInitPre, Goto, delayVars
  <2>6. CASE SetupRc \/ SkipInactive \/ LoopEnds
    BY <2>6 DEF SetupRc, SkipInactive, LoopEnds, Goto, delayVars
  <2>7. CASE StartLtssm
    BY <2>7 DEF StartLtssm, delayVars
  <2>8. CASE CounterTicks
    BY <2>8 DEF CounterTicks, Delay!Tick, Delay!TypeOK, HoldMax
  <2>9. CASE UNCHANGED vars
    BY <2>9 DEF vars, delayVars
  <2>10. QED
    BY <2>1, <2>2, <2>3, <2>4, <2>5, <2>6, <2>7, <2>8, <2>9 DEF Next, Program
<1>6. LoopInv'
  <2> USE DEF PlatformInv, TypeOK, LoopInv, InLoopOrLater
  <2>1. CASE InstanceSubsystem \/ AssertPhyReset \/ CoresReleased \/ ReleasePhy
    BY <2>1
       DEF InstanceSubsystem, AssertPhyReset, CoresReleased, ReleasePhy, Goto, memory,
           locals, links
  <2>2. CASE ReleaseCore \/ CallUdelay \/ SubsysLinkInitPre
    BY <2>2
       DEF ReleaseCore, CallUdelay, SubsysLinkInitPre, Goto, memory, locals, links
  <2>3. CASE PollUdelay
    BY <2>3 DEF PollUdelay, AfterUdelay, memory, locals, links
  <2>4. CASE SetupRc
    <3>1. /\ controllers = Table(build)
          /\ controller \in Ports
      BY <2>4 DEF SetupRc, ResetInv, AfterTables, Ports, NumPorts
    <3>2. controller = i
      BY <2>4, <3>1 DEF SetupRc
    <3>3. QED
      BY <2>4, <3>1, <3>2 DEF SetupRc, memory, locals, links, Ports, NumPorts
  <2>5. CASE SkipInactive
    BY <2>5 DEF SkipInactive, memory, locals, links, ResetInv, AfterTables
  <2>6. CASE LoopEnds \/ StartLtssm
    BY <2>6 DEF LoopEnds, StartLtssm, Goto, memory, locals, links
  <2>7. CASE CounterTicks \/ UNCHANGED vars
    BY <2>7 DEF CounterTicks, vars, memory, locals, links
  <2>8. QED
    BY <2>1, <2>2, <2>3, <2>4, <2>5, <2>6, <2>7 DEF Next, Program
\* The pointer does not run ahead of the counter of the loop.
<1>3. PointerInBounds'
  <2>1. i' \in Int /\ controller' \in Int
    BY DEF PlatformInv, TypeOK, Next, Program, vars, locals, InstanceSubsystem,
           AssertPhyReset, ReleaseCore, CoresReleased, ReleasePhy, CallUdelay, PollUdelay,
           SubsysLinkInitPre, SetupRc, SkipInactive, LoopEnds, StartLtssm, CounterTicks
  <2>2. pc' = "loop" => controller' <= i'
    BY <1>6 DEF LoopInv, InLoopOrLater
  <2>3. QED
    BY <2>1, <2>2 DEF PointerInBounds, NumPorts
<1>7. TypeOK'
  <2> USE DEF PlatformInv, TypeOK, Locations
  <2>1. CASE InstanceSubsystem
    BY <1>2, <1>3, <2>1 DEF InstanceSubsystem, Goto, AllBuilds, locals, memory, resets, links
  <2>2. CASE AssertPhyReset
    <3>1. 0 \in 0 .. HoldMax
      BY <1>0
    <3>2. phy_released' \in BOOLEAN /\ hold' \in 0 .. HoldMax
      BY <2>2, <3>1 DEF AssertPhyReset
    <3>3. QED
      BY <1>2, <1>3, <2>2, <3>2 DEF AssertPhyReset, Goto, locals, memory, links
  <2>3. CASE ReleaseCore
    BY <1>2, <1>3, <2>3 DEF ReleaseCore, locals, memory, resets, links, Ports, NumPorts
  <2>4. CASE CoresReleased
    BY <1>2, <1>3, <2>4 DEF CoresReleased, Goto, locals, memory, resets, links
  <2>5. CASE ReleasePhy
    BY <1>2, <1>3, <2>5 DEF ReleasePhy, Goto, locals, memory, resets, links
  <2>6. CASE CallUdelay
    BY <1>2, <1>3, <2>6 DEF CallUdelay, Goto, locals, memory, resets, links
  <2>7. CASE PollUdelay
    BY <1>2, <1>3, <2>7 DEF PollUdelay, AfterUdelay, locals, memory, resets, links, NumPorts
  <2>8. CASE SubsysLinkInitPre
    BY <1>0, <1>2, <1>3, <2>8, TableType
       DEF SubsysLinkInitPre, Goto, locals, memory, resets, links, AllBuilds
  <2>9. CASE SetupRc
    BY <1>2, <1>3, <2>9
       DEF SetupRc, locals, memory, resets, links, Ports, NumPorts, LoopInv, InLoopOrLater
  <2>10. CASE SkipInactive
    BY <1>2, <1>3, <2>10 DEF SkipInactive, locals, memory, resets, links, NumPorts
  <2>11. CASE LoopEnds
    BY <1>2, <1>3, <2>11 DEF LoopEnds, Goto, locals, memory, resets, links, AllBuilds
  <2>12. CASE StartLtssm
    BY <1>2, <1>3, <2>12
       DEF StartLtssm, LeavesSwitch, locals, memory, resets, links, LinkModes, PostPort,
           LINK_MODE_4_4_4_4, LINK_MODE_8_4_0_4, LINK_MODE_8_8_0_0, LINK_MODE_16_0_0_0,
           X16, X8, X4_0, X4_1, Ports, NumPorts
  <2>13. CASE CounterTicks
    BY <1>0, <1>2, <1>3, <2>13 DEF CounterTicks, locals, memory, resets, links
  <2>14. CASE UNCHANGED vars
    BY <1>2, <1>3, <2>14 DEF vars, locals, memory, resets, links
  <2>15. QED
    BY <2>1, <2>2, <2>3, <2>4, <2>5, <2>6, <2>7, <2>8, <2>9, <2>10, <2>11, <2>12,
       <2>13, <2>14 DEF Next, Program
<1>8. QED
  BY <1>1, <1>4, <1>5, <1>6, <1>7 DEF PlatformInv

-----------------------------------------------------------------------------
(***************************************************************************)
(* Every variable of the bring-up keeps its type, and while the loop has a *)
(* turn left its pointer, which it follows without looking, is inside      *)
(* controllers[].                                                          *)
(***************************************************************************)
THEOREM PlatformTypeCorrect == Spec => []TypeOK
BY InitPlatformInv, NextPlatformInv, PTL DEF Spec, PlatformInv

(***************************************************************************)
(* In every build the loop sets up the controllers before the first        *)
(* inactive one, and no others.                                            *)
(***************************************************************************)
LEMMA InvImpliesActivePrefix == PlatformInv => ConfiguredIsActivePrefix
<1> SUFFICES ASSUME PlatformInv PROVE ConfiguredIsActivePrefix
  OBVIOUS
<1> USE PlatformAssumption
<1>1. Table(build) \in [Ports -> Settings]
      /\ \A p \in Ports : Table(build)[p].active => Table(build)[p] # Unused
  BY TableType DEF PlatformInv, TypeOK
<1>2. \A p \in Ports : p \in Configured <=> p < controller
  BY <1>1 DEF PlatformInv, LoopInv, Configured
<1>3. controller \in 0 .. NumPorts
  BY DEF PlatformInv, TypeOK
<1>4. \A p \in Ports : p < controller => p \in ActivePrefix(build)
  BY <1>3 DEF PlatformInv, LoopInv, ActivePrefix, Ports, NumPorts
<1>5. \A p \in Configured : p \in ActivePrefix(build) /\ rc[p] = Table(build)[p]
  BY <1>2, <1>4 DEF PlatformInv, LoopInv, Configured
<1>6. ASSUME pc \in {"post", "done"}, NEW p \in Ports, p >= controller
      PROVE  p \notin ActivePrefix(build)
  <2>1. controller < i
    BY <1>3, <1>6 DEF PlatformInv, LoopInv, Ports, NumPorts
  <2>2. ~Table(build)[controller].active
    BY <1>6, <2>1 DEF PlatformInv, LoopInv, InLoopOrLater
  <2>3. controller \in 0 .. p
    BY <1>3, <1>6 DEF Ports, NumPorts
  <2>4. QED
    BY <2>2, <2>3 DEF ActivePrefix
<1>7. ASSUME pc \in {"post", "done"} PROVE Configured = ActivePrefix(build)
  <2>1. ActivePrefix(build) \subseteq Ports /\ Configured \subseteq Ports
    BY DEF ActivePrefix, Configured
  <2>2. \A p \in Ports : p < controller \/ p >= controller
    BY <1>3 DEF Ports, NumPorts
  <2>3. QED
    BY <1>2, <1>4, <1>6, <1>7, <2>1, <2>2
<1>8. QED
  BY <1>5, <1>7 DEF ConfiguredIsActivePrefix

\* ConfiguredIsActivePrefix, for every speed of the counter and every build:
\* the loop of pci_platform_init never gets past an inactive controller.
THEOREM LoopStopsAtInactive == Spec => []ConfiguredIsActivePrefix
BY InitPlatformInv, NextPlatformInv, InvImpliesActivePrefix, PTL DEF Spec

(***************************************************************************)
(* No DBI register is written before the resets are released and the lanes *)
(* are divided.                                                            *)
(***************************************************************************)
THEOREM SetupFollowsReset == Spec => SetupAfterReset
<1>1. PlatformInv /\ [Next]_vars =>
        [rc' # rc => /\ phy_released
                     /\ cores_released = Ports
                     /\ subsys_control = build.mode]_vars
  <2> SUFFICES ASSUME PlatformInv, [Next]_vars, rc' # rc
               PROVE  /\ phy_released
                      /\ cores_released = Ports
                      /\ subsys_control = build.mode
    OBVIOUS
  <2>1. SetupRc
    BY DEF Next, Program, vars, links, InstanceSubsystem, AssertPhyReset, ReleaseCore,
           CoresReleased, ReleasePhy, CallUdelay, PollUdelay, SubsysLinkInitPre,
           SkipInactive, LoopEnds, StartLtssm, CounterTicks
  <2>2. QED
    BY <2>1 DEF SetupRc, PlatformInv, ResetInv, AfterReset, AfterTables, InLoopOrLater
<1>2. QED
  BY <1>1, InitPlatformInv, NextPlatformInv, PTL DEF Spec, SetupAfterReset

(***************************************************************************)
(* The PHY reset is held, and the lanes settle, for the times the code     *)
(* asks for, unless the deadline of the wait wraps.                        *)
(***************************************************************************)
THEOREM DelaysAreHonoured == Spec => DelaysHonoured
<1> DEFINE Honoured == Delay!NoWrap =>
             /\ ~phy_released /\ phy_released' => hold >= Ticks100ns
             /\ rc' # rc => hold >= Ticks300ns
<1>1. ASSUME PlatformInv, [Next]_vars PROVE [Honoured]_vars
  <2> SUFFICES ASSUME Delay!NoWrap, \/ ~phy_released /\ phy_released'
                                   \/ rc' # rc
               PROVE  hold >= Ticks100ns /\ hold >= Ticks300ns
    OBVIOUS
  <2>1. pc \in {"phy_release", "loop"}
    BY <1>1
       DEF Next, Program, vars, links, resets, InstanceSubsystem, AssertPhyReset,
           ReleaseCore, CoresReleased, ReleasePhy, CallUdelay, PollUdelay,
           SubsysLinkInitPre, SetupRc, SkipInactive, LoopEnds, StartLtssm, CounterTicks,
           Goto
  <2>2. ~polling /\ time = 1 /\ (hold >= elapsed \/ hold = HoldMax)
    BY <1>1, <2>1 DEF PlatformInv, TimerInv, InLoopOrLater
  <2>3. elapsed >= TicksPerUs
    BY <1>1, <2>2, PlatformAssumption
       DEF PlatformInv, DelayProofs!DelayInv, DelayProofs!WaitsLongEnough,
           DelayProofs!NoWrap, Delay!NoWrap, DelayProofs!Ticks, Delay!Ticks
  <2>4. hold \in Int /\ elapsed \in Int
    BY <1>1, PlatformAssumption DEF PlatformInv, TypeOK, Delay!TypeOK, HoldMax
  <2>5. QED
    BY <2>2, <2>3, <2>4, PlatformAssumption DEF HoldMax
<1>2. QED
  BY <1>1, InitPlatformInv, NextPlatformInv, PTL DEF Spec, DelaysHonoured
=============================================================================
