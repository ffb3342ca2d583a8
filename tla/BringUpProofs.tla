---------------------------- MODULE BringUpProofs ---------------------------
(***************************************************************************)
(* Proofs about what pci_platform_init amounts to, for every set of builds *)
(* and every counter: the lanes it hands out, the controllers it starts,   *)
(* and that it implements BringUp.  The invariant of PlatformProofs says   *)
(* where the program is; this module adds what the second switch has done. *)
(***************************************************************************)
EXTENDS PlatformProofs

-----------------------------------------------------------------------------
(***************************************************************************)
(* The tables.                                                             *)
(***************************************************************************)

\* The controllers that the switch of subsys_link_init_post starts before it
\* reaches a case, and those it has started at its end.
StartedBefore(b, c) == {PostPort(m) : m \in b.mode .. c - 1}
StartedAtEnd(b) == StartedBefore(b, IF b.dpu THEN b.mode + 1 ELSE 4)

\* What a table has to be for LanesDivide, also when part of it has been used.
TableSound(t) ==
  /\ t[X16].lane_num + t[X8].lane_num + t[X4_0].lane_num + t[X4_1].lane_num <= 16
  /\ \A p \in Ports : t[p].lane_num \in Nat
  /\ \A p \in Ports : t[p].active =>
       /\ t[p].lane_num > 0 /\ t[p].lane_num <= PhysicalWidth[p + 1]
       /\ t[p].order \in 0 .. 3
  /\ \A p, q \in Ports : t[p].active /\ t[q].active /\ t[p].order = t[q].order => p = q
  /\ t[X16].active => t[X16].order = 0
  /\ (\E p \in Ports : t[p].active) => \E p \in Ports : t[p].active /\ t[p].order = 0

\* The entries of a table, one by one.
LEMMA SettingFields ==
  ASSUME NEW lanes, NEW ord
  PROVE  /\ Setting(lanes, ord).lane_num = lanes
         /\ Setting(lanes, ord).order = ord
         /\ Setting(lanes, ord).active <=> ord # NO_ORDER
BY DEF Setting

LEMMA CaseEntries ==
  ASSUME NEW a, NEW b, NEW c, NEW d, NEW w, NEW x, NEW y, NEW z
  PROVE  /\ Case(<<a, b, c, d>>, <<w, x, y, z>>)[0] = Setting(a, w)
         /\ Case(<<a, b, c, d>>, <<w, x, y, z>>)[1] = Setting(b, x)
         /\ Case(<<a, b, c, d>>, <<w, x, y, z>>)[2] = Setting(c, y)
         /\ Case(<<a, b, c, d>>, <<w, x, y, z>>)[3] = Setting(d, z)
BY DEF Case, Ports, NumPorts

LEMMA OnlyFourEntries ==
  ASSUME NEW q \in Ports, NEW p \in Ports
  PROVE  OnlyFour(q)[p] = IF p = q THEN Setting(4, 0) ELSE Setting(0, NO_ORDER)
BY DEF OnlyFour, Unused

LEMMA TableCases ==
  ASSUME NEW b \in AllBuilds
  PROVE  \/ \E q \in Ports : Table(b) = OnlyFour(q)
         \/ Table(b) = Case(<<4, 4, 4, 4>>, <<0, 1, 2, 3>>)
         \/ Table(b) = Case(<<8, 4, 0, 4>>, <<0, 1, NO_ORDER, 2>>)
         \/ Table(b) = Case(<<8, 8, 0, 0>>, <<0, 1, NO_ORDER, NO_ORDER>>)
         \/ Table(b) = Case(<<16, 0, 0, 0>>, <<0, NO_ORDER, NO_ORDER, NO_ORDER>>)
<1> USE DEF LINK_MODE_4_4_4_4, LINK_MODE_8_4_0_4, LINK_MODE_8_8_0_0, LINK_MODE_16_0_0_0
<1>1. LastCase(b) \in {0, 1, 2, 3}
  BY DEF LastCase, AllBuilds, LinkModes
<1>2. QED
  BY <1>1 DEF Table, DpuCase, ServerCase, Ports, NumPorts, X16, X8, X4_0, X4_1

LEMMA TableDivides ==
  ASSUME NEW b \in AllBuilds
  PROVE  TableSound(Table(b))
<1> USE SettingFields DEF X16, X8, X4_0, X4_1, NO_ORDER
<1>0. /\ Ports = {0, 1, 2, 3}
      /\ PhysicalWidth[1] = 16 /\ PhysicalWidth[2] = 8
      /\ PhysicalWidth[3] = 4 /\ PhysicalWidth[4] = 4
  BY DEF Ports, NumPorts, PhysicalWidth
<1>1. ASSUME NEW q \in Ports PROVE TableSound(OnlyFour(q))
  <2> DEFINE t == OnlyFour(q)
  <2>1. t[q] = Setting(4, 0) /\ \A p \in Ports \ {q} : t[p] = Setting(0, NO_ORDER)
    BY OnlyFourEntries
  <2> HIDE DEF t
  <2>2. /\ t[q].lane_num = 4 /\ t[q].order = 0 /\ t[q].active
        /\ \A p \in Ports \ {q} : t[p].lane_num = 0 /\ ~t[p].active
    <3>1. \A p \in Ports \ {q} : t[p].lane_num = 0
      BY <2>1
    <3>2. \A p \in Ports \ {q} : ~t[p].active
      BY <2>1
    <3>3. QED
      BY <2>1, <3>1, <3>2
  <2>3. t[0].lane_num + t[1].lane_num + t[2].lane_num + t[3].lane_num = 4
    BY <1>0, <2>2
  <2>4. TableSound(t)
    BY <1>0, <2>2, <2>3 DEF TableSound
  <2>5. QED
    BY <2>4 DEF t
<1>2. TableSound(Case(<<4, 4, 4, 4>>, <<0, 1, 2, 3>>))
  <2> DEFINE t == Case(<<4, 4, 4, 4>>, <<0, 1, 2, 3>>)
  <2>1. t[0] = Setting(4, 0) /\ t[1] = Setting(4, 1)
    BY CaseEntries
  <2>2. t[2] = Setting(4, 2) /\ t[3] = Setting(4, 3)
    BY CaseEntries
  <2> HIDE DEF t
  <2>3. TableSound(t)
    BY <1>0, <2>1, <2>2 DEF TableSound
  <2>4. QED
    BY <2>3 DEF t
<1>3. TableSound(Case(<<8, 4, 0, 4>>, <<0, 1, NO_ORDER, 2>>))
  <2> DEFINE t == Case(<<8, 4, 0, 4>>, <<0, 1, NO_ORDER, 2>>)
  <2>1. t[0] = Setting(8, 0) /\ t[1] = Setting(4, 1)
    BY CaseEntries
  <2>2. t[2] = Setting(0, NO_ORDER) /\ t[3] = Setting(4, 2)
    BY CaseEntries
  <2> HIDE DEF t
  <2>3. TableSound(t)
    BY <1>0, <2>1, <2>2 DEF TableSound
  <2>4. QED
    BY <2>3 DEF t
<1>4. TableSound(Case(<<8, 8, 0, 0>>, <<0, 1, NO_ORDER, NO_ORDER>>))
  <2> DEFINE t == Case(<<8, 8, 0, 0>>, <<0, 1, NO_ORDER, NO_ORDER>>)
  <2>1. t[0] = Setting(8, 0) /\ t[1] = Setting(8, 1)
    BY CaseEntries
  <2>2. t[2] = Setting(0, NO_ORDER) /\ t[3] = Setting(0, NO_ORDER)
    BY CaseEntries
  <2> HIDE DEF t
  <2>3. TableSound(t)
    BY <1>0, <2>1, <2>2 DEF TableSound
  <2>4. QED
    BY <2>3 DEF t
<1>5. TableSound(Case(<<16, 0, 0, 0>>, <<0, NO_ORDER, NO_ORDER, NO_ORDER>>))
  <2> DEFINE t == Case(<<16, 0, 0, 0>>, <<0, NO_ORDER, NO_ORDER, NO_ORDER>>)
  <2>1. t[0] = Setting(16, 0) /\ t[1] = Setting(0, NO_ORDER)
    BY CaseEntries
  <2>2. t[2] = Setting(0, NO_ORDER) /\ t[3] = Setting(0, NO_ORDER)
    BY CaseEntries
  <2> HIDE DEF t
  <2>3. TableSound(t)
    BY <1>0, <2>1, <2>2 DEF TableSound
  <2>4. QED
    BY <2>3 DEF t
<1>6. QED
  BY TableCases, <1>1, <1>2, <1>3, <1>4, <1>5

\* The two switches: in a build whose first switch breaks where it should, the
\* second starts the controllers that the first marked active.
LEMMA SwitchesAgree ==
  ASSUME NEW b \in AllBuilds, LastCase(b) = b.mode
  PROVE  ActivePorts(b) = StartedAtEnd(b)
<1> USE DEF X16, X8, X4_0, X4_1, LINK_MODE_4_4_4_4, LINK_MODE_8_4_0_4, LINK_MODE_8_8_0_0,
            LINK_MODE_16_0_0_0
<1>1. /\ b.mode \in {0, 1, 2, 3} /\ b.dpu \in BOOLEAN
      /\ Ports = {0, 1, 2, 3}
  BY DEF AllBuilds, LinkModes, Ports, NumPorts
<1>2. ASSUME b.dpu PROVE ActivePorts(b) = StartedAtEnd(b)
  <2>1. Table(b) = OnlyFour(PostPort(b.mode)) /\ PostPort(b.mode) \in Ports
    BY <1>1, <1>2 DEF Table, DpuCase, PostPort
  <2>2. StartedAtEnd(b) = {PostPort(b.mode)}
    BY <1>1, <1>2 DEF StartedAtEnd, StartedBefore
  <2>3. \A p \in Ports : Table(b)[p].active <=> p = PostPort(b.mode)
    BY <2>1, OnlyFourEntries, SettingFields DEF NO_ORDER
  <2>4. QED
    BY <2>1, <2>2, <2>3 DEF ActivePorts
<1>3. ASSUME ~b.dpu PROVE ActivePorts(b) = StartedAtEnd(b)
  <2>1. StartedAtEnd(b) = {PostPort(m) : m \in b.mode .. 3}
    BY <1>1, <1>3 DEF StartedAtEnd, StartedBefore
  <2>2. Table(b) = ServerCase(b.mode)
    BY <1>3 DEF Table
  <2>3. CASE b.mode = 0
    <3>1. Table(b) = Case(<<4, 4, 4, 4>>, <<0, 1, 2, 3>>)
      BY <2>2, <2>3 DEF ServerCase
    <3>2. Table(b)[0].active /\ Table(b)[1].active /\ Table(b)[2].active /\ Table(b)[3].active
      BY <3>1, CaseEntries, SettingFields DEF NO_ORDER
    <3>3. ActivePorts(b) = {0, 1, 2, 3}
      BY <1>1, <3>2 DEF ActivePorts
    <3>4. StartedAtEnd(b) = {0, 1, 2, 3}
      BY <2>1, <2>3 DEF PostPort
    <3>5. QED
      BY <3>3, <3>4
  <2>4. CASE b.mode = 1
    <3>1. Table(b) = Case(<<8, 4, 0, 4>>, <<0, 1, NO_ORDER, 2>>)
      BY <2>2, <2>4 DEF ServerCase
    <3>2. Table(b)[0].active /\ Table(b)[1].active /\ ~Table(b)[2].active /\ Table(b)[3].active
      BY <3>1, CaseEntries, SettingFields DEF NO_ORDER
    <3>3. ActivePorts(b) = {0, 1, 3}
      BY <1>1, <3>2 DEF ActivePorts
    <3>4. StartedAtEnd(b) = {0, 1, 3}
      BY <2>1, <2>4 DEF PostPort
    <3>5. QED
      BY <3>3, <3>4
  <2>5. CASE b.mode = 2
    <3>1. Table(b) = Case(<<8, 8, 0, 0>>, <<0, 1, NO_ORDER, NO_ORDER>>)
      BY <2>2, <2>5 DEF ServerCase
    <3>2. Table(b)[0].active /\ Table(b)[1].active /\ ~Table(b)[2].active /\ ~Table(b)[3].active
      BY <3>1, CaseEntries, SettingFields DEF NO_ORDER
    <3>3. ActivePorts(b) = {0, 1}
      BY <1>1, <3>2 DEF ActivePorts
    <3>4. StartedAtEnd(b) = {0, 1}
      BY <2>1, <2>5 DEF PostPort
    <3>5. QED
      BY <3>3, <3>4
  <2>6. CASE b.mode = 3
    <3>1. Table(b) = Case(<<16, 0, 0, 0>>, <<0, NO_ORDER, NO_ORDER, NO_ORDER>>)
      BY <2>2, <2>6 DEF ServerCase
    <3>2. Table(b)[0].active /\ ~Table(b)[1].active /\ ~Table(b)[2].active /\ ~Table(b)[3].active
      BY <3>1, CaseEntries, SettingFields DEF NO_ORDER
    <3>3. ActivePorts(b) = {0}
      BY <1>1, <3>2 DEF ActivePorts
    <3>4. StartedAtEnd(b) = {0}
      BY <2>1, <2>6 DEF PostPort
    <3>5. QED
      BY <3>3, <3>4
  <2>7. QED
    BY <1>1, <2>3, <2>4, <2>5, <2>6
<1>4. QED
  BY <1>1, <1>2, <1>3

-----------------------------------------------------------------------------
(***************************************************************************)
(* The second switch: nothing is started before it is entered, and inside  *)
(* it, or after it, exactly the cases from the link mode on have been      *)
(* executed; a DPU build has executed one.                                 *)
(***************************************************************************)
PostInv ==
  /\ pc \notin {"post", "done"} => ltssm = {}
  /\ pc = "post" => /\ case \in build.mode .. 3
                    /\ build.dpu => case = build.mode
                    /\ ltssm = StartedBefore(build, case)
  /\ pc = "done" => ltssm = StartedAtEnd(build)

BringUpInv == PlatformInv /\ PostInv

LEMMA InitPostInv == Init => PostInv
BY DEF Init, PostInv

\* Executing one more case adds its controller.
LEMMA OneMoreCase ==
  ASSUME NEW b \in AllBuilds, NEW c \in b.mode .. 3
  PROVE  StartedBefore(b, c + 1) = StartedBefore(b, c) \cup {PostPort(c)}
<1>1. b.mode \in Int
  BY DEF AllBuilds, LinkModes
<1>2. b.mode .. (c + 1) - 1 = (b.mode .. c - 1) \cup {c}
  BY <1>1
<1>3. QED
  BY <1>2 DEF StartedBefore

LEMMA NextPostInv == PlatformInv /\ PostInv /\ [Next]_vars => PostInv'
<1> SUFFICES ASSUME PlatformInv, PostInv, [Next]_vars PROVE PostInv'
  OBVIOUS
<1> USE DEF PostInv
<1>0. build \in AllBuilds /\ build.mode \in 0 .. 3 /\ build.dpu \in BOOLEAN
  BY PlatformAssumption DEF PlatformInv, TypeOK, AllBuilds, LinkModes
<1>1. CASE LoopEnds
  <2>1. build.mode .. build.mode - 1 = {}
    BY <1>0
  <2>2. StartedBefore(build, build.mode) = {}
    BY <2>1 DEF StartedBefore
  <2>3. QED
    BY <1>0, <1>1, <2>2 DEF LoopEnds, Goto, memory, links
<1>2. CASE StartLtssm
  <2>1. pc = "post" /\ case \in build.mode .. 3
    BY <1>2 DEF StartLtssm
  <2>2. ltssm' = StartedBefore(build, case + 1) /\ build' = build
    BY <1>0, <1>2, <2>1, OneMoreCase DEF StartLtssm, memory
  <2>3. CASE LeavesSwitch
    <3>1. pc' = "done"
      BY <1>2, <2>3 DEF StartLtssm
    <3>2. case + 1 = IF build.dpu THEN build.mode + 1 ELSE 4
      BY <1>0, <2>1, <2>3 DEF LeavesSwitch, LINK_MODE_16_0_0_0
    <3>3. QED
      BY <2>2, <3>1, <3>2 DEF StartedAtEnd
  <2>4. CASE ~LeavesSwitch
    <3>1. pc' = "post" /\ case' = case + 1
      BY <1>2, <2>1, <2>4 DEF StartLtssm
    <3>2. ~build.dpu /\ case + 1 \in build.mode .. 3
      BY <1>0, <2>1, <2>4 DEF LeavesSwitch, LINK_MODE_16_0_0_0
    <3>3. QED
      BY <2>2, <3>1, <3>2
  <2>5. QED
    BY <2>3, <2>4
<1>3. CASE \/ InstanceSubsystem \/ AssertPhyReset \/ ReleaseCore \/ CoresReleased
           \/ ReleasePhy \/ CallUdelay \/ SubsysLinkInitPre
  BY <1>3 DEF InstanceSubsystem, AssertPhyReset, ReleaseCore, CoresReleased, ReleasePhy,
              CallUdelay, SubsysLinkInitPre, Goto, memory, locals, links
<1>4. CASE PollUdelay \/ SetupRc \/ SkipInactive
  BY <1>4 DEF PollUdelay, AfterUdelay, SetupRc, SkipInactive, memory, locals, links
<1>5. CASE CounterTicks \/ UNCHANGED vars
  BY <1>5 DEF CounterTicks, vars, memory, locals, links
<1>6. QED
  BY <1>1, <1>2, <1>3, <1>4, <1>5 DEF Next, Program

LEMMA BringUpInvHolds == Spec => []BringUpInv
BY InitPlatformInv, NextPlatformInv, InitPostInv, NextPostInv, PTL DEF Spec, BringUpInv

-----------------------------------------------------------------------------
(***************************************************************************)
(* StartedAreActive, for every set of builds: the two switches of          *)
(* pcie_duowen.c agree on the controllers a build uses, wherever the first *)
(* one does not fall through.                                              *)
(***************************************************************************)
THEOREM SwitchesStartActive == Spec => []StartedAreActive
<1>1. BringUpInv => StartedAreActive
  <2> SUFFICES ASSUME BringUpInv, pc = "done", LastCase(build) = build.mode
               PROVE  ltssm = ActivePorts(build)
    BY DEF StartedAreActive
  <2>1. build \in AllBuilds
    BY PlatformAssumption DEF BringUpInv, PlatformInv, TypeOK
  <2>2. QED
    BY <2>1, SwitchesAgree DEF BringUpInv, PostInv
<1>2. QED
  BY <1>1, BringUpInvHolds, PTL

\* Before subsys_link_init_pre has filled them in, the tables are blank.
TablesInv == controllers \in {[p \in Ports |-> Blank], Table(build)}

LEMMA TablesInvHolds == Spec => []TablesInv
<1>1. Init => TablesInv
  BY DEF Init, TablesInv
<1>2. PlatformInv /\ TablesInv /\ [Next]_vars => TablesInv'
  <2> SUFFICES ASSUME PlatformInv, TablesInv, [Next]_vars PROVE TablesInv'
    OBVIOUS
  <2>1. CASE SubsysLinkInitPre
    <3>1. PlatformInv' /\ pc' = "mode_udelay"
      BY <2>1, NextPlatformInv DEF SubsysLinkInitPre, Goto
    <3>2. controllers' = Table(build)'
      BY <3>1 DEF PlatformInv, ResetInv, AfterTables
    <3>3. QED
      BY <3>2 DEF TablesInv
  <2>2. CASE UNCHANGED <<build, controllers>>
    BY <2>2 DEF TablesInv
  <2>3. QED
    BY <2>1, <2>2
       DEF Next, Program, vars, memory, InstanceSubsystem, AssertPhyReset, ReleaseCore,
           CoresReleased, ReleasePhy, CallUdelay, PollUdelay, SetupRc, SkipInactive,
           LoopEnds, StartLtssm, CounterTicks
<1>3. QED
  BY <1>1, <1>2, InitPlatformInv, NextPlatformInv, PTL DEF Spec

(***************************************************************************)
(* LanesDivide, for every set of builds: every row of the tables, and, at  *)
(* every time of the loop of pci_platform_init, which sets the controllers *)
(* up one after the other, what has been handed out so far fits the PHY,   *)
(* and its link numbers are distinct and start at 0.                       *)
(***************************************************************************)
THEOREM LanesAlwaysDivide == Spec => []LanesDivide
<1> USE DEF X16, X8, X4_0, X4_1
<1>0. Ports = {0, 1, 2, 3}
  BY DEF Ports, NumPorts
<1>1. ASSUME NEW t, TableSound(t) PROVE Divides(t)
  <2>1. \A p \in Ports : t[p].active =>
          /\ t[p].lane_num > 0 /\ t[p].lane_num <= PhysicalWidth[p + 1]
          /\ t[p].order \in 0 .. 3
    BY <1>1 DEF TableSound
  <2>2. QED
    BY <1>1, <2>1 DEF TableSound, Divides
<1>2. Divides([p \in Ports |-> Blank])
  BY <1>0 DEF Divides, Blank
\* What the loop hands out is a table cut off below controller.
<1>3. ASSUME NEW t, TableSound(t), NEW u, NEW c \in 0 .. 4,
             \A p \in Ports : IF p < c THEN t[p].active /\ u[p] = t[p] ELSE u[p] = Unused
      PROVE  Divides(u)
  <2>1. Unused.lane_num = 0 /\ ~Unused.active
    BY DEF Unused, Setting
  <2>2. ASSUME NEW p \in Ports PROVE u[p].lane_num \in Nat /\ u[p].lane_num <= t[p].lane_num
    <3>1. t[p].lane_num \in Nat
      BY <1>3 DEF TableSound
    <3>2. u[p] = t[p] \/ u[p].lane_num = 0
      BY <1>3, <2>1
    <3>3. QED
      BY <3>1, <3>2
  <2>3. u[X16].lane_num + u[X8].lane_num + u[X4_0].lane_num + u[X4_1].lane_num <= 16
    <3>1. t[0].lane_num + t[1].lane_num + t[2].lane_num + t[3].lane_num <= 16
          /\ \A p \in Ports : t[p].lane_num \in Nat
      BY <1>3 DEF TableSound
    <3>2. QED
      BY <1>0, <2>2, <3>1
  <2> DEFINE used == {p \in Ports : u[p].active}
  <2>4. \A p \in used : p \in Ports /\ p < c /\ t[p].active /\ u[p] = t[p]
    BY <1>3, <2>1
  <2>5. \A p \in used : /\ u[p].lane_num > 0 /\ u[p].lane_num <= PhysicalWidth[p + 1]
                        /\ u[p].order \in 0 .. 3
    BY <1>3, <2>4 DEF TableSound
  <2>6. \A p, q \in used : u[p].order = u[q].order => p = q
    <3>1. ASSUME NEW p \in used, NEW q \in used, u[p].order = u[q].order PROVE p = q
      <4>1. /\ p \in Ports /\ t[p].active /\ u[p] = t[p]
            /\ q \in Ports /\ t[q].active /\ u[q] = t[q]
        BY <2>4
      <4>2. QED
        BY <1>3, <3>1, <4>1 DEF TableSound
    <3>2. QED
      BY <3>1
  <2>7. ASSUME NEW p \in used PROVE \E q \in used : u[q].order = 0
    <3>1. p \in Ports /\ p < c
      BY <2>4
    <3>2. 0 < c /\ 0 \in Ports
      BY <1>0, <3>1
    <3>3. t[0].active /\ u[0] = t[0] /\ 0 \in used
      BY <1>3, <3>2
    <3>4. QED
      BY <1>3, <3>3 DEF TableSound
  <2>8. QED
    BY <2>3, <2>5, <2>6, <2>7 DEF Divides
<1>4. PlatformInv /\ TablesInv => LanesDivide
  <2> SUFFICES ASSUME PlatformInv, TablesInv PROVE Divides(controllers) /\ Divides(rc)
    BY DEF LanesDivide
  <2>1. build \in AllBuilds /\ controller \in 0 .. 4
    BY PlatformAssumption DEF PlatformInv, TypeOK, NumPorts
  <2>2. TableSound(Table(build))
    BY <2>1, TableDivides
  <2>3. Divides(controllers)
    BY <1>1, <1>2, <2>2 DEF TablesInv
  <2>4. \A p \in Ports : IF p < controller
                         THEN Table(build)[p].active /\ rc[p] = Table(build)[p]
                         ELSE rc[p] = Unused
    BY DEF PlatformInv, LoopInv
  <2>5. Divides(rc)
    BY <1>3, <2>1, <2>2, <2>4
  <2>6. QED
    BY <2>3, <2>5
<1>5. QED
  BY <1>4, TablesInvHolds, InitPlatformInv, NextPlatformInv, PTL DEF Spec

-----------------------------------------------------------------------------
(***************************************************************************)
(* The refinement of BringUp.                                              *)
(***************************************************************************)

\* The state BringUp sees, without the CASE.
LEMMA PortStates ==
  ASSUME NEW p \in Ports
  PROVE  /\ build \notin SoundBuilds => PortState(p) = "off"
         /\ build \in SoundBuilds /\ p \in ltssm => PortState(p) = "training"
         /\ build \in SoundBuilds /\ p \notin ltssm /\ rc[p] # Unused =>
              PortState(p) = "configured"
         /\ build \in SoundBuilds /\ p \notin ltssm /\ rc[p] = Unused =>
              PortState(p) = "off"
BY DEF PortState, Configured

LEMMA SamePortState ==
  ASSUME UNCHANGED <<build, rc, ltssm>>
  PROVE  UNCHANGED Abstract!bringUpVars
BY DEF Abstract!bringUpVars, PortState, Configured

LEMMA InitRefines == Init => Abstract!Init
<1> SUFFICES ASSUME Init PROVE Abstract!Init
  OBVIOUS
<1>1. \A p \in Ports : PortState(p) = "off"
  BY PortStates DEF Init
<1>2. ActivePorts(build) \subseteq Ports
  BY DEF ActivePorts
<1>3. QED
  BY <1>1, <1>2 DEF Abstract!Init

\* In a sound build the set-up of a controller is Configure.
LEMMA SetupRcRefines ==
  ASSUME BringUpInv, SetupRc
  PROVE  [Abstract!Next]_(Abstract!bringUpVars)
<1> PICK c \in Ports : c = controller
  BY DEF SetupRc, BringUpInv, PlatformInv, TypeOK, LoopInv, InLoopOrLater, Ports, NumPorts
<1>1. /\ build \in AllBuilds /\ ltssm = {}
      /\ rc \in [Ports -> Settings]
      /\ Table(build)[c].active
      /\ rc' = [rc EXCEPT ![c] = Table(build)[c]]
      /\ rc[c] = Unused
      /\ UNCHANGED <<build, ltssm>>
  <2>1. controllers = Table(build)
    BY DEF SetupRc, BringUpInv, PlatformInv, ResetInv, AfterTables, InLoopOrLater
  <2>2. QED
    BY <2>1, PlatformAssumption
       DEF SetupRc, BringUpInv, PlatformInv, TypeOK, LoopInv, PostInv, memory
<1>2. rc'[c] # Unused
  BY <1>1, TableType
<1>3. CASE build \notin SoundBuilds
  <2>1. \A p \in Ports : PortState(p) = "off" /\ PortState(p)' = "off"
    BY <1>1, <1>3 DEF PortState
  <2>2. QED
    BY <1>1, <2>1 DEF Abstract!bringUpVars
<1>4. CASE build \in SoundBuilds
  <2>1. PortState(c) = "off" /\ PortState(c)' = "configured"
    BY <1>1, <1>2, <1>4 DEF PortState, Configured
  <2>2. \A p \in Ports \ {c} : PortState(p)' = PortState(p)
    BY <1>1, <1>4 DEF PortState, Configured
  <2>3. \A p \in Ports : PortState(p) # "training"
    BY <1>1, <1>4 DEF PortState
  <2>4. c \in ActivePorts(build) /\ UNCHANGED ActivePorts(build)
    BY <1>1 DEF ActivePorts
  <2>5. Abstract!Configure(c)
    BY <1>1, <2>1, <2>2, <2>3, <2>4 DEF Abstract!Configure
  <2>6. QED
    BY <1>1, <2>5 DEF Abstract!Next
<1>5. QED
  BY <1>3, <1>4

\* In a sound build a case of the second switch is Train of its controller.
LEMMA StartLtssmRefines ==
  ASSUME BringUpInv, StartLtssm
  PROVE  [Abstract!Next]_(Abstract!bringUpVars)
<1> PICK p : p = PostPort(case)
  OBVIOUS
<1>1. /\ build \in AllBuilds /\ pc = "post" /\ case \in build.mode .. 3
      /\ ltssm = StartedBefore(build, case)
      /\ ltssm' = ltssm \cup {p}
      /\ UNCHANGED <<build, rc>>
  BY PlatformAssumption
     DEF StartLtssm, BringUpInv, PlatformInv, TypeOK, PostInv, memory
<1>2. CASE build \notin SoundBuilds
  <2>1. \A q \in Ports : PortState(q) = "off" /\ PortState(q)' = "off"
    BY <1>1, <1>2 DEF PortState
  <2>2. QED
    BY <1>1, <2>1 DEF Abstract!bringUpVars
<1>3. CASE build \in SoundBuilds
  <2>1. LastCase(build) = build.mode /\ Configured = ActivePorts(build)
    <3>1. Configured = ActivePrefix(build)
      BY <1>1, InvImpliesActivePrefix DEF BringUpInv, ConfiguredIsActivePrefix
    <3>2. QED
      BY <1>3, <3>1 DEF SoundBuilds
  <2>2. p \in StartedAtEnd(build)
    <3>1. build.mode \in 0 .. 3 /\ build.dpu \in BOOLEAN /\ (build.dpu => case = build.mode)
      BY <1>1 DEF AllBuilds, LinkModes, BringUpInv, PostInv
    <3>2. case \in build.mode .. (IF build.dpu THEN build.mode + 1 ELSE 4) - 1
      BY <1>1, <3>1
    <3>3. QED
      BY <3>2 DEF StartedAtEnd, StartedBefore
  <2>3. p \in Configured /\ p \in Ports
    BY <1>1, <2>1, <2>2, SwitchesAgree DEF Configured
  <2>4. p \notin ltssm
    <3>1. build.mode \in 0 .. 3
      BY <1>1 DEF AllBuilds, LinkModes
    <3>2. \A m \in build.mode .. case - 1 : PostPort(m) # PostPort(case)
      BY <1>1, <3>1
         DEF PostPort, X16, X8, X4_0, X4_1, LINK_MODE_4_4_4_4, LINK_MODE_8_4_0_4,
             LINK_MODE_8_8_0_0, LINK_MODE_16_0_0_0
    <3>3. QED
      BY <1>1, <3>2 DEF StartedBefore
  <2>5. PortState(p) = "configured" /\ PortState(p)' = "training"
    BY <1>1, <1>3, <2>3, <2>4 DEF PortState, Configured
  <2>6. \A q \in Ports \ {p} : PortState(q)' = PortState(q)
    BY <1>1, <1>3 DEF PortState, Configured
  <2>7. \A q \in ActivePorts(build) : PortState(q) # "off"
    <3>1. \A q \in Configured : q \in Ports /\ rc[q] # Unused
      BY DEF Configured
    <3>2. QED
      BY <1>3, <2>1, <3>1, PortStates
  <2>8. ActivePorts(build) \subseteq Ports /\ UNCHANGED ActivePorts(build)
    BY <1>1 DEF ActivePorts
  <2>9. Abstract!Train(p)
    BY <2>3, <2>5, <2>6, <2>7, <2>8 DEF Abstract!Train
  <2>10. QED
    BY <2>3, <2>9 DEF Abstract!Next
<1>4. QED
  BY <1>2, <1>3

(***************************************************************************)
(* In the builds whose active controllers come first and whose first       *)
(* switch breaks where it should, pci_platform_init does what BringUp      *)
(* allows, step by step, whatever the delays and the counter do.           *)
(***************************************************************************)
THEOREM PlatformImplementsBringUp == Spec => ImplementsBringUp
<1>1. BringUpInv /\ [Next]_vars => [Abstract!Next]_(Abstract!bringUpVars)
  <2> SUFFICES ASSUME BringUpInv, [Next]_vars
               PROVE  [Abstract!Next]_(Abstract!bringUpVars)
    OBVIOUS
  <2>1. CASE SetupRc
    BY <2>1, SetupRcRefines
  <2>2. CASE StartLtssm
    BY <2>2, StartLtssmRefines
  <2>3. CASE ~SetupRc /\ ~StartLtssm
    <3>1. UNCHANGED <<build, rc, ltssm>>
      BY <2>3 DEF Next, Program, vars, InstanceSubsystem, AssertPhyReset, ReleaseCore,
           CoresReleased, ReleasePhy, CallUdelay, PollUdelay, SubsysLinkInitPre,
           SkipInactive, LoopEnds, CounterTicks, memory, links
    <3>2. QED
      BY <3>1, SamePortState
  <2>4. QED
    BY <2>1, <2>2, <2>3
<1>2. QED
  BY <1>1, InitRefines, BringUpInvHolds, PTL DEF Spec, ImplementsBringUp, Abstract!Spec
=============================================================================
