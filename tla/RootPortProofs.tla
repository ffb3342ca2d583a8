--------------------------- MODULE RootPortProofs ---------------------------
(***************************************************************************)
(* Proofs about dw_pcie_setup_rc, for every set of controllers, every      *)
(* content the registers may have after reset, every geometry of the       *)
(* address map and every set of errors that may be logged meanwhile.       *)
(***************************************************************************)
EXTENDS RootPortProgram

-----------------------------------------------------------------------------
(***************************************************************************)
(* The invariant.  Each part says what holds by the time the program has   *)
(* come to a place.                                                        *)
(***************************************************************************)

\* What a read has brought, until it is written back.  The controller may end
\* its speed change or log errors meanwhile; nothing else changes under the
\* driver.
FetchedInv ==
  fetched =>
    /\ ip <= 41
    /\ Access(pci, ip).op = "rmw"
    /\ LET reg == Access(pci, ip).reg
       IN  /\ reg \notin {PCI_COMMAND, PCIE_LINK_WIDTH_SPEED_CONTROL} => val = Value(reg)
           /\ reg = PCIE_LINK_WIDTH_SPEED_CONTROL =>
                SymDiff(val, regs[reg]) \subseteq {PORT_LOGIC_SPEED_CHANGE}

\* The read-only fields can be written from the first access to the last.
UnlockedInv ==
  /\ ip \in 2 .. 41 => PCIE_DBI_RO_WR_EN \in regs[PCIE_MISC_CONTROL_1_OFF]
  /\ ip = 42 => PCIE_DBI_RO_WR_EN \notin regs[PCIE_MISC_CONTROL_1_OFF]

\* No speed change is pending before access 40 asks for one.
NoSpeedChangeInv ==
  /\ ip <= 40 => ~SpeedChange
  /\ ip = 4 /\ fetched => PORT_LOGIC_SPEED_CHANGE \notin val

FieldIs(reg, h, l, n) == HasField(regs, reg, h, l, n)

\* Each field of PortReady once the access that writes it has passed.
FieldsInv ==
  /\ ip > 2 => 30 \in regs[PCIE_TIMER_CTRL_MAX_FUN_NUM_OFF]
  /\ ip > 3 => FieldIs(PCIE_PORT_LINK_CONTROL, 21, 16, 2 * pci.lane_num - 1)
  /\ ip > 4 => FieldIs(PCIE_LINK_WIDTH_SPEED_CONTROL, 12, 8, pci.lane_num)
  /\ ip > 5 => FieldIs(PCIE_PORT_FORCE_OFF, 7, 0, pci.order)
  /\ ip > 10 => regs[PCI_BASE_ADDRESS_1] = {}
  /\ ip > 11 => FieldIs(PCI_INTERRUPT_LINE, 15, 8, 1)
  /\ ip > 12 => /\ FieldIs(PCI_PRIMARY_BUS, 7, 0, 0)
                /\ FieldIs(PCI_PRIMARY_BUS, 15, 8, 1)
                /\ FieldIs(PCI_PRIMARY_BUS, 23, 16, 255)
  /\ ip > 13 => FieldIs(PCI_COMMAND, 15, 0, 1 + 2 + 4 + 256)
  /\ ip > 38 => regs[PCI_BASE_ADDRESS_0] = {}
  /\ ip > 39 => FieldIs(PCI_CLASS_REVISION, 31, 16, 6 * 256 + 4)

\* Access 6 selects rate 0 and access 7 rate 1, which stays selected: also when
\* the controller is set up again.
RatesInv ==
  /\ gen3_sel \in {{}, {24}}
  /\ ip = 7 => gen3_sel = {}
  /\ ip > 7 => gen3_sel = {24}
  /\ ip > 6 \/ gen3_sel = {24} => GEN3_BIT \in gen3[0]
  /\ ip > 8 => GEN3_BIT \in gen3[1]

\* A field of a region is written before its enable, and stays.  An earlier
\* set-up may have enabled the region, having written the same.
AtuInv ==
  \A k \in Regions :
    /\ \A j \in 1 .. 7 : ip > 13 + 8 * k + j \/ atu[k].enable =>
         atu[k][AtuFields[j]] = Registers(Window(pci.port, k))[AtuFields[j]]
    /\ ip > 21 + 8 * k => atu[k].enable
    /\ k \in inUse => atu[k].enable

RootPortInv ==
  /\ TypeOK
  /\ FetchedInv /\ UnlockedInv /\ NoSpeedChangeInv /\ FieldsInv /\ RatesInv /\ AtuInv

-----------------------------------------------------------------------------
(***************************************************************************)
(* The steps, by the place of the access.                                  *)
(***************************************************************************)
RmwPlaces == (1 .. 8) \cup (11 .. 13) \cup (39 .. 41)
PlainPlaces == (1 .. 5) \cup (9 .. 13) \cup (38 .. 41)

Fetch(i) ==
  /\ ip = i /\ ~fetched
  /\ val' = Value(Access(pci, i).reg)
  /\ fetched' = TRUE
  /\ UNCHANGED <<fixed, ip, hardware>>

Leave(i) == ip = i /\ ip' = i + 1 /\ fetched' = FALSE

\* The word an access writes.
WordAt(i) ==
  LET a == Access(pci, i)
  IN  IF a.op = "write" THEN a.value ELSE (val \ a.clear) \cup a.set

StorePlain(i) ==
  /\ Leave(i)
  /\ Access(pci, i).op = "rmw" => fetched
  /\ regs' = [regs EXCEPT ![Access(pci, i).reg] = Written(Access(pci, i).reg, WordAt(i))]
  /\ UNCHANGED <<fixed, val, gen3_sel, gen3, atu, inUse>>

StoreRate(i) ==
  /\ Leave(i) /\ fetched
  /\ gen3_sel' = WordAt(i) \cap RATE_SHADOW_SEL_MASK
  /\ \E copy \in {Selected(gen3_sel), Selected(WordAt(i) \cap RATE_SHADOW_SEL_MASK)} :
       /\ bankOnWrite = "selected" => copy = Selected(gen3_sel)
       /\ gen3' = [gen3 EXCEPT ![copy] = WordAt(i) \ RATE_SHADOW_SEL_MASK]
  /\ UNCHANGED <<fixed, val, regs, atu, inUse>>

StoreField(k, j) ==
  /\ Leave(13 + 8 * k + j)
  /\ atu' = [atu EXCEPT ![k][AtuFields[j]] =
               Registers(Window(pci.port, k))[AtuFields[j]]]
  /\ UNCHANGED <<fixed, val, regs, gen3_sel, gen3, inUse>>

Enable(k) ==
  /\ Leave(21 + 8 * k)
  /\ atu' = [atu EXCEPT ![k]["enable"] = TRUE]
  /\ UNCHANGED <<fixed, val, regs, gen3_sel, gen3, inUse>>

LEMMA DriverSteps ==
  ASSUME ip \in 1 .. 42, Driver
  PROVE  \/ \E i \in RmwPlaces : Fetch(i)
         \/ \E i \in PlainPlaces : StorePlain(i)
         \/ \E i \in 6 .. 8 : StoreRate(i)
         \/ \E k \in Regions, j \in 1 .. 7 : StoreField(k, j)
         \/ \E k \in Regions : Enable(k)
<1>1. ProgramIs(pci)
  BY ProgramAt
<1>2. ip \in 1 .. 41
  BY <1>1 DEF Driver, Running, Program, ProgramIs
<1> DEFINE a == Access(pci, ip)
<1>3. PlaceIs(pci, ip)
  BY <1>2, Places
<1>4. ReadRegister(a) \/ WriteBack(a) \/ WriteRegister(a) \/ WriteAtuRegister(a)
  BY DEF Driver, Program, Access
<1> HIDE DEF a
<1>5. CASE ReadRegister(a)
  <2>1. ip \in RmwPlaces
    BY <1>3, <1>5 DEF a, ReadRegister, PlaceIs, RmwPlaces
  <2>2. Fetch(ip)
    BY <1>5 DEF a, ReadRegister, Fetch
  <2>3. QED
    BY <2>1, <2>2
<1>6. CASE WriteBack(a)
  <2>1. a.op = "rmw" /\ fetched /\ ip \in RmwPlaces
    BY <1>3, <1>6 DEF a, WriteBack, PlaceIs, RmwPlaces
  <2>2. WordAt(ip) = (val \ a.clear) \cup a.set
    BY <2>1 DEF WordAt, a
  <2>3. Store(a.reg, WordAt(ip)) /\ Leave(ip) /\ UNCHANGED <<fixed, val, atu, inUse>>
    BY <1>6, <2>2 DEF WriteBack, Advance, Leave
  <2>4. CASE a.reg = PCIE_GEN3_RELATED_OFF
    <3>1. ip \in 6 .. 8
      BY <1>3, <2>1, <2>4 DEF PlaceIs, RmwPlaces, a
    <3>2. StoreRate(ip)
      BY <2>1, <2>3, <2>4 DEF StoreRate, Store
    <3>3. QED
      BY <3>1, <3>2
  <2>5. CASE a.reg # PCIE_GEN3_RELATED_OFF
    <3>1. ip \in PlainPlaces
      BY <1>3, <2>1, <2>5 DEF PlaceIs, RmwPlaces, PlainPlaces, a
    <3>2. StorePlain(ip)
      BY <2>1, <2>3, <2>5 DEF StorePlain, Store, a
    <3>3. QED
      BY <3>1, <3>2
  <2>6. QED
    BY <2>4, <2>5
<1>7. CASE WriteRegister(a)
  <2>1. a.op = "write" /\ ip \in {9, 10, 38}
    BY <1>3, <1>7 DEF a, WriteRegister, PlaceIs
  <2>2. WordAt(ip) = a.value /\ a.reg # PCIE_GEN3_RELATED_OFF
    BY <1>3, <2>1 DEF WordAt, a, PlaceIs
  <2>3. StorePlain(ip)
    BY <1>7, <2>1, <2>2 DEF WriteRegister, Store, Advance, Leave, StorePlain, a
  <2>4. QED
    BY <2>1, <2>3 DEF PlainPlaces
<1>8. CASE WriteAtuRegister(a)
  <2>1. ip \in 14 .. 37
    BY <1>3, <1>8 DEF a, WriteAtuRegister, PlaceIs
  <2>2. PICK k \in Regions : ip \in 14 + 8 * k .. 21 + 8 * k
    <3>1. ip \in 14 .. 21 \/ ip \in 22 .. 29 \/ ip \in 30 .. 37
      BY <2>1
    <3>2. 14 + 8 * 0 = 14 /\ 14 + 8 * 1 = 22 /\ 14 + 8 * 2 = 30
          /\ 21 + 8 * 0 = 21 /\ 21 + 8 * 1 = 29 /\ 21 + 8 * 2 = 37
      OBVIOUS
    <3>3. QED
      BY <3>1, <3>2 DEF Regions
  <2>3. WindowIs(pci, k)
    BY WindowsAt
  <2>4. CASE ip = 21 + 8 * k
    <3>1. a = WriteAtu(k, "enable", TRUE)
      BY <2>3, <2>4 DEF WindowIs, a
    <3>2. a.region = k /\ a.field = "enable" /\ a.value = TRUE
      BY <3>1 DEF WriteAtu
    <3>3. Enable(k)
      BY <1>8, <2>4, <3>2 DEF WriteAtuRegister, Advance, Leave, Enable
    <3>4. QED
      BY <3>3
  <2>5. CASE ip # 21 + 8 * k
    <3>1. PICK j \in 1 .. 7 : ip = 13 + 8 * k + j
      <4>1. ip - (13 + 8 * k) \in 1 .. 7 /\ ip = 13 + 8 * k + (ip - (13 + 8 * k))
        BY <2>2, <2>5 DEF Regions
      <4>2. QED
        BY <4>1
    <3>2. a = WriteAtu(k, AtuFields[j], Registers(Window(pci.port, k))[AtuFields[j]])
      BY <2>3, <3>1 DEF WindowIs, a
    <3>3. /\ a.region = k /\ a.field = AtuFields[j]
          /\ a.value = Registers(Window(pci.port, k))[AtuFields[j]]
      BY <3>2 DEF WriteAtu
    <3>4. StoreField(k, j)
      BY <1>8, <3>1, <3>3 DEF WriteAtuRegister, Advance, Leave, StoreField
    <3>5. QED
      BY <3>4
  <2>6. QED
    BY <2>4, <2>5
<1>9. QED
  BY <1>4, <1>5, <1>6, <1>7, <1>8

LEMMA ProgramLength == Len(Program) = 41
BY ProgramAt DEF ProgramIs, Program

\* A step keeps the controller, and is the driver's or the controller's.
LEMMA NextSteps ==
  ASSUME TypeOK, [Next]_vars
  PROVE  \/ \E i \in RmwPlaces : Fetch(i)
         \/ \E i \in PlainPlaces : StorePlain(i)
         \/ \E i \in 6 .. 8 : StoreRate(i)
         \/ \E k \in Regions, j \in 1 .. 7 : StoreField(k, j)
         \/ \E k \in Regions : Enable(k)
         \/ SpeedChangeEnds
         \/ \E b \in ErrorBits : LogError(b)
         \/ \E k \in Regions : EnableTakesEffect(k)
         \/ UNCHANGED vars
<1>1. ip \in 1 .. 42
  BY ProgramLength DEF TypeOK
<1>2. CASE Driver
  BY <1>1, <1>2, DriverSteps
<1>3. QED
  BY <1>2 DEF Next, Controller

-----------------------------------------------------------------------------
(***************************************************************************)
(* Types.                                                                  *)
(***************************************************************************)
LEMMA SetupIsCall == TypeOK => pci \in Calls
BY RootPortAssumption DEF TypeOK, Calls

LEMMA WordIsWord ==
  ASSUME TypeOK, NEW i \in RmwPlaces \cup PlainPlaces
  PROVE  WordAt(i) \in AnyWord
<1>1. pci \in Calls /\ i \in 1 .. 41
  BY SetupIsCall DEF RmwPlaces, PlainPlaces
<1>2. WordsAre(pci, i) /\ PlaceIs(pci, i)
  BY <1>1, AccessWords, Places
<1> DEFINE a == Access(pci, i)
<1>3. a.op = "write" \/ a.op = "rmw"
  BY <1>2 DEF PlaceIs, RmwPlaces, PlainPlaces
<1>4. CASE a.op = "write"
  BY <1>2, <1>4 DEF WordsAre, WordAt
<1>5. CASE a.op = "rmw"
  BY <1>2, <1>5 DEF WordsAre, WordAt, AnyWord, TypeOK
<1>6. QED
  BY <1>3, <1>4, <1>5

LEMMA WrittenIsWord ==
  ASSUME TypeOK, NEW reg \in PlainRegs, NEW w \in AnyWord
  PROVE  Written(reg, w) \in AnyWord
<1>1. regs[reg] \in AnyWord
  BY DEF TypeOK
<1>2. QED
  BY <1>1 DEF Written, AnyWord

LEMMA PlainPlaceReg ==
  ASSUME NEW c, NEW i \in PlainPlaces
  PROVE  Access(c, i).reg \in PlainRegs
<1>1. PlaceIs(c, i)
  BY Places DEF PlainPlaces
<1>2. QED
  BY <1>1 DEF PlaceIs, PlainPlaces

LEMMA WindowTypes ==
  ASSUME NEW port \in 0 .. 3, NEW k \in Regions
  PROVE  LET r == Registers(Window(port, k))
         IN  /\ r.lwr_base \in 0 .. Half - 1 /\ r.upper_base \in 0 .. Half - 1
             /\ r.lwr_limit \in 0 .. Half - 1 /\ r.upper_limit \in 0 .. Half - 1
             /\ r.lwr_target \in 0 .. Half - 1 /\ r.upper_target \in 0 .. Half - 1
             /\ r.type \in AtuTypes
<1> DEFINE w == Window(port, k)
<1>1. w.cpu \in Address /\ w.pci \in Address /\ w.cpu + w.size - 1 \in Address
  BY WindowsAreAddresses
<1>2. w.type \in AtuTypes
  <2>1. CASE k = 0
    BY <2>1 DEF Window, Call, AtuTypes
  <2>2. CASE k = 1
    BY <2>2 DEF Window, Call, AtuTypes
  <2>3. CASE k = 2
    BY <2>3 DEF Window, Call, AtuTypes
  <2>4. QED
    BY <2>1, <2>2, <2>3 DEF Regions
<1> HIDE DEF w
<1>3. \A n \in Address : Lower(n) \in 0 .. Half - 1 /\ Upper(n) \in 0 .. Half - 1
  BY JoinedHalves
<1>4. /\ Registers(w).lwr_base \in 0 .. Half - 1 /\ Registers(w).upper_base \in 0 .. Half - 1
      /\ Registers(w).lwr_limit \in 0 .. Half - 1 /\ Registers(w).upper_limit \in 0 .. Half - 1
      /\ Registers(w).lwr_target \in 0 .. Half - 1 /\ Registers(w).upper_target \in 0 .. Half - 1
      /\ Registers(w).type \in AtuTypes
  BY <1>1, <1>2, <1>3 DEF Registers
<1>5. QED
  BY <1>4 DEF w

\* A field written to a region leaves registers of a region.
LEMMA FieldType ==
  ASSUME NEW port \in 0 .. 3, NEW k \in Regions, NEW j \in 1 .. 7, NEW r \in AtuRegs
  PROVE  [r EXCEPT ![AtuFields[j]] = Registers(Window(port, k))[AtuFields[j]]] \in AtuRegs
<1> DEFINE v == Registers(Window(port, k))
<1>1. /\ v.lwr_base \in 0 .. Half - 1 /\ v.upper_base \in 0 .. Half - 1
      /\ v.lwr_limit \in 0 .. Half - 1 /\ v.upper_limit \in 0 .. Half - 1
      /\ v.lwr_target \in 0 .. Half - 1 /\ v.upper_target \in 0 .. Half - 1
      /\ v.type \in AtuTypes
  BY WindowTypes
<1> HIDE DEF v
<1>2. CASE j = 1
  <2>1. AtuFields[j] = "lwr_base"
    BY <1>2 DEF AtuFields
  <2>2. [r EXCEPT !.lwr_base = v.lwr_base] \in AtuRegs
    BY <1>1 DEF AtuRegs
  <2>3. QED
    BY <2>1, <2>2 DEF v
<1>3. CASE j = 2
  <2>1. AtuFields[j] = "upper_base"
    BY <1>3 DEF AtuFields
  <2>2. [r EXCEPT !.upper_base = v.upper_base] \in AtuRegs
    BY <1>1 DEF AtuRegs
  <2>3. QED
    BY <2>1, <2>2 DEF v
<1>4. CASE j = 3
  <2>1. AtuFields[j] = "lwr_limit"
    BY <1>4 DEF AtuFields
  <2>2. [r EXCEPT !.lwr_limit = v.lwr_limit] \in AtuRegs
    BY <1>1 DEF AtuRegs
  <2>3. QED
    BY <2>1, <2>2 DEF v
<1>5. CASE j = 4
  <2>1. AtuFields[j] = "upper_limit"
    BY <1>5 DEF AtuFields
  <2>2. [r EXCEPT !.upper_limit = v.upper_limit] \in AtuRegs
    BY <1>1 DEF AtuRegs
  <2>3. QED
    BY <2>1, <2>2 DEF v
<1>6. CASE j = 5
  <2>1. AtuFields[j] = "lwr_target"
    BY <1>6 DEF AtuFields
  <2>2. [r EXCEPT !.lwr_target = v.lwr_target] \in AtuRegs
    BY <1>1 DEF AtuRegs
  <2>3. QED
    BY <2>1, <2>2 DEF v
<1>7. CASE j = 6
  <2>1. AtuFields[j] = "upper_target"
    BY <1>7 DEF AtuFields
  <2>2. [r EXCEPT !.upper_target = v.upper_target] \in AtuRegs
    BY <1>1 DEF AtuRegs
  <2>3. QED
    BY <2>1, <2>2 DEF v
<1>8. CASE j = 7
  <2>1. AtuFields[j] = "type"
    BY <1>8 DEF AtuFields
  <2>2. [r EXCEPT !.type = v.type] \in AtuRegs
    BY <1>1 DEF AtuRegs
  <2>3. QED
    BY <2>1, <2>2 DEF v
<1>9. QED
  BY <1>2, <1>3, <1>4, <1>5, <1>6, <1>7, <1>8

LEMMA InitTypeOK == Init => TypeOK
<1> SUFFICES ASSUME Init PROVE TypeOK
  OBVIOUS
<1>1. PICK reset \in ResetStates :
        /\ regs = [reg \in PlainRegs |-> reset.plain[reg] \ ClearedAtReset(reg)]
        /\ gen3 = [n \in 0 .. 3 |-> reset.gen3[n] \ RATE_SHADOW_SEL_MASK]
  BY DEF Init
<1>2. /\ \A reg \in PlainRegs : reset.plain[reg] \in AnyWord
      /\ \A n \in 0 .. 3 : reset.gen3[n] \in AnyWord
  BY RootPortAssumption
<1>3. regs \in [PlainRegs -> AnyWord]
  BY <1>1, <1>2 DEF AnyWord
<1>4. gen3 \in [0 .. 3 -> SUBSET (Bits \ RATE_SHADOW_SEL_MASK)]
  BY <1>1, <1>2 DEF AnyWord
<1>5. atu \in [Regions -> AtuRegs]
  <2> DEFINE r == [f \in {AtuFields[n] : n \in 1 .. 7} \cup {"enable"} |->
                     IF f = "enable" THEN FALSE ELSE 0]
  <2>1. {AtuFields[n] : n \in 1 .. 7} \cup {"enable"}
          = {"lwr_base", "upper_base", "lwr_limit", "upper_limit",
             "lwr_target", "upper_target", "type", "enable"}
    BY DEF AtuFields
  <2>2. r = [f \in {"lwr_base", "upper_base", "lwr_limit", "upper_limit",
                    "lwr_target", "upper_target", "type", "enable"} |->
               IF f = "enable" THEN FALSE ELSE 0]
    BY <2>1, Zenon
  <2>3. 0 \in 0 .. Half - 1 /\ 0 \in AtuTypes
    BY IatuAssumption DEF AtuTypes, PCIE_ATU_TYPE_MEM
  <2> HIDE DEF r
  <2>4. r \in AtuRegs
    BY <2>2, <2>3 DEF AtuRegs
  <2>5. atu = [k \in Regions |-> r]
    BY DEF Init, r
  <2>6. QED
    BY <2>4, <2>5
<1>6. /\ pci \in Setups /\ bankOnWrite \in {"selected", "written"}
      /\ ip = 1 /\ fetched = FALSE /\ val = {} /\ gen3_sel = {} /\ inUse = {}
  BY DEF Init
<1>7. ip \in 1 .. Len(Program) + 1
  BY <1>6, ProgramLength
<1>8. QED
  BY <1>3, <1>4, <1>5, <1>6, <1>7 DEF TypeOK, AnyWord

LEMMA NextTypeOK ==
  ASSUME TypeOK, [Next]_vars
  PROVE  TypeOK'
<1> USE DEF fixed, hardware, driver
<1>0. /\ pci \in Setups /\ bankOnWrite \in {"selected", "written"}
      /\ ip \in 1 .. 42 /\ fetched \in BOOLEAN /\ val \in AnyWord
      /\ regs \in [PlainRegs -> AnyWord]
      /\ gen3_sel \in SUBSET RATE_SHADOW_SEL_MASK
      /\ gen3 \in [0 .. 3 -> SUBSET (Bits \ RATE_SHADOW_SEL_MASK)]
      /\ atu \in [Regions -> AtuRegs] /\ inUse \in SUBSET Regions
  BY ProgramLength DEF TypeOK
<1>a. ASSUME pci' = pci, bankOnWrite' = bankOnWrite, ip' \in 1 .. 42, fetched' \in BOOLEAN,
             val' \in AnyWord, regs' \in [PlainRegs -> AnyWord],
             gen3_sel' \in SUBSET RATE_SHADOW_SEL_MASK,
             gen3' \in [0 .. 3 -> SUBSET (Bits \ RATE_SHADOW_SEL_MASK)],
             atu' \in [Regions -> AtuRegs], inUse' \in SUBSET Regions
      PROVE  TypeOK'
  <2>1. Program' = Program
    BY <1>a DEF Program
  <2>2. Len(Program') = 41
    BY <2>1, ProgramLength
  <2>3. QED
    BY <1>0, <1>a, <2>2 DEF TypeOK
<1>1. ASSUME NEW i \in RmwPlaces, Fetch(i) PROVE TypeOK'
  <2> DEFINE reg == Access(pci, i).reg
  <2>1. reg \in PlainRegs \cup {PCIE_GEN3_RELATED_OFF}
    <3>1. PlaceIs(pci, i)
      BY Places DEF RmwPlaces
    <3>2. QED
      BY <3>1 DEF PlaceIs, RmwPlaces
  <2> HIDE DEF reg
  <2>2. Value(reg) \in AnyWord
    <3>1. CASE reg = PCIE_GEN3_RELATED_OFF
      <4>1. gen3_sel \subseteq Bits
        BY <1>0, ShadowSelect DEF Bits
      <4>2. gen3[Selected(gen3_sel)] \subseteq Bits
        <5>1. Selected(gen3_sel) \in 0 .. 3
          BY <1>0, ShadowSelect
        <5>2. QED
          BY <1>0, <5>1
      <4>3. QED
        BY <3>1, <4>1, <4>2 DEF Value, AnyWord
    <3>2. CASE reg # PCIE_GEN3_RELATED_OFF
      BY <1>0, <2>1, <3>2 DEF Value
    <3>3. QED
      BY <3>1, <3>2
  <2>3. QED
    BY <1>0, <1>1, <1>a, <2>2 DEF Fetch, reg
<1>2. ASSUME NEW i \in PlainPlaces, StorePlain(i) PROVE TypeOK'
  <2> DEFINE reg == Access(pci, i).reg
             w == Written(reg, WordAt(i))
  <2>1. w \in AnyWord
    BY PlainPlaceReg, WordIsWord, WrittenIsWord
  <2>2. regs' = [regs EXCEPT ![reg] = w]
    BY <1>2 DEF StorePlain
  <2> HIDE DEF w
  <2>3. regs' \in [PlainRegs -> AnyWord]
    BY <1>0, <2>1, <2>2
  <2>4. ip' \in 1 .. 42
    BY <1>2 DEF StorePlain, Leave, PlainPlaces
  <2>5. QED
    BY <1>0, <1>2, <1>a, <2>3, <2>4 DEF StorePlain, Leave
<1>3. ASSUME NEW i \in 6 .. 8, StoreRate(i) PROVE TypeOK'
  <2>1. WordAt(i) \in AnyWord
    BY WordIsWord DEF RmwPlaces
  <2> DEFINE w == WordAt(i)
  <2> HIDE DEF w
  <2>2. PICK copy : gen3' = [gen3 EXCEPT ![copy] = w \ RATE_SHADOW_SEL_MASK]
    BY <1>3 DEF StoreRate, w
  <2>3. gen3' \in [0 .. 3 -> SUBSET (Bits \ RATE_SHADOW_SEL_MASK)]
    BY <1>0, <2>1, <2>2 DEF w, AnyWord
  <2>4. gen3_sel' \in SUBSET RATE_SHADOW_SEL_MASK
    BY <1>3 DEF StoreRate
  <2>5. ip' \in 1 .. 42
    BY <1>3 DEF StoreRate, Leave
  <2>6. QED
    BY <1>0, <1>3, <1>a, <2>3, <2>4, <2>5 DEF StoreRate, Leave
<1>4. ASSUME NEW k \in Regions, NEW j \in 1 .. 7, StoreField(k, j) PROVE TypeOK'
  <2> DEFINE r == [atu[k] EXCEPT ![AtuFields[j]] =
                     Registers(Window(pci.port, k))[AtuFields[j]]]
  <2>1. r \in AtuRegs
    BY <1>0, SetupIsCall, FieldType DEF Calls
  <2>2. atu' = [atu EXCEPT ![k] = r]
    BY <1>4 DEF StoreField
  <2> HIDE DEF r
  <2>3. atu' \in [Regions -> AtuRegs]
    BY <1>0, <2>1, <2>2
  <2>4. ip' \in 1 .. 42
    BY <1>4 DEF StoreField, Leave, Regions
  <2>5. QED
    BY <1>0, <1>4, <1>a, <2>3, <2>4 DEF StoreField, Leave
<1>5. ASSUME NEW k \in Regions, Enable(k) PROVE TypeOK'
  <2> DEFINE r == [atu[k] EXCEPT !["enable"] = TRUE]
  <2>1. r \in AtuRegs
    <3>1. atu[k] \in AtuRegs
      BY <1>0
    <3>2. QED
      BY <3>1 DEF AtuRegs
  <2>2. atu' = [atu EXCEPT ![k] = r]
    BY <1>5 DEF Enable
  <2> HIDE DEF r
  <2>3. atu' \in [Regions -> AtuRegs]
    BY <1>0, <2>1, <2>2
  <2>4. ip' \in 1 .. 42
    BY <1>5 DEF Enable, Leave, Regions
  <2>5. QED
    BY <1>0, <1>5, <1>a, <2>3, <2>4 DEF Enable, Leave
<1>6. ASSUME SpeedChangeEnds PROVE TypeOK'
  <2> DEFINE w == regs[PCIE_LINK_WIDTH_SPEED_CONTROL] \ {PORT_LOGIC_SPEED_CHANGE}
  <2>1. w \in AnyWord
    BY <1>0 DEF PlainRegs, AnyWord
  <2>2. regs' = [regs EXCEPT ![PCIE_LINK_WIDTH_SPEED_CONTROL] = w]
    BY <1>6 DEF SpeedChangeEnds
  <2> HIDE DEF w
  <2>3. regs' \in [PlainRegs -> AnyWord]
    BY <1>0, <2>1, <2>2
  <2>4. QED
    BY <1>0, <1>6, <1>a, <2>3 DEF SpeedChangeEnds
<1>7. ASSUME NEW b \in ErrorBits, LogError(b) PROVE TypeOK'
  <2> DEFINE w == regs[PCI_COMMAND] \cup {b}
  <2>1. w \in AnyWord
    BY <1>0, RootPortAssumption DEF PlainRegs, AnyWord, PCI_STATUS_ERRORS, GENMASK, Bits
  <2>2. regs' = [regs EXCEPT ![PCI_COMMAND] = w]
    BY <1>7 DEF LogError
  <2> HIDE DEF w
  <2>3. regs' \in [PlainRegs -> AnyWord]
    BY <1>0, <2>1, <2>2
  <2>4. QED
    BY <1>0, <1>7, <1>a, <2>3 DEF LogError
<1>8. ASSUME NEW k \in Regions, EnableTakesEffect(k) PROVE TypeOK'
  BY <1>0, <1>8, <1>a DEF EnableTakesEffect
<1>9. CASE UNCHANGED vars
  BY <1>0, <1>9, <1>a DEF vars
<1>10. QED
  BY <1>1, <1>2, <1>3, <1>4, <1>5, <1>6, <1>7, <1>8, <1>9, NextSteps

(***************************************************************************)
(* Every register holds a word, every region registers of a region and     *)
(* the program stays within its accesses, at any moment of any set-up.     *)
(***************************************************************************)
THEOREM RootPortTypeCorrect == Spec => []TypeOK
<1>1. Init => TypeOK
  BY InitTypeOK
<1>2. TypeOK /\ [Next]_vars => TypeOK'
  BY NextTypeOK
<1>3. QED
  BY <1>1, <1>2, PTL DEF Spec

-----------------------------------------------------------------------------
(***************************************************************************)
(* The windows.                                                            *)
(***************************************************************************)
LEMMA InitAtuInv == Init => AtuInv
<1> SUFFICES ASSUME Init, NEW k \in Regions
             PROVE  /\ \A j \in 1 .. 7 : ~(ip > 13 + 8 * k + j)
                    /\ ~atu[k].enable /\ ~(ip > 21 + 8 * k) /\ k \notin inUse
  BY DEF AtuInv
<1>1. ip = 1 /\ inUse = {}
  BY DEF Init
<1>2. ~atu[k].enable
  BY DEF Init
<1>3. QED
  BY <1>1, <1>2 DEF Regions

LEMMA NextAtuInv ==
  ASSUME TypeOK, AtuInv, [Next]_vars
  PROVE  AtuInv'
<1> USE DEF fixed, hardware, driver
<1>0. ip \in 1 .. 42 /\ atu \in [Regions -> AtuRegs] /\ inUse \in SUBSET Regions
  BY ProgramLength DEF TypeOK
<1> DEFINE fields(n) == Registers(Window(pci.port, n))
<1>a. ASSUME pci' = pci, atu' = atu, inUse' = inUse,
             \A n \in Regions : /\ \A j \in 1 .. 7 : ip' > 13 + 8 * n + j => ip > 13 + 8 * n + j
                                /\ ip' > 21 + 8 * n => ip > 21 + 8 * n
      PROVE  AtuInv'
  BY <1>a DEF AtuInv
<1>1. ASSUME NEW i \in RmwPlaces, Fetch(i) PROVE AtuInv'
  BY <1>1, <1>a DEF Fetch
<1>2. ASSUME NEW i \in PlainPlaces, StorePlain(i) PROVE AtuInv'
  <2>1. ip = i /\ ip' = i + 1 /\ i \in Int /\ (i <= 13 \/ i >= 38)
    BY <1>2 DEF StorePlain, Leave, PlainPlaces
  <2>2. \A n \in Regions : /\ \A j \in 1 .. 7 : ip' > 13 + 8 * n + j => ip > 13 + 8 * n + j
                           /\ ip' > 21 + 8 * n => ip > 21 + 8 * n
    BY <2>1 DEF Regions
  <2>3. pci' = pci /\ atu' = atu /\ inUse' = inUse
    BY <1>2 DEF StorePlain
  <2>4. QED
    BY <2>2, <2>3, <1>a
<1>3. ASSUME NEW i \in 6 .. 8, StoreRate(i) PROVE AtuInv'
  <2>1. ip = i /\ ip' = i + 1
    BY <1>3 DEF StoreRate, Leave
  <2>2. \A n \in Regions : /\ \A j \in 1 .. 7 : ip' > 13 + 8 * n + j => ip > 13 + 8 * n + j
                           /\ ip' > 21 + 8 * n => ip > 21 + 8 * n
    BY <2>1 DEF Regions
  <2>3. pci' = pci /\ atu' = atu /\ inUse' = inUse
    BY <1>3 DEF StoreRate
  <2>4. QED
    BY <2>2, <2>3, <1>a
<1>4. ASSUME NEW k \in Regions, NEW j \in 1 .. 7, StoreField(k, j) PROVE AtuInv'
  <2>1. /\ ip = 13 + 8 * k + j /\ ip' = ip + 1 /\ pci' = pci /\ inUse' = inUse
        /\ atu' = [atu EXCEPT ![k][AtuFields[j]] = fields(k)[AtuFields[j]]]
    BY <1>4 DEF StoreField, Leave
  <2>2. \A n \in Regions \ {k} : atu'[n] = atu[n]
    BY <1>0, <2>1
  <2>3. /\ atu'[k][AtuFields[j]] = fields(k)[AtuFields[j]]
        /\ \A m \in 1 .. 7 : m # j => atu'[k][AtuFields[m]] = atu[k][AtuFields[m]]
        /\ atu'[k].enable = atu[k].enable
    <3>1. atu'[k] = [atu[k] EXCEPT ![AtuFields[j]] = fields(k)[AtuFields[j]]]
      BY <1>0, <2>1
    <3> HIDE DEF fields
    <3>2. AtuFields[j] \in DOMAIN atu[k] /\ AtuFields[j] # "enable"
      <4>1. atu[k] \in AtuRegs
        BY <1>0
      <4>2. DOMAIN atu[k] = {"lwr_base", "upper_base", "lwr_limit", "upper_limit",
                             "lwr_target", "upper_target", "type", "enable"}
        BY <4>1 DEF AtuRegs
      <4>3. QED
        BY <4>2 DEF AtuFields
    <3>3. \A m \in 1 .. 7 : m # j => AtuFields[m] # AtuFields[j]
      BY DEF AtuFields
    <3>4. \A m \in 1 .. 7 : AtuFields[m] \in DOMAIN atu[k] /\ "enable" \in DOMAIN atu[k]
      <4>1. atu[k] \in AtuRegs
        BY <1>0
      <4>2. DOMAIN atu[k] = {"lwr_base", "upper_base", "lwr_limit", "upper_limit",
                             "lwr_target", "upper_target", "type", "enable"}
        BY <4>1 DEF AtuRegs
      <4>3. QED
        BY <4>2 DEF AtuFields
    <3>5. QED
      BY <3>1, <3>2, <3>3, <3>4
  <2> HIDE DEF fields
  <2> SUFFICES ASSUME NEW n \in Regions
               PROVE  /\ \A m \in 1 .. 7 : ip' > 13 + 8 * n + m \/ atu'[n].enable =>
                           atu'[n][AtuFields[m]] = fields(n)[AtuFields[m]]
                      /\ ip' > 21 + 8 * n => atu'[n].enable
                      /\ n \in inUse => atu'[n].enable
    BY <2>1 DEF AtuInv, fields
  <2>4. /\ \A m \in 1 .. 7 : ip > 13 + 8 * n + m \/ atu[n].enable =>
             atu[n][AtuFields[m]] = fields(n)[AtuFields[m]]
        /\ ip > 21 + 8 * n => atu[n].enable
        /\ n \in inUse => atu[n].enable
    BY DEF AtuInv, fields
  <2>5. /\ ip' > 21 + 8 * n <=> ip > 21 + 8 * n
        /\ n # k => \A m \in 1 .. 7 : ip' > 13 + 8 * n + m <=> ip > 13 + 8 * n + m
        /\ \A m \in 1 .. 7 : m # j => (ip' > 13 + 8 * k + m <=> ip > 13 + 8 * k + m)
    BY <2>1 DEF Regions
  <2>6. atu'[n].enable = atu[n].enable
    BY <2>2, <2>3
  <2>7. CASE n = k
    BY <2>3, <2>4, <2>5, <2>6, <2>7
  <2>8. CASE n # k
    BY <2>2, <2>4, <2>5, <2>6, <2>8
  <2>9. QED
    BY <2>7, <2>8
<1>5. ASSUME NEW k \in Regions, Enable(k) PROVE AtuInv'
  <2>1. /\ ip = 21 + 8 * k /\ ip' = ip + 1 /\ pci' = pci /\ inUse' = inUse
        /\ atu' = [atu EXCEPT ![k]["enable"] = TRUE]
    BY <1>5 DEF Enable, Leave
  <2>2. \A n \in Regions \ {k} : atu'[n] = atu[n]
    BY <1>0, <2>1
  <2>3. /\ \A m \in 1 .. 7 : atu'[k][AtuFields[m]] = atu[k][AtuFields[m]]
        /\ atu'[k].enable
    <3>1. atu'[k] = [atu[k] EXCEPT !["enable"] = TRUE]
      BY <1>0, <2>1
    <3>2. DOMAIN atu[k] = {"lwr_base", "upper_base", "lwr_limit", "upper_limit",
                           "lwr_target", "upper_target", "type", "enable"}
      <4>1. atu[k] \in AtuRegs
        BY <1>0
      <4>2. QED
        BY <4>1 DEF AtuRegs
    <3>3. \A m \in 1 .. 7 : AtuFields[m] \in DOMAIN atu[k] /\ AtuFields[m] # "enable"
      BY <3>2 DEF AtuFields
    <3>4. QED
      BY <3>1, <3>2, <3>3
  <2> HIDE DEF fields
  <2> SUFFICES ASSUME NEW n \in Regions
               PROVE  /\ \A m \in 1 .. 7 : ip' > 13 + 8 * n + m \/ atu'[n].enable =>
                           atu'[n][AtuFields[m]] = fields(n)[AtuFields[m]]
                      /\ ip' > 21 + 8 * n => atu'[n].enable
                      /\ n \in inUse => atu'[n].enable
    BY <2>1 DEF AtuInv, fields
  <2>4. /\ \A m \in 1 .. 7 : ip > 13 + 8 * n + m \/ atu[n].enable =>
             atu[n][AtuFields[m]] = fields(n)[AtuFields[m]]
        /\ ip > 21 + 8 * n => atu[n].enable
        /\ n \in inUse => atu[n].enable
    BY DEF AtuInv, fields
  <2>5. /\ \A m \in 1 .. 7 : ip > 13 + 8 * k + m
        /\ \A m \in 1 .. 7 : ip' > 13 + 8 * n + m <=> ip > 13 + 8 * n + m
        /\ n # k => (ip' > 21 + 8 * n <=> ip > 21 + 8 * n)
        /\ ip' > 21 + 8 * k
    BY <2>1 DEF Regions
  <2>6. CASE n = k
    BY <2>3, <2>4, <2>5, <2>6
  <2>7. CASE n # k
    BY <2>2, <2>4, <2>5, <2>7
  <2>8. QED
    BY <2>6, <2>7
<1>6. CASE SpeedChangeEnds
  BY <1>6, <1>a DEF SpeedChangeEnds
<1>7. ASSUME NEW b \in ErrorBits, LogError(b) PROVE AtuInv'
  BY <1>7, <1>a DEF LogError
<1>8. ASSUME NEW k \in Regions, EnableTakesEffect(k) PROVE AtuInv'
  BY <1>8 DEF EnableTakesEffect, AtuInv
<1>9. CASE UNCHANGED vars
  BY <1>9, <1>a DEF vars
<1>10. QED
  BY <1>1, <1>2, <1>3, <1>4, <1>5, <1>6, <1>7, <1>8, <1>9, NextSteps

LEMMA AtuInvHolds == Spec => [](TypeOK /\ AtuInv)
<1>1. Init => TypeOK /\ AtuInv
  BY InitTypeOK, InitAtuInv
<1>2. TypeOK /\ AtuInv /\ [Next]_vars => (TypeOK /\ AtuInv)'
  BY NextTypeOK, NextAtuInv
<1>3. QED
  BY <1>1, <1>2, PTL DEF Spec

\* What is in use is enabled, and what is enabled has been written.
LEMMA AtuImpliesComplete == TypeOK /\ AtuInv => InUseIsComplete
<1> SUFFICES ASSUME TypeOK, AtuInv, NEW k \in inUse, NEW n \in 1 .. 7
             PROVE  atu[k][AtuFields[n]] = Registers(Window(pci.port, k))[AtuFields[n]]
  BY DEF InUseIsComplete, Complete
<1>1. k \in Regions /\ atu[k].enable
  BY DEF TypeOK, AtuInv
<1>2. QED
  BY <1>1 DEF AtuInv

(***************************************************************************)
(* A region that is in use translates by its complete window, wherever the *)
(* set-up stands: the enable is the last of the eight writes of            *)
(* dw_pcie_prog_outbound_atu.                                              *)
(***************************************************************************)
THEOREM InUseRegionsComplete == Spec => []InUseIsComplete
<1>1. TypeOK /\ AtuInv => InUseIsComplete
  BY AtuImpliesComplete
<1>2. QED
  BY <1>1, AtuInvHolds, PTL

(***************************************************************************)
(* Once the three regions are in use, every address of the aperture means  *)
(* what the address map says, for every geometry the map may have and at   *)
(* any point of the set-up.                                                *)
(***************************************************************************)
THEOREM ApertureAlwaysTranslated == Spec => []ApertureTranslated
<1>1. TypeOK /\ InUseIsComplete => ApertureTranslated
  <2> SUFFICES ASSUME TypeOK, InUseIsComplete, inUse = Regions
               PROVE  \A a \in Aperture(pci.port) :
                        Translation(atu, Regions, a) = Meaning(pci.port, a)
    BY DEF ApertureTranslated, Translates
  <2>1. pci.port \in 0 .. 3
    BY SetupIsCall DEF Calls
  <2>2. \A k \in Regions : Holds(atu[k], Window(pci.port, k))
    <3> SUFFICES ASSUME NEW k \in Regions PROVE Holds(atu[k], Window(pci.port, k))
      OBVIOUS
    <3> DEFINE r == Registers(Window(pci.port, k))
    <3>1. \A n \in 1 .. 7 : atu[k][AtuFields[n]] = r[AtuFields[n]]
      BY DEF InUseIsComplete, Complete
    <3> HIDE DEF r
    <3>2. /\ atu[k].lwr_base = r.lwr_base /\ atu[k].upper_base = r.upper_base
          /\ atu[k].lwr_limit = r.lwr_limit /\ atu[k].upper_limit = r.upper_limit
          /\ atu[k].lwr_target = r.lwr_target /\ atu[k].upper_target = r.upper_target
          /\ atu[k].type = r.type
      BY <3>1 DEF AtuFields
    <3>3. QED
      BY <3>2 DEF Holds, r
  <2>3. QED
    BY <2>1, <2>2, WindowsTranslate
<1>2. TypeOK /\ AtuInv => ApertureTranslated
  BY <1>1, AtuImpliesComplete
<1>3. QED
  BY <1>2, AtuInvHolds, PTL

-----------------------------------------------------------------------------
(***************************************************************************)
(* What a read has brought, and the lock of the read-only fields.          *)
(***************************************************************************)
LEMMA InitFetchedInv == Init => FetchedInv
BY DEF Init, FetchedInv

LEMMA NextFetchedInv ==
  ASSUME TypeOK, FetchedInv, [Next]_vars
  PROVE  FetchedInv'
<1> USE DEF fixed, hardware, driver
<1> DEFINE reg == Access(pci, ip).reg
<1>0. regs \in [PlainRegs -> AnyWord] /\ ip \in 1 .. 42
  BY ProgramLength DEF TypeOK
<1>a. ASSUME ~fetched' PROVE FetchedInv'
  BY <1>a DEF FetchedInv
<1>b. ASSUME pci' = pci, ip' = ip, fetched' = fetched, val' = val, gen3_sel' = gen3_sel,
             gen3' = gen3, regs' \in [PlainRegs -> AnyWord],
             \A r \in PlainRegs \ {PCI_COMMAND, PCIE_LINK_WIDTH_SPEED_CONTROL} :
               regs'[r] = regs[r],
             SymDiff(regs[PCIE_LINK_WIDTH_SPEED_CONTROL], regs'[PCIE_LINK_WIDTH_SPEED_CONTROL])
               \subseteq {PORT_LOGIC_SPEED_CHANGE}
      PROVE  FetchedInv'
  <2> SUFFICES ASSUME fetched
               PROVE  /\ ip <= 41 /\ Access(pci, ip).op = "rmw"
                      /\ reg \notin {PCI_COMMAND, PCIE_LINK_WIDTH_SPEED_CONTROL} =>
                           val = IF reg = PCIE_GEN3_RELATED_OFF
                                 THEN gen3_sel \cup gen3[Selected(gen3_sel)]
                                 ELSE regs'[reg]
                      /\ reg = PCIE_LINK_WIDTH_SPEED_CONTROL =>
                           SymDiff(val, regs'[reg]) \subseteq {PORT_LOGIC_SPEED_CHANGE}
    BY <1>b DEF FetchedInv, Value
  <2>1. /\ ip <= 41 /\ Access(pci, ip).op = "rmw"
        /\ reg \notin {PCI_COMMAND, PCIE_LINK_WIDTH_SPEED_CONTROL} => val = Value(reg)
        /\ reg = PCIE_LINK_WIDTH_SPEED_CONTROL =>
             SymDiff(val, regs[reg]) \subseteq {PORT_LOGIC_SPEED_CHANGE}
    BY DEF FetchedInv
  <2>2. reg \in PlainRegs \cup {PCIE_GEN3_RELATED_OFF}
    <3>1. PlaceIs(pci, ip)
      BY <1>0, <2>1, Places
    <3>2. QED
      BY <2>1, <3>1 DEF PlaceIs
  <2> HIDE DEF reg
  <2>3. reg \notin {PCI_COMMAND, PCIE_LINK_WIDTH_SPEED_CONTROL} =>
          val = IF reg = PCIE_GEN3_RELATED_OFF
                THEN gen3_sel \cup gen3[Selected(gen3_sel)] ELSE regs'[reg]
    BY <1>b, <2>1, <2>2 DEF Value
  <2>4. reg = PCIE_LINK_WIDTH_SPEED_CONTROL =>
          SymDiff(val, regs'[reg]) \subseteq {PORT_LOGIC_SPEED_CHANGE}
    BY <1>b, <2>1 DEF SymDiff
  <2>5. QED
    BY <2>1, <2>3, <2>4 DEF reg
<1>c. SymDiff(regs[PCIE_LINK_WIDTH_SPEED_CONTROL], regs[PCIE_LINK_WIDTH_SPEED_CONTROL])
        \subseteq {PORT_LOGIC_SPEED_CHANGE}
  BY DEF SymDiff
<1>1. ASSUME NEW i \in RmwPlaces, Fetch(i) PROVE FetchedInv'
  <2>1. /\ ip = i /\ ip' = i /\ pci' = pci /\ regs' = regs /\ gen3' = gen3
        /\ gen3_sel' = gen3_sel /\ val' = Value(reg)
    BY <1>1 DEF Fetch
  <2>2. i <= 41 /\ Access(pci, i).op = "rmw"
    <3>1. PlaceIs(pci, i)
      BY Places DEF RmwPlaces
    <3>2. QED
      BY <3>1 DEF PlaceIs, RmwPlaces
  <2>3. SymDiff(val', regs[PCIE_LINK_WIDTH_SPEED_CONTROL]) \subseteq {PORT_LOGIC_SPEED_CHANGE}
          \/ reg # PCIE_LINK_WIDTH_SPEED_CONTROL
    BY <1>c, <2>1, RegisterNumbers DEF Value
  <2>4. QED
    BY <2>1, <2>2, <2>3 DEF FetchedInv, Value
<1>2. ASSUME NEW i \in PlainPlaces, StorePlain(i) PROVE FetchedInv'
  BY <1>2, <1>a DEF StorePlain, Leave
<1>3. ASSUME NEW i \in 6 .. 8, StoreRate(i) PROVE FetchedInv'
  BY <1>3, <1>a DEF StoreRate, Leave
<1>4. ASSUME NEW k \in Regions, NEW j \in 1 .. 7, StoreField(k, j) PROVE FetchedInv'
  BY <1>4, <1>a DEF StoreField, Leave
<1>5. ASSUME NEW k \in Regions, Enable(k) PROVE FetchedInv'
  BY <1>5, <1>a DEF Enable, Leave
<1>d. TypeOK'
  BY NextTypeOK
<1>e. regs' \in [PlainRegs -> AnyWord]
  BY <1>d DEF TypeOK
<1>6. CASE SpeedChangeEnds
  <2>1. \A r \in PlainRegs \ {PCIE_LINK_WIDTH_SPEED_CONTROL} : regs'[r] = regs[r]
    BY <1>0, <1>6 DEF SpeedChangeEnds
  <2>2. regs'[PCIE_LINK_WIDTH_SPEED_CONTROL]
          = regs[PCIE_LINK_WIDTH_SPEED_CONTROL] \ {PORT_LOGIC_SPEED_CHANGE}
    BY <1>0, <1>6 DEF SpeedChangeEnds, PlainRegs
  <2>3. SymDiff(regs[PCIE_LINK_WIDTH_SPEED_CONTROL], regs'[PCIE_LINK_WIDTH_SPEED_CONTROL])
          \subseteq {PORT_LOGIC_SPEED_CHANGE}
    BY <2>2 DEF SymDiff
  <2>4. QED
    BY <1>6, <1>b, <1>e, <2>1, <2>3 DEF SpeedChangeEnds
<1>7. ASSUME NEW b \in ErrorBits, LogError(b) PROVE FetchedInv'
  <2>1. \A r \in PlainRegs \ {PCI_COMMAND} : regs'[r] = regs[r]
    BY <1>0, <1>7 DEF LogError
  <2>2. regs'[PCIE_LINK_WIDTH_SPEED_CONTROL] = regs[PCIE_LINK_WIDTH_SPEED_CONTROL]
    BY <2>1, RegisterNumbers
  <2>3. QED
    BY <1>7, <1>b, <1>c, <1>e, <2>1, <2>2 DEF LogError
<1>8. ASSUME NEW k \in Regions, EnableTakesEffect(k) PROVE FetchedInv'
  BY <1>8, <1>b, <1>c, <1>e DEF EnableTakesEffect
<1>9. CASE UNCHANGED vars
  BY <1>9, <1>b, <1>c, <1>e DEF vars
<1>10. QED
  BY <1>1, <1>2, <1>3, <1>4, <1>5, <1>6, <1>7, <1>8, <1>9, NextSteps

\* With the lock open, or for a register without read-only fields, a write
\* stores the word.
LEMMA StoredWord ==
  ASSUME NEW reg, NEW w, reg # PCI_COMMAND,
         \/ PCIE_DBI_RO_WR_EN \in regs[PCIE_MISC_CONTROL_1_OFF]
         \/ reg \notin {PCI_CLASS_REVISION, PCI_BASE_ADDRESS_0, PCI_INTERRUPT_LINE}
  PROVE  Written(reg, w) = w
<1>1. Protected(reg) = {}
  BY DEF Protected, ReadOnly
<1>2. QED
  BY <1>1 DEF Written

LEMMA StoreFrame ==
  ASSUME TypeOK, NEW i \in PlainPlaces, StorePlain(i)
  PROVE  LET r == Access(pci, i).reg
         IN  /\ r \in PlainRegs
             /\ regs'[r] = Written(r, WordAt(i))
             /\ \A reg \in PlainRegs \ {r} : regs'[reg] = regs[reg]
<1> DEFINE r == Access(pci, i).reg
           w == Written(r, WordAt(i))
<1>1. r \in PlainRegs
  BY PlainPlaceReg
<1>2. regs \in [PlainRegs -> AnyWord] /\ regs' = [regs EXCEPT ![r] = w]
  BY DEF TypeOK, StorePlain
<1> HIDE DEF r, w
<1>3. regs'[r] = w /\ \A reg \in PlainRegs \ {r} : regs'[reg] = regs[reg]
  BY <1>1, <1>2
<1>4. QED
  BY <1>1, <1>3 DEF r, w

LEMMA InitUnlockedInv == Init => UnlockedInv
BY DEF Init, UnlockedInv

LEMMA NextUnlockedInv ==
  ASSUME TypeOK, UnlockedInv, [Next]_vars
  PROVE  UnlockedInv'
<1> USE DEF fixed, hardware, driver
<1>0. regs \in [PlainRegs -> AnyWord] /\ ip \in 1 .. 42
  BY ProgramLength DEF TypeOK
<1>a. ASSUME regs'[PCIE_MISC_CONTROL_1_OFF] = regs[PCIE_MISC_CONTROL_1_OFF],
             ip' = ip \/ (ip \in 2 .. 40 /\ ip' = ip + 1)
      PROVE  UnlockedInv'
  BY <1>0, <1>a DEF UnlockedInv
<1>1. ASSUME NEW i \in RmwPlaces, Fetch(i) PROVE UnlockedInv'
  BY <1>1, <1>a DEF Fetch
<1>2. ASSUME NEW i \in PlainPlaces, StorePlain(i) PROVE UnlockedInv'
  <2> DEFINE r == Access(pci, i).reg
  <2>1. /\ r \in PlainRegs /\ regs'[r] = Written(r, WordAt(i))
        /\ \A reg \in PlainRegs \ {r} : regs'[reg] = regs[reg]
    BY <1>2, StoreFrame
  <2>2. ip = i /\ ip' = i + 1
    BY <1>2 DEF StorePlain, Leave
  <2>3. PlaceIs(pci, i) /\ ProgramIs(pci)
    BY Places, ProgramAt DEF PlainPlaces
  <2>4. CASE i = 1
    <3>1. Access(pci, 1) = Rmw(PCIE_MISC_CONTROL_1_OFF, {}, {PCIE_DBI_RO_WR_EN})
      BY <2>3 DEF ProgramIs
    <3>2. r = PCIE_MISC_CONTROL_1_OFF /\ WordAt(1) = val \cup {PCIE_DBI_RO_WR_EN}
      BY <2>4, <3>1 DEF Rmw, WordAt
    <3>3. Written(r, WordAt(1)) = WordAt(1)
      BY <3>2, StoredWord, RegisterNumbers
    <3>4. QED
      BY <2>1, <2>2, <2>4, <3>2, <3>3 DEF UnlockedInv
  <2>5. CASE i = 41
    <3>1. Access(pci, 41) = Rmw(PCIE_MISC_CONTROL_1_OFF, {PCIE_DBI_RO_WR_EN}, {})
      BY <2>3 DEF ProgramIs
    <3>2. r = PCIE_MISC_CONTROL_1_OFF /\ WordAt(41) = val \ {PCIE_DBI_RO_WR_EN}
      BY <2>5, <3>1 DEF Rmw, WordAt
    <3>3. Written(r, WordAt(41)) = WordAt(41)
      BY <3>2, StoredWord, RegisterNumbers
    <3>4. QED
      BY <2>1, <2>2, <2>5, <3>2, <3>3 DEF UnlockedInv
  <2>6. CASE i \notin {1, 41}
    <3>1. r # PCIE_MISC_CONTROL_1_OFF /\ i \in 2 .. 40
      BY <2>3, <2>6 DEF PlaceIs, PlainPlaces
    <3>2. PCIE_MISC_CONTROL_1_OFF \in PlainRegs \ {r}
      BY <3>1 DEF PlainRegs
    <3>3. QED
      BY <1>a, <2>1, <2>2, <3>1, <3>2
  <2>7. QED
    BY <2>4, <2>5, <2>6
<1>3. ASSUME NEW i \in 6 .. 8, StoreRate(i) PROVE UnlockedInv'
  BY <1>3, <1>a DEF StoreRate, Leave
<1>4. ASSUME NEW k \in Regions, NEW j \in 1 .. 7, StoreField(k, j) PROVE UnlockedInv'
  <2>1. 13 + 8 * k + j \in 2 .. 40
    BY DEF Regions
  <2>2. QED
    BY <1>4, <1>a, <2>1 DEF StoreField, Leave
<1>5. ASSUME NEW k \in Regions, Enable(k) PROVE UnlockedInv'
  <2>1. 21 + 8 * k \in 2 .. 40
    BY DEF Regions
  <2>2. QED
    BY <1>5, <1>a, <2>1 DEF Enable, Leave
<1>6. CASE SpeedChangeEnds
  <2>1. regs'[PCIE_MISC_CONTROL_1_OFF] = regs[PCIE_MISC_CONTROL_1_OFF]
    BY <1>0, <1>6, RegisterNumbers DEF SpeedChangeEnds
  <2>2. QED
    BY <1>6, <1>a, <2>1 DEF SpeedChangeEnds
<1>7. ASSUME NEW b \in ErrorBits, LogError(b) PROVE UnlockedInv'
  <2>1. regs'[PCIE_MISC_CONTROL_1_OFF] = regs[PCIE_MISC_CONTROL_1_OFF]
    BY <1>0, <1>7, RegisterNumbers DEF LogError
  <2>2. QED
    BY <1>7, <1>a, <2>1 DEF LogError
<1>8. ASSUME NEW k \in Regions, EnableTakesEffect(k) PROVE UnlockedInv'
  BY <1>8, <1>a DEF EnableTakesEffect
<1>9. CASE UNCHANGED vars
  BY <1>9, <1>a DEF vars
<1>10. QED
  BY <1>1, <1>2, <1>3, <1>4, <1>5, <1>6, <1>7, <1>8, <1>9, NextSteps

-----------------------------------------------------------------------------
(***************************************************************************)
(* The speed change.                                                       *)
(***************************************************************************)
LEMMA InitNoSpeedChangeInv == Init => NoSpeedChangeInv
<1> SUFFICES ASSUME Init PROVE NoSpeedChangeInv
  OBVIOUS
<1>1. PICK reset \in ResetStates :
        regs = [reg \in PlainRegs |-> reset.plain[reg] \ ClearedAtReset(reg)]
  BY DEF Init
<1>2. PORT_LOGIC_SPEED_CHANGE \notin regs[PCIE_LINK_WIDTH_SPEED_CONTROL]
  BY <1>1, RegisterNumbers DEF ClearedAtReset
<1>3. QED
  BY <1>2 DEF Init, NoSpeedChangeInv, SpeedChange, Requested

LEMMA NextNoSpeedChangeInv ==
  ASSUME TypeOK, NoSpeedChangeInv, [Next]_vars
  PROVE  NoSpeedChangeInv'
<1> USE DEF fixed, hardware, driver
<1> DEFINE link == PCIE_LINK_WIDTH_SPEED_CONTROL
<1>0. regs \in [PlainRegs -> AnyWord] /\ ip \in 1 .. 42
  BY ProgramLength DEF TypeOK
<1>a. ASSUME regs'[link] \subseteq regs[link], ~fetched' /\ ip' = ip + 1
      PROVE  NoSpeedChangeInv'
  BY <1>0, <1>a DEF NoSpeedChangeInv, SpeedChange, Requested
<1>b. ASSUME regs'[link] \subseteq regs[link], fetched' = fetched /\ ip' = ip /\ val' = val
      PROVE  NoSpeedChangeInv'
  BY <1>0, <1>b DEF NoSpeedChangeInv, SpeedChange, Requested
<1>1. ASSUME NEW i \in RmwPlaces, Fetch(i) PROVE NoSpeedChangeInv'
  <2>1. ip' = ip /\ ip = i /\ regs' = regs /\ val' = Value(Access(pci, i).reg)
    BY <1>1 DEF Fetch
  <2>2. i = 4 => Access(pci, i).reg = link /\ link # PCIE_GEN3_RELATED_OFF
    <3>1. PlaceIs(pci, i)
      BY Places DEF RmwPlaces
    <3>2. QED
      BY <3>1, RegisterNumbers DEF PlaceIs
  <2>3. i = 4 => val' = regs[link]
    BY <2>1, <2>2 DEF Value
  <2>4. QED
    BY <2>1, <2>3 DEF NoSpeedChangeInv, SpeedChange, Requested
<1>2. ASSUME NEW i \in PlainPlaces, StorePlain(i) PROVE NoSpeedChangeInv'
  <2> DEFINE r == Access(pci, i).reg
  <2>1. /\ r \in PlainRegs /\ regs'[r] = Written(r, WordAt(i))
        /\ \A reg \in PlainRegs \ {r} : regs'[reg] = regs[reg]
    BY <1>2, StoreFrame
  <2>2. ip = i /\ ip' = i + 1 /\ ~fetched' /\ (Access(pci, i).op = "rmw" => fetched)
    BY <1>2 DEF StorePlain, Leave
  <2>3. PlaceIs(pci, i) /\ ProgramIs(pci)
    BY Places, ProgramAt DEF PlainPlaces
  <2>4. CASE i = 4
    <3>1. Access(pci, 4) = Rmw(link, PORT_LOGIC_LINK_WIDTH_MASK,
                               PORT_LOGIC_LINK_WIDTH(pci.lane_num))
      BY <2>3 DEF ProgramIs
    <3>2. /\ r = link
          /\ WordAt(4) = (val \ PORT_LOGIC_LINK_WIDTH_MASK)
                           \cup PORT_LOGIC_LINK_WIDTH(pci.lane_num)
      BY <2>4, <3>1 DEF Rmw, WordAt
    <3>3. Written(r, WordAt(4)) = WordAt(4)
      BY <3>2, StoredWord, RegisterNumbers
    <3>4. PORT_LOGIC_SPEED_CHANGE \notin PORT_LOGIC_LINK_WIDTH(pci.lane_num)
      BY SetupIsCall, WrittenFields DEF Calls, PORT_LOGIC_SPEED_CHANGE
    <3>5. PORT_LOGIC_SPEED_CHANGE \notin val
      BY <2>2, <2>4, <3>1 DEF NoSpeedChangeInv, Rmw
    <3>6. PORT_LOGIC_SPEED_CHANGE \notin regs'[link]
      <4>1. regs'[r] = WordAt(4) /\ r = link
        BY <2>1, <2>4, <3>2, <3>3
      <4> HIDE DEF link, r
      <4>2. regs'[link] = WordAt(4)
        BY <4>1
      <4>3. QED
        BY <3>2, <3>4, <3>5, <4>2
    <3>7. QED
      BY <2>2, <3>6 DEF NoSpeedChangeInv, SpeedChange, Requested
  <2>5. CASE i = 40
    BY <2>2, <2>5 DEF NoSpeedChangeInv
  <2>6. CASE i \notin {4, 40}
    <3>1. r # link
      BY <2>3, <2>6 DEF PlaceIs, PlainPlaces
    <3>2. regs'[link] = regs[link]
      BY <2>1, <3>1, RegisterNumbers
    <3>3. QED
      BY <1>a, <2>2, <3>2
  <2>7. QED
    BY <2>4, <2>5, <2>6
<1>3. ASSUME NEW i \in 6 .. 8, StoreRate(i) PROVE NoSpeedChangeInv'
  BY <1>3, <1>a DEF StoreRate, Leave
<1>4. ASSUME NEW k \in Regions, NEW j \in 1 .. 7, StoreField(k, j) PROVE NoSpeedChangeInv'
  BY <1>4, <1>a DEF StoreField, Leave
<1>5. ASSUME NEW k \in Regions, Enable(k) PROVE NoSpeedChangeInv'
  BY <1>5, <1>a DEF Enable, Leave
<1>6. CASE SpeedChangeEnds
  <2>1. regs'[link] \subseteq regs[link]
    BY <1>0, <1>6, RegisterNumbers DEF SpeedChangeEnds
  <2>2. QED
    BY <1>6, <1>b, <2>1 DEF SpeedChangeEnds
<1>7. ASSUME NEW b \in ErrorBits, LogError(b) PROVE NoSpeedChangeInv'
  <2>1. regs'[link] = regs[link]
    BY <1>0, <1>7, RegisterNumbers DEF LogError
  <2>2. QED
    BY <1>7, <1>b, <2>1 DEF LogError
<1>8. ASSUME NEW k \in Regions, EnableTakesEffect(k) PROVE NoSpeedChangeInv'
  BY <1>8, <1>b DEF EnableTakesEffect
<1>9. CASE UNCHANGED vars
  BY <1>9, <1>b DEF vars
<1>10. QED
  BY <1>1, <1>2, <1>3, <1>4, <1>5, <1>6, <1>7, <1>8, <1>9, NextSteps

-----------------------------------------------------------------------------
(***************************************************************************)
(* The copies of PCIE_GEN3_RELATED_OFF.                                    *)
(***************************************************************************)
LEMMA InitRatesInv == Init => RatesInv
BY DEF Init, RatesInv

LEMMA NextRatesInv ==
  ASSUME TypeOK, FetchedInv, RatesInv, [Next]_vars
  PROVE  RatesInv'
<1> USE DEF fixed, hardware, driver
<1>0. /\ gen3 \in [0 .. 3 -> SUBSET (Bits \ RATE_SHADOW_SEL_MASK)] /\ ip \in 1 .. 42
  BY ProgramLength DEF TypeOK
<1>a. ASSUME gen3' = gen3, gen3_sel' = gen3_sel, ip' = ip \/ (ip' = ip + 1 /\ ip \notin 6 .. 8)
      PROVE  RatesInv'
  <2>1. ip' = ip \/ (ip > 8 /\ ip' > 8) \/ (ip < 6 /\ ip' < 7)
    BY <1>0, <1>a
  <2>2. CASE ip' = ip
    BY <1>a, <2>2 DEF RatesInv
  <2>3. CASE ip > 8 /\ ip' > 8
    BY <1>0, <1>a, <2>3 DEF RatesInv
  <2>4. CASE ip < 6 /\ ip' < 7
    BY <1>0, <1>a, <2>4 DEF RatesInv
  <2>5. QED
    BY <2>1, <2>2, <2>3, <2>4
<1>1. ASSUME NEW i \in RmwPlaces, Fetch(i) PROVE RatesInv'
  BY <1>1, <1>a DEF Fetch
<1>2. ASSUME NEW i \in PlainPlaces, StorePlain(i) PROVE RatesInv'
  <2>1. i \notin 6 .. 8
    BY DEF PlainPlaces
  <2>2. QED
    BY <1>2, <1>a, <2>1 DEF StorePlain, Leave
<1>3. ASSUME NEW i \in 6 .. 8, StoreRate(i) PROVE RatesInv'
  <2>1. ip = i /\ ip' = i + 1 /\ fetched
    BY <1>3 DEF StoreRate, Leave
  <2> DEFINE w == WordAt(i)
  <2>2. /\ gen3_sel' = w \cap {24, 25}
        /\ \E copy \in {Selected(gen3_sel), Selected(w \cap {24, 25})} :
             gen3' = [gen3 EXCEPT ![copy] = w \ {24, 25}]
    BY <1>3, ShadowSelect DEF StoreRate
  <2>3. ProgramIs(pci) /\ PlaceIs(pci, i)
    BY ProgramAt, Places
  <2>4. val = gen3_sel \cup gen3[Selected(gen3_sel)]
    <3>1. Access(pci, ip).reg = PCIE_GEN3_RELATED_OFF
      BY <2>1, <2>3 DEF PlaceIs
    <3>2. val = Value(PCIE_GEN3_RELATED_OFF)
      BY <2>1, <3>1, RegisterNumbers DEF FetchedInv
    <3>3. QED
      BY <3>2 DEF Value
  <2> HIDE DEF w
  <2>5. CASE i = 6
    <3>1. Access(pci, 6) = Rmw(PCIE_GEN3_RELATED_OFF, {24, 25}, {9})
      BY RateAccesses
    <3>2. w = (val \ {24, 25}) \cup {9}
      BY <2>5, <3>1 DEF w, WordAt, Rmw
    <3>3. w \cap {24, 25} = {} /\ 9 \in w \ {24, 25}
      BY <3>2
    <3>4. gen3_sel = {} \/ (gen3_sel = {24} /\ 9 \in gen3[0])
      BY DEF RatesInv, GEN3_BIT
    <3>5. /\ gen3_sel' = {}
          /\ \/ gen3' = [gen3 EXCEPT ![0] = w \ {24, 25}]
             \/ 9 \in gen3[0] /\ gen3' = [gen3 EXCEPT ![1] = w \ {24, 25}]
      <4>1. Selected({}) = 0 /\ Selected({24}) = 1
        BY ShadowSelect
      <4>2. PICK copy \in {Selected(gen3_sel), Selected({})} :
              gen3' = [gen3 EXCEPT ![copy] = w \ {24, 25}]
        BY <2>2, <3>3
      <4>3. CASE copy = 0
        BY <2>2, <3>3, <4>2, <4>3
      <4>4. CASE copy # 0
        <5>1. gen3_sel # {}
          BY <4>1, <4>4
        <5>2. gen3_sel = {24} /\ 9 \in gen3[0]
          BY <3>4, <5>1
        <5>3. copy = 1
          BY <4>1, <4>4, <5>2
        <5>4. QED
          BY <2>2, <3>3, <4>2, <5>2, <5>3
      <4>5. QED
        BY <4>3, <4>4
    <3>6. 9 \in gen3'[0]
      BY <1>0, <3>3, <3>5
    <3>7. QED
      BY <2>1, <2>5, <3>5, <3>6 DEF RatesInv, GEN3_BIT
  <2>6. CASE i = 7
    <3>1. Access(pci, 7) = Rmw(PCIE_GEN3_RELATED_OFF, {24, 25}, {24})
      BY RateAccesses
    <3>2. w = (val \ {24, 25}) \cup {24}
      BY <2>6, <3>1 DEF w, WordAt, Rmw
    <3>3. gen3_sel = {} /\ 9 \in gen3[0]
      BY <2>1, <2>6 DEF RatesInv, GEN3_BIT
    <3>4. 9 \in val
      BY <2>4, <3>3, ShadowSelect
    <3>5. w \cap {24, 25} = {24} /\ 9 \in w \ {24, 25}
      BY <3>2, <3>4
    <3>6. PICK copy \in {0, 1} : gen3' = [gen3 EXCEPT ![copy] = w \ {24, 25}]
      <4>1. Selected(gen3_sel) = 0 /\ Selected(w \cap {24, 25}) = 1
        BY <3>3, <3>5, ShadowSelect
      <4>2. QED
        BY <2>2, <4>1
    <3>7. 9 \in gen3'[0]
      BY <1>0, <3>3, <3>5, <3>6
    <3>8. QED
      BY <2>1, <2>2, <2>6, <3>5, <3>7 DEF RatesInv, GEN3_BIT
  <2>7. CASE i = 8
    <3>1. Access(pci, 8) = Rmw(PCIE_GEN3_RELATED_OFF, {24, 25}, {9, 24})
      BY RateAccesses
    <3>2. w = (val \ {24, 25}) \cup {9, 24}
      BY <2>7, <3>1 DEF w, WordAt, Rmw
    <3>3. gen3_sel = {24} /\ 9 \in gen3[0]
      BY <2>1, <2>7 DEF RatesInv, GEN3_BIT
    <3>4. w \cap {24, 25} = {24} /\ 9 \in w \ {24, 25}
      BY <3>2
    <3>5. gen3' = [gen3 EXCEPT ![1] = w \ {24, 25}]
      <4>1. Selected(gen3_sel) = 1 /\ Selected(w \cap {24, 25}) = 1
        BY <3>3, <3>4, ShadowSelect
      <4>2. QED
        BY <2>2, <4>1
    <3>6. 9 \in gen3'[0] /\ 9 \in gen3'[1]
      BY <1>0, <3>3, <3>4, <3>5
    <3>7. QED
      BY <2>1, <2>2, <2>7, <3>4, <3>6 DEF RatesInv, GEN3_BIT
  <2>8. QED
    BY <2>5, <2>6, <2>7
<1>4. ASSUME NEW k \in Regions, NEW j \in 1 .. 7, StoreField(k, j) PROVE RatesInv'
  <2>1. 13 + 8 * k + j \notin 6 .. 8
    BY DEF Regions
  <2>2. QED
    BY <1>4, <1>a, <2>1 DEF StoreField, Leave
<1>5. ASSUME NEW k \in Regions, Enable(k) PROVE RatesInv'
  <2>1. 21 + 8 * k \notin 6 .. 8
    BY DEF Regions
  <2>2. QED
    BY <1>5, <1>a, <2>1 DEF Enable, Leave
<1>6. CASE SpeedChangeEnds
  BY <1>6, <1>a DEF SpeedChangeEnds
<1>7. ASSUME NEW b \in ErrorBits, LogError(b) PROVE RatesInv'
  BY <1>7, <1>a DEF LogError
<1>8. ASSUME NEW k \in Regions, EnableTakesEffect(k) PROVE RatesInv'
  BY <1>8, <1>a DEF EnableTakesEffect
<1>9. CASE UNCHANGED vars
  BY <1>9, <1>a DEF vars
<1>10. QED
  BY <1>1, <1>2, <1>3, <1>4, <1>5, <1>6, <1>7, <1>8, <1>9, NextSteps

-----------------------------------------------------------------------------
(***************************************************************************)
(* The fields.                                                             *)
(***************************************************************************)
\* The fields whose value does not depend on the controller.
LEMMA FieldValues ==
  /\ ShiftLeft(BitsOf(1), 8) = {8}
  /\ ShiftLeft(BitsOf(0), 0) = {}
  /\ ShiftLeft(BitsOf(255), 16) = 16 .. 23
  /\ ShiftLeft(BitsOf(1 + 2 + 4 + 256), 0) = {0, 1, 2, 8}
  /\ ShiftLeft(BitsOf(6 * 256 + 4), 16) = {18, 25, 26}
<1>1. ShiftLeft({0}, 8) = {8} /\ ShiftLeft({}, 0) = {}
  BY DEF ShiftLeft, Bits
<1>2. ShiftLeft(0 .. 7, 16) = 16 .. 23
  BY DEF ShiftLeft, Bits
<1>3. ShiftLeft({0, 1, 2, 8}, 0) = {0, 1, 2, 8}
  BY DEF ShiftLeft, Bits
<1>4. ShiftLeft({2, 9, 10}, 16) = {18, 25, 26}
  BY DEF ShiftLeft, Bits
<1>5. 1 + 2 + 4 + 256 = 263 /\ 6 * 256 + 4 = 1540
  OBVIOUS
<1>6. QED
  BY <1>1, <1>2, <1>3, <1>4, <1>5, WrittenNumbers

\* What the accesses leave in their registers.  The read-only ones among them
\* are reached with the lock open.
LEMMA StoredAt ==
  ASSUME TypeOK, UnlockedInv, NEW i \in PlainPlaces, StorePlain(i)
  PROVE  /\ i = 2 => regs'[PCIE_TIMER_CTRL_MAX_FUN_NUM_OFF] = val \cup {30}
         /\ i = 3 => regs'[PCIE_PORT_LINK_CONTROL] =
                     (val \ PORT_LINK_MODE_MASK) \cup (PORT_LINK_MODE(pci.lane_num) \cup {7})
         /\ i = 4 => regs'[PCIE_LINK_WIDTH_SPEED_CONTROL] =
                     (val \ PORT_LOGIC_LINK_WIDTH_MASK) \cup PORT_LOGIC_LINK_WIDTH(pci.lane_num)
         /\ i = 5 => regs'[PCIE_PORT_FORCE_OFF] =
                     (val \ PORT_LINK_NUM_MASK) \cup FIELD_PREP(PORT_LINK_NUM_MASK, pci.order)
         /\ i = 10 => regs'[PCI_BASE_ADDRESS_1] = {}
         /\ i = 11 => regs'[PCI_INTERRUPT_LINE] = (val \ GENMASK(15, 8)) \cup {8}
         /\ i = 12 => regs'[PCI_PRIMARY_BUS] =
                     (val \ GENMASK(23, 0)) \cup ({8} \cup GENMASK(23, 16))
         /\ i = 38 => regs'[PCI_BASE_ADDRESS_0] = {}
         /\ i = 39 => regs'[PCI_CLASS_REVISION] = (val \ 16 .. 31) \cup {18, 25, 26}
         /\ i = 40 => regs'[PCIE_LINK_WIDTH_SPEED_CONTROL] = val \cup {PORT_LOGIC_SPEED_CHANGE}
         /\ i = 13 => regs'[PCI_COMMAND] \cap GENMASK(15, 0) = {0, 1, 2, 8}
<1> DEFINE r == Access(pci, i).reg
<1>0. /\ regs'[r] = Written(r, WordAt(i))
      /\ PCIE_DBI_RO_WR_EN \in regs[PCIE_MISC_CONTROL_1_OFF] \/ i \notin 2 .. 41
  <2>1. ip = i
    BY DEF StorePlain, Leave
  <2>2. QED
    BY <2>1, StoreFrame DEF UnlockedInv
<1> HIDE DEF r
<1>a. ProgramIs(pci)
  BY ProgramAt
<1>1. ASSUME i = 2 PROVE regs'[PCIE_TIMER_CTRL_MAX_FUN_NUM_OFF] = val \cup {30}
  <2>1. Access(pci, 2) = Rmw(PCIE_TIMER_CTRL_MAX_FUN_NUM_OFF, {}, {30})
    BY <1>a DEF ProgramIs
  <2>2. r = PCIE_TIMER_CTRL_MAX_FUN_NUM_OFF
    BY <1>1, <2>1 DEF r, Rmw
  <2>3. WordAt(2) = val \cup {30}
    BY <2>1 DEF WordAt, Rmw
  <2>4. Written(r, WordAt(2)) = WordAt(2)
    BY <1>0, <1>1, <2>2, StoredWord, RegisterNumbers
  <2>5. QED
    BY <1>0, <1>1, <2>2, <2>3, <2>4
<1>2. ASSUME i = 3 PROVE regs'[PCIE_PORT_LINK_CONTROL] =
                               (val \ PORT_LINK_MODE_MASK) \cup (PORT_LINK_MODE(pci.lane_num) \cup {7})
  <2>1. Access(pci, 3) = Rmw(PCIE_PORT_LINK_CONTROL, PORT_LINK_MODE_MASK,
                              PORT_LINK_MODE(pci.lane_num) \cup {7})
    BY <1>a DEF ProgramIs
  <2>2. r = PCIE_PORT_LINK_CONTROL
    BY <1>2, <2>1 DEF r, Rmw
  <2>3. WordAt(3) =
                    (val \ PORT_LINK_MODE_MASK) \cup (PORT_LINK_MODE(pci.lane_num) \cup {7})
    BY <2>1 DEF WordAt, Rmw
  <2>4. Written(r, WordAt(3)) = WordAt(3)
    BY <1>0, <1>2, <2>2, StoredWord, RegisterNumbers
  <2>5. QED
    BY <1>0, <1>2, <2>2, <2>3, <2>4
<1>3. ASSUME i = 4 PROVE regs'[PCIE_LINK_WIDTH_SPEED_CONTROL] =
                               (val \ PORT_LOGIC_LINK_WIDTH_MASK) \cup PORT_LOGIC_LINK_WIDTH(pci.lane_num)
  <2>1. Access(pci, 4) = Rmw(PCIE_LINK_WIDTH_SPEED_CONTROL, PORT_LOGIC_LINK_WIDTH_MASK,
                              PORT_LOGIC_LINK_WIDTH(pci.lane_num))
    BY <1>a DEF ProgramIs
  <2>2. r = PCIE_LINK_WIDTH_SPEED_CONTROL
    BY <1>3, <2>1 DEF r, Rmw
  <2>3. WordAt(4) =
                    (val \ PORT_LOGIC_LINK_WIDTH_MASK) \cup PORT_LOGIC_LINK_WIDTH(pci.lane_num)
    BY <2>1 DEF WordAt, Rmw
  <2>4. Written(r, WordAt(4)) = WordAt(4)
    BY <1>0, <1>3, <2>2, StoredWord, RegisterNumbers
  <2>5. QED
    BY <1>0, <1>3, <2>2, <2>3, <2>4
<1>4. ASSUME i = 5 PROVE regs'[PCIE_PORT_FORCE_OFF] =
                               (val \ PORT_LINK_NUM_MASK) \cup FIELD_PREP(PORT_LINK_NUM_MASK, pci.order)
  <2>1. Access(pci, 5) = Rmw(PCIE_PORT_FORCE_OFF, PORT_LINK_NUM_MASK,
                              FIELD_PREP(PORT_LINK_NUM_MASK, pci.order))
    BY <1>a DEF ProgramIs
  <2>2. r = PCIE_PORT_FORCE_OFF
    BY <1>4, <2>1 DEF r, Rmw
  <2>3. WordAt(5) =
                    (val \ PORT_LINK_NUM_MASK) \cup FIELD_PREP(PORT_LINK_NUM_MASK, pci.order)
    BY <2>1 DEF WordAt, Rmw
  <2>4. Written(r, WordAt(5)) = WordAt(5)
    BY <1>0, <1>4, <2>2, StoredWord, RegisterNumbers
  <2>5. QED
    BY <1>0, <1>4, <2>2, <2>3, <2>4
<1>5. ASSUME i = 10 PROVE regs'[PCI_BASE_ADDRESS_1] = {}
  <2>1. Access(pci, 10) = Write(PCI_BASE_ADDRESS_1, {})
    BY <1>a DEF ProgramIs
  <2>2. r = PCI_BASE_ADDRESS_1
    BY <1>5, <2>1 DEF r, Write
  <2>3. WordAt(10) = {}
    BY <2>1 DEF WordAt, Write
  <2>4. Written(r, WordAt(10)) = WordAt(10)
    BY <1>0, <1>5, <2>2, StoredWord, RegisterNumbers
  <2>5. QED
    BY <1>0, <1>5, <2>2, <2>3, <2>4
<1>6. ASSUME i = 11 PROVE regs'[PCI_INTERRUPT_LINE] = (val \ GENMASK(15, 8)) \cup {8}
  <2>1. Access(pci, 11) = Rmw(PCI_INTERRUPT_LINE, GENMASK(15, 8), {8})
    BY <1>a DEF ProgramIs
  <2>2. r = PCI_INTERRUPT_LINE
    BY <1>6, <2>1 DEF r, Rmw
  <2>3. WordAt(11) = (val \ GENMASK(15, 8)) \cup {8}
    BY <2>1 DEF WordAt, Rmw
  <2>4. Written(r, WordAt(11)) = WordAt(11)
    BY <1>0, <1>6, <2>2, StoredWord, RegisterNumbers
  <2>5. QED
    BY <1>0, <1>6, <2>2, <2>3, <2>4
<1>7. ASSUME i = 12 PROVE regs'[PCI_PRIMARY_BUS] =
                               (val \ GENMASK(23, 0)) \cup ({8} \cup GENMASK(23, 16))
  <2>1. Access(pci, 12) = Rmw(PCI_PRIMARY_BUS, GENMASK(23, 0), {8} \cup GENMASK(23, 16))
    BY <1>a DEF ProgramIs
  <2>2. r = PCI_PRIMARY_BUS
    BY <1>7, <2>1 DEF r, Rmw
  <2>3. WordAt(12) =
                    (val \ GENMASK(23, 0)) \cup ({8} \cup GENMASK(23, 16))
    BY <2>1 DEF WordAt, Rmw
  <2>4. Written(r, WordAt(12)) = WordAt(12)
    BY <1>0, <1>7, <2>2, StoredWord, RegisterNumbers
  <2>5. QED
    BY <1>0, <1>7, <2>2, <2>3, <2>4
<1>8. ASSUME i = 38 PROVE regs'[PCI_BASE_ADDRESS_0] = {}
  <2>1. Access(pci, 38) = Write(PCI_BASE_ADDRESS_0, {})
    BY <1>a DEF ProgramIs
  <2>2. r = PCI_BASE_ADDRESS_0
    BY <1>8, <2>1 DEF r, Write
  <2>3. WordAt(38) = {}
    BY <2>1 DEF WordAt, Write
  <2>4. Written(r, WordAt(38)) = WordAt(38)
    BY <1>0, <1>8, <2>2, StoredWord, RegisterNumbers
  <2>5. QED
    BY <1>0, <1>8, <2>2, <2>3, <2>4
<1>9. ASSUME i = 39 PROVE regs'[PCI_CLASS_REVISION] =
                               (val \ 16 .. 31) \cup {18, 25, 26}
  <2>1. Access(pci, 39) = Rmw(PCI_CLASS_REVISION, 16 .. 31, {18, 25, 26})
    BY <1>a, ClassWrite DEF ProgramIs
  <2>2. r = PCI_CLASS_REVISION
    BY <1>9, <2>1 DEF r, Rmw
  <2>3. WordAt(39) = (val \ 16 .. 31) \cup {18, 25, 26}
    BY <2>1 DEF WordAt, Rmw
  <2>4. Written(r, WordAt(39)) = WordAt(39)
    BY <1>0, <1>9, <2>2, StoredWord, RegisterNumbers
  <2>5. QED
    BY <1>0, <1>9, <2>2, <2>3, <2>4
<1>10. ASSUME i = 40 PROVE regs'[PCIE_LINK_WIDTH_SPEED_CONTROL] =
                               val \cup {PORT_LOGIC_SPEED_CHANGE}
  <2>1. Access(pci, 40) = Rmw(PCIE_LINK_WIDTH_SPEED_CONTROL, {}, {PORT_LOGIC_SPEED_CHANGE})
    BY <1>a DEF ProgramIs
  <2>2. r = PCIE_LINK_WIDTH_SPEED_CONTROL
    BY <1>10, <2>1 DEF r, Rmw
  <2>3. WordAt(40) = val \cup {PORT_LOGIC_SPEED_CHANGE}
    BY <2>1 DEF WordAt, Rmw
  <2>4. Written(r, WordAt(40)) = WordAt(40)
    BY <1>0, <1>10, <2>2, StoredWord, RegisterNumbers
  <2>5. QED
    BY <1>0, <1>10, <2>2, <2>3, <2>4
<1>11. ASSUME i = 13 PROVE regs'[PCI_COMMAND] \cap GENMASK(15, 0) = {0, 1, 2, 8}
  <2>1. Access(pci, 13) = Rmw(PCI_COMMAND, GENMASK(15, 0), {0, 1, 2, 8})
    BY <1>a DEF ProgramIs, set_command
  <2>2. r = PCI_COMMAND
    BY <1>11, <2>1 DEF r, Rmw
  <2>3. WordAt(13) = (val \ GENMASK(15, 0)) \cup {0, 1, 2, 8}
    BY <2>1 DEF WordAt, Rmw
  <2>4. WordAt(13) \cap GENMASK(15, 0) = {0, 1, 2, 8}
    <3>1. {0, 1, 2, 8} \subseteq GENMASK(15, 0)
      BY DEF GENMASK
    <3>2. QED
      BY <2>3, <3>1
  <2>5. Written(PCI_COMMAND, WordAt(13)) \cap GENMASK(15, 0) = {0, 1, 2, 8}
    BY <2>4 DEF Written
  <2>6. QED
    BY <1>0, <1>11, <2>2, <2>5
<1>12. QED
  BY <1>1, <1>2, <1>3, <1>4, <1>5, <1>6, <1>7, <1>8, <1>9, <1>10, <1>11

\* What the link partner sees changes only at the access that writes it, which
\* leaves what the set-up is for: a field that is in place stays in place.
LEMMA StoredLinkFields ==
  ASSUME TypeOK, FetchedInv, UnlockedInv, NEW i \in PlainPlaces, StorePlain(i)
  PROVE  /\ i = 3 \/ FieldIs(PCIE_PORT_LINK_CONTROL, 21, 16, 2 * pci.lane_num - 1) =>
              FieldIs(PCIE_PORT_LINK_CONTROL, 21, 16, 2 * pci.lane_num - 1)'
         /\ i = 4 \/ FieldIs(PCIE_LINK_WIDTH_SPEED_CONTROL, 12, 8, pci.lane_num) =>
              FieldIs(PCIE_LINK_WIDTH_SPEED_CONTROL, 12, 8, pci.lane_num)'
         /\ i = 5 \/ FieldIs(PCIE_PORT_FORCE_OFF, 7, 0, pci.order) =>
              FieldIs(PCIE_PORT_FORCE_OFF, 7, 0, pci.order)'
         /\ i = 39 \/ FieldIs(PCI_CLASS_REVISION, 31, 16, 6 * 256 + 4) =>
              FieldIs(PCI_CLASS_REVISION, 31, 16, 6 * 256 + 4)'
<1> USE DEF FieldIs, HasField
<1> DEFINE r == Access(pci, i).reg
<1>1. \A reg \in PlainRegs \ {r} : regs'[reg] = regs[reg]
  BY StoreFrame
<1>2. ip = i /\ pci' = pci /\ (Access(pci, i).op = "rmw" => fetched)
  BY DEF StorePlain, Leave, fixed
<1>3. PlaceIs(pci, i) /\ i \in 1 .. 41 /\ i \notin 14 .. 37
  BY Places DEF PlainPlaces
<1>4. /\ r # PCIE_PORT_LINK_CONTROL <=> i # 3
      /\ r # PCIE_LINK_WIDTH_SPEED_CONTROL <=> i \notin {4, 40}
      /\ r # PCIE_PORT_FORCE_OFF <=> i # 5
      /\ r # PCI_CLASS_REVISION <=> i # 39
  BY <1>3 DEF PlaceIs
<1>5. i = 40 => SymDiff(val, regs[PCIE_LINK_WIDTH_SPEED_CONTROL])
                  \subseteq {PORT_LOGIC_SPEED_CHANGE}
  BY <1>2, <1>3, <1>4 DEF FetchedInv, PlaceIs
<1>6. pci \in Calls
  BY SetupIsCall
<1> HIDE DEF r
<1>7. /\ PCIE_PORT_LINK_CONTROL \in PlainRegs /\ PCIE_LINK_WIDTH_SPEED_CONTROL \in PlainRegs
      /\ PCIE_PORT_FORCE_OFF \in PlainRegs /\ PCI_CLASS_REVISION \in PlainRegs
  BY DEF PlainRegs
<1>8. i = 3 \/ FieldIs(PCIE_PORT_LINK_CONTROL, 21, 16, 2 * pci.lane_num - 1) =>
        FieldIs(PCIE_PORT_LINK_CONTROL, 21, 16, 2 * pci.lane_num - 1)'
  <2>1. CASE i = 3
    <3>1. regs'[PCIE_PORT_LINK_CONTROL]
            = (val \ PORT_LINK_MODE_MASK) \cup (PORT_LINK_MODE(pci.lane_num) \cup {7})
      BY <2>1, StoredAt
    <3>2. /\ PORT_LINK_MODE(pci.lane_num) = ShiftLeft(BitsOf(2 * pci.lane_num - 1), 16)
          /\ PORT_LINK_MODE(pci.lane_num) \subseteq 16 .. 21
      BY <1>6, WrittenFields DEF Calls
    <3>3. PORT_LINK_MODE_MASK = 16 .. 21 /\ GENMASK(21, 16) = 16 .. 21 /\ 7 \notin 16 .. 21
      BY DEF PORT_LINK_MODE_MASK, GENMASK
    <3>4. regs'[PCIE_PORT_LINK_CONTROL] \cap GENMASK(21, 16)
            = ShiftLeft(BitsOf(2 * pci.lane_num - 1), 16)
      BY <3>1, <3>2, <3>3
    <3>5. QED
      BY <1>2, <3>4
  <2>2. CASE i # 3
    <3>1. regs'[PCIE_PORT_LINK_CONTROL] = regs[PCIE_PORT_LINK_CONTROL]
      BY <1>1, <1>4, <1>7, <2>2
    <3>2. QED
      BY <1>2, <2>2, <3>1
  <2>3. QED
    BY <2>1, <2>2
<1>9. i = 4 \/ FieldIs(PCIE_LINK_WIDTH_SPEED_CONTROL, 12, 8, pci.lane_num) =>
        FieldIs(PCIE_LINK_WIDTH_SPEED_CONTROL, 12, 8, pci.lane_num)'
  <2>1. CASE i = 4
    <3>1. regs'[PCIE_LINK_WIDTH_SPEED_CONTROL]
            = (val \ PORT_LOGIC_LINK_WIDTH_MASK) \cup PORT_LOGIC_LINK_WIDTH(pci.lane_num)
      BY <2>1, StoredAt
    <3>2. /\ PORT_LOGIC_LINK_WIDTH(pci.lane_num) = ShiftLeft(BitsOf(pci.lane_num), 8)
          /\ PORT_LOGIC_LINK_WIDTH(pci.lane_num) \subseteq 8 .. 12
      BY <1>6, WrittenFields DEF Calls
    <3>3. PORT_LOGIC_LINK_WIDTH_MASK = 8 .. 12 /\ GENMASK(12, 8) = 8 .. 12
      BY DEF PORT_LOGIC_LINK_WIDTH_MASK, GENMASK
    <3>4. regs'[PCIE_LINK_WIDTH_SPEED_CONTROL] \cap GENMASK(12, 8)
            = ShiftLeft(BitsOf(pci.lane_num), 8)
      BY <3>1, <3>2, <3>3
    <3>5. QED
      BY <1>2, <3>4
  <2>2. CASE i = 40
    <3>1. regs'[PCIE_LINK_WIDTH_SPEED_CONTROL] = val \cup {17}
      BY <2>2, StoredAt DEF PORT_LOGIC_SPEED_CHANGE
    <3>2. regs'[PCIE_LINK_WIDTH_SPEED_CONTROL] \cap 8 .. 12
            = regs[PCIE_LINK_WIDTH_SPEED_CONTROL] \cap 8 .. 12
      BY <1>5, <2>2, <3>1 DEF SymDiff, PORT_LOGIC_SPEED_CHANGE
    <3>3. QED
      BY <1>2, <2>2, <3>2 DEF GENMASK
  <2>3. CASE i \notin {4, 40}
    <3>1. regs'[PCIE_LINK_WIDTH_SPEED_CONTROL] = regs[PCIE_LINK_WIDTH_SPEED_CONTROL]
      BY <1>1, <1>4, <1>7, <2>3
    <3>2. QED
      BY <1>2, <2>3, <3>1
  <2>4. QED
    BY <2>1, <2>2, <2>3
<1>10. i = 5 \/ FieldIs(PCIE_PORT_FORCE_OFF, 7, 0, pci.order) =>
         FieldIs(PCIE_PORT_FORCE_OFF, 7, 0, pci.order)'
  <2>1. CASE i = 5
    <3>1. regs'[PCIE_PORT_FORCE_OFF]
            = (val \ PORT_LINK_NUM_MASK) \cup FIELD_PREP(PORT_LINK_NUM_MASK, pci.order)
      BY <2>1, StoredAt
    <3>2. /\ FIELD_PREP(PORT_LINK_NUM_MASK, pci.order) = ShiftLeft(BitsOf(pci.order), 0)
          /\ FIELD_PREP(PORT_LINK_NUM_MASK, pci.order) \subseteq 0 .. 7
      BY <1>6, WrittenFields DEF Calls
    <3>3. PORT_LINK_NUM_MASK = 0 .. 7 /\ GENMASK(7, 0) = 0 .. 7
      BY DEF PORT_LINK_NUM_MASK, GENMASK
    <3>4. regs'[PCIE_PORT_FORCE_OFF] \cap GENMASK(7, 0) = ShiftLeft(BitsOf(pci.order), 0)
      BY <3>1, <3>2, <3>3
    <3>5. QED
      BY <1>2, <3>4
  <2>2. CASE i # 5
    <3>1. regs'[PCIE_PORT_FORCE_OFF] = regs[PCIE_PORT_FORCE_OFF]
      BY <1>1, <1>4, <1>7, <2>2
    <3>2. QED
      BY <1>2, <2>2, <3>1
  <2>3. QED
    BY <2>1, <2>2
<1>11. i = 39 \/ FieldIs(PCI_CLASS_REVISION, 31, 16, 6 * 256 + 4) =>
         FieldIs(PCI_CLASS_REVISION, 31, 16, 6 * 256 + 4)'
  <2>1. CASE i = 39
    <3>1. regs'[PCI_CLASS_REVISION] = (val \ 16 .. 31) \cup {18, 25, 26}
      BY <2>1, StoredAt
    <3>2. regs'[PCI_CLASS_REVISION] \cap 16 .. 31 = {18, 25, 26}
      BY <3>1
    <3>3. QED
      BY <3>2, FieldValues DEF GENMASK
  <2>2. CASE i # 39
    <3>1. regs'[PCI_CLASS_REVISION] = regs[PCI_CLASS_REVISION]
      BY <1>1, <1>4, <1>7, <2>2
    <3>2. QED
      BY <2>2, <3>1
  <2>3. QED
    BY <2>1, <2>2
<1>12. QED
  BY <1>8, <1>9, <1>10, <1>11

LEMMA InitFieldsInv == Init => FieldsInv
<1> SUFFICES ASSUME Init PROVE FieldsInv
  OBVIOUS
<1>1. ip = 1
  BY DEF Init
<1>2. QED
  BY <1>1 DEF FieldsInv

LEMMA NextFieldsInv ==
  ASSUME TypeOK, FetchedInv, UnlockedInv, FieldsInv, [Next]_vars
  PROVE  FieldsInv'
<1> USE DEF fixed, hardware, driver
<1>0. regs \in [PlainRegs -> AnyWord] /\ ip \in 1 .. 42
  BY ProgramLength DEF TypeOK
<1>a. ASSUME pci' = pci, regs' = regs,
             ip' = ip \/ (ip' = ip + 1 /\ ip \notin {2, 3, 4, 5, 10, 11, 12, 13, 38, 39})
      PROVE  FieldsInv'
  <2>1. \A n \in {2, 3, 4, 5, 10, 11, 12, 13, 38, 39} : ip' > n => ip > n
    BY <1>0, <1>a
  <2>2. QED
    BY <1>a, <2>1 DEF FieldsInv, FieldIs, HasField
<1>b. ASSUME pci' = pci, ip' = ip,
             \A reg \in PlainRegs \ {PCI_COMMAND, PCIE_LINK_WIDTH_SPEED_CONTROL} :
               regs'[reg] = regs[reg],
             regs'[PCI_COMMAND] \cap GENMASK(15, 0) = regs[PCI_COMMAND] \cap GENMASK(15, 0),
             regs'[PCIE_LINK_WIDTH_SPEED_CONTROL] \cap GENMASK(12, 8)
               = regs[PCIE_LINK_WIDTH_SPEED_CONTROL] \cap GENMASK(12, 8)
      PROVE  FieldsInv'
  <2>1. /\ regs'[PCIE_TIMER_CTRL_MAX_FUN_NUM_OFF] = regs[PCIE_TIMER_CTRL_MAX_FUN_NUM_OFF]
        /\ regs'[PCIE_PORT_LINK_CONTROL] = regs[PCIE_PORT_LINK_CONTROL]
        /\ regs'[PCIE_PORT_FORCE_OFF] = regs[PCIE_PORT_FORCE_OFF]
        /\ regs'[PCI_BASE_ADDRESS_0] = regs[PCI_BASE_ADDRESS_0]
        /\ regs'[PCI_BASE_ADDRESS_1] = regs[PCI_BASE_ADDRESS_1]
        /\ regs'[PCI_INTERRUPT_LINE] = regs[PCI_INTERRUPT_LINE]
        /\ regs'[PCI_PRIMARY_BUS] = regs[PCI_PRIMARY_BUS]
        /\ regs'[PCI_CLASS_REVISION] = regs[PCI_CLASS_REVISION]
    BY <1>b, RegisterNumbers
  <2>2. QED
    BY <1>b, <2>1 DEF FieldsInv, FieldIs, HasField
<1>1. ASSUME NEW i \in RmwPlaces, Fetch(i) PROVE FieldsInv'
  BY <1>1, <1>a DEF Fetch
<1>2. ASSUME NEW i \in PlainPlaces, StorePlain(i) PROVE FieldsInv'
  <2> DEFINE r == Access(pci, i).reg
  <2>1. \A reg \in PlainRegs \ {r} : regs'[reg] = regs[reg]
    BY <1>2, StoreFrame
  <2>2. ip = i /\ ip' = i + 1 /\ pci' = pci /\ (Access(pci, i).op = "rmw" => fetched)
    BY <1>2 DEF StorePlain, Leave
  <2>3. PlaceIs(pci, i) /\ i \in 1 .. 41 /\ i \notin 14 .. 37
    BY Places DEF PlainPlaces
  <2>4. /\ r # PCIE_TIMER_CTRL_MAX_FUN_NUM_OFF <=> i # 2
        /\ r # PCIE_PORT_LINK_CONTROL <=> i # 3
        /\ r # PCIE_LINK_WIDTH_SPEED_CONTROL <=> i \notin {4, 40}
        /\ r # PCIE_PORT_FORCE_OFF <=> i # 5
        /\ r # PCI_BASE_ADDRESS_0 <=> i \notin {9, 38}
        /\ r # PCI_BASE_ADDRESS_1 <=> i # 10
        /\ r # PCI_INTERRUPT_LINE <=> i # 11
        /\ r # PCI_PRIMARY_BUS <=> i # 12
        /\ r # PCI_COMMAND <=> i # 13
        /\ r # PCI_CLASS_REVISION <=> i # 39
    BY <2>3 DEF PlaceIs
  <2>6. i = 40 => SymDiff(val, regs[PCIE_LINK_WIDTH_SPEED_CONTROL])
                    \subseteq {PORT_LOGIC_SPEED_CHANGE}
    BY <2>2, <2>3, <2>4 DEF FetchedInv, PlaceIs
  <2>7. pci \in Calls
    BY SetupIsCall
  <2> HIDE DEF r
  <2>8. /\ PCIE_TIMER_CTRL_MAX_FUN_NUM_OFF \in PlainRegs /\ PCIE_PORT_LINK_CONTROL \in PlainRegs
        /\ PCIE_LINK_WIDTH_SPEED_CONTROL \in PlainRegs /\ PCIE_PORT_FORCE_OFF \in PlainRegs
        /\ PCI_BASE_ADDRESS_0 \in PlainRegs /\ PCI_BASE_ADDRESS_1 \in PlainRegs
        /\ PCI_INTERRUPT_LINE \in PlainRegs /\ PCI_PRIMARY_BUS \in PlainRegs
        /\ PCI_COMMAND \in PlainRegs /\ PCI_CLASS_REVISION \in PlainRegs
    BY DEF PlainRegs
  <2>9. i + 1 > 2 => 30 \in regs'[PCIE_TIMER_CTRL_MAX_FUN_NUM_OFF]
    <3>1. CASE i = 2
      <4>1. regs'[PCIE_TIMER_CTRL_MAX_FUN_NUM_OFF] = val \cup {30}
        BY <1>2, <3>1, StoredAt
      <4>2. QED
        BY <4>1
    <3>2. CASE i # 2
      <4>1. regs'[PCIE_TIMER_CTRL_MAX_FUN_NUM_OFF] = regs[PCIE_TIMER_CTRL_MAX_FUN_NUM_OFF]
        BY <2>1, <2>4, <2>8, <3>2
      <4>2. i + 1 > 2 => ip > 2
        BY <2>2, <2>3, <3>2
      <4>3. QED
        BY <2>2, <4>1, <4>2 DEF FieldsInv
    <3>3. QED
      BY <3>1, <3>2
  <2>10. i + 1 > 3 => FieldIs(PCIE_PORT_LINK_CONTROL, 21, 16, 2 * pci.lane_num - 1)'
    <3>1. i + 1 > 3 => i = 3 \/ ip > 3
      BY <2>2, <2>3
    <3>2. QED
      BY <1>2, <3>1, StoredLinkFields DEF FieldsInv
  <2>11. i + 1 > 5 => FieldIs(PCIE_PORT_FORCE_OFF, 7, 0, pci.order)'
    <3>1. i + 1 > 5 => i = 5 \/ ip > 5
      BY <2>2, <2>3
    <3>2. QED
      BY <1>2, <3>1, StoredLinkFields DEF FieldsInv
  <2>12. i + 1 > 11 => 
          regs'[PCI_INTERRUPT_LINE] \cap GENMASK(15, 8) = ShiftLeft(BitsOf(1), 8)
    <3>1. CASE i = 11
      <4>1. regs'[PCI_INTERRUPT_LINE] = (val \ GENMASK(15, 8)) \cup {8}
        BY <1>2, <3>1, StoredAt
      <4>2. 8 \in GENMASK(15, 8)
        BY DEF GENMASK
      <4>3. QED
        BY <4>1, <4>2, FieldValues
    <3>2. CASE i # 11
      <4>1. regs'[PCI_INTERRUPT_LINE] = regs[PCI_INTERRUPT_LINE]
        BY <2>1, <2>4, <2>8, <3>2
      <4>2. i + 1 > 11 => ip > 11
        BY <2>2, <2>3, <3>2
      <4>3. QED
        BY <2>2, <4>1, <4>2 DEF FieldsInv, FieldIs, HasField
    <3>3. QED
      BY <3>1, <3>2
  <2>13. i + 1 > 12 => 
        /\ regs'[PCI_PRIMARY_BUS] \cap GENMASK(7, 0) = ShiftLeft(BitsOf(0), 0)
        /\ regs'[PCI_PRIMARY_BUS] \cap GENMASK(15, 8) = ShiftLeft(BitsOf(1), 8)
        /\ regs'[PCI_PRIMARY_BUS] \cap GENMASK(23, 16) = ShiftLeft(BitsOf(255), 16)
    <3>1. CASE i = 12
      <4>1. regs'[PCI_PRIMARY_BUS] = (val \ GENMASK(23, 0)) \cup ({8} \cup GENMASK(23, 16))
        BY <1>2, <3>1, StoredAt
      <4>2. regs'[PCI_PRIMARY_BUS] = (val \ 0 .. 23) \cup ({8} \cup 16 .. 23)
        BY <4>1 DEF GENMASK
      <4>3. /\ regs'[PCI_PRIMARY_BUS] \cap 0 .. 7 = {}
            /\ regs'[PCI_PRIMARY_BUS] \cap 8 .. 15 = {8}
            /\ regs'[PCI_PRIMARY_BUS] \cap 16 .. 23 = 16 .. 23
        BY <4>2
      <4>4. QED
        BY <4>3, FieldValues DEF GENMASK
    <3>2. CASE i # 12
      <4>1. regs'[PCI_PRIMARY_BUS] = regs[PCI_PRIMARY_BUS]
        BY <2>1, <2>4, <2>8, <3>2
      <4>2. i + 1 > 12 => ip > 12
        BY <2>2, <2>3, <3>2
      <4>3. QED
        BY <2>2, <4>1, <4>2 DEF FieldsInv, FieldIs, HasField
    <3>3. QED
      BY <3>1, <3>2
  <2>14. i + 1 > 13 => 
          regs'[PCI_COMMAND] \cap GENMASK(15, 0) = ShiftLeft(BitsOf(1 + 2 + 4 + 256), 0)
    <3>1. CASE i = 13
      BY <1>2, <3>1, StoredAt, FieldValues
    <3>2. CASE i # 13
      <4>1. regs'[PCI_COMMAND] = regs[PCI_COMMAND]
        BY <2>1, <2>4, <2>8, <3>2
      <4>2. i + 1 > 13 => ip > 13
        BY <2>2, <2>3, <3>2
      <4>3. QED
        BY <2>2, <4>1, <4>2 DEF FieldsInv, FieldIs, HasField
    <3>3. QED
      BY <3>1, <3>2
  <2>15. i + 1 > 39 => FieldIs(PCI_CLASS_REVISION, 31, 16, 6 * 256 + 4)'
    <3>1. i + 1 > 39 => i = 39 \/ ip > 39
      BY <2>2, <2>3
    <3>2. QED
      BY <1>2, <3>1, StoredLinkFields DEF FieldsInv
  <2>16. i + 1 > 10 => regs'[PCI_BASE_ADDRESS_1] = {}
    <3>1. CASE i = 10
      BY <1>2, <3>1, StoredAt
    <3>2. CASE i # 10
      <4>1. regs'[PCI_BASE_ADDRESS_1] = regs[PCI_BASE_ADDRESS_1]
        BY <2>1, <2>4, <2>8, <3>2
      <4>2. i + 1 > 10 => ip > 10
        BY <2>2, <2>3, <3>2
      <4>3. QED
        BY <4>1, <4>2 DEF FieldsInv
    <3>3. QED
      BY <3>1, <3>2
  <2>17. i + 1 > 38 => regs'[PCI_BASE_ADDRESS_0] = {}
    <3>1. CASE i = 38
      BY <1>2, <3>1, StoredAt
    <3>2. CASE i < 38
      BY <2>3, <3>2
    <3>3. CASE i > 38
      <4>1. regs'[PCI_BASE_ADDRESS_0] = regs[PCI_BASE_ADDRESS_0]
        BY <2>1, <2>3, <2>4, <2>8, <3>3
      <4>2. QED
        BY <2>2, <3>3, <4>1 DEF FieldsInv
    <3>4. QED
      BY <2>3, <3>1, <3>2, <3>3
  <2>18. i + 1 > 4 => FieldIs(PCIE_LINK_WIDTH_SPEED_CONTROL, 12, 8, pci.lane_num)'
    <3>1. i + 1 > 4 => i = 4 \/ ip > 4
      BY <2>2, <2>3
    <3>2. QED
      BY <1>2, <3>1, StoredLinkFields DEF FieldsInv
  <2>19. QED
    BY <2>2, <2>9, <2>10, <2>11, <2>12, <2>13, <2>14, <2>15, <2>16, <2>17, <2>18
       DEF FieldsInv, FieldIs, HasField
<1>3. ASSUME NEW i \in 6 .. 8, StoreRate(i) PROVE FieldsInv'
  BY <1>3, <1>a DEF StoreRate, Leave
<1>4. ASSUME NEW k \in Regions, NEW j \in 1 .. 7, StoreField(k, j) PROVE FieldsInv'
  <2>1. 13 + 8 * k + j \in 14 .. 36
    BY DEF Regions
  <2>2. QED
    BY <1>4, <1>a, <2>1 DEF StoreField, Leave
<1>5. ASSUME NEW k \in Regions, Enable(k) PROVE FieldsInv'
  <2>1. 21 + 8 * k \in 21 .. 37
    BY DEF Regions
  <2>2. QED
    BY <1>5, <1>a, <2>1 DEF Enable, Leave
<1>6. CASE SpeedChangeEnds
  <2>1. \A reg \in PlainRegs \ {PCIE_LINK_WIDTH_SPEED_CONTROL} : regs'[reg] = regs[reg]
    BY <1>0, <1>6 DEF SpeedChangeEnds
  <2>2. regs'[PCIE_LINK_WIDTH_SPEED_CONTROL] = regs[PCIE_LINK_WIDTH_SPEED_CONTROL] \ {17}
    BY <1>0, <1>6, RegisterNumbers DEF SpeedChangeEnds, PORT_LOGIC_SPEED_CHANGE
  <2>3. regs'[PCIE_LINK_WIDTH_SPEED_CONTROL] \cap GENMASK(12, 8)
          = regs[PCIE_LINK_WIDTH_SPEED_CONTROL] \cap GENMASK(12, 8)
    BY <2>2 DEF GENMASK
  <2>4. regs'[PCI_COMMAND] = regs[PCI_COMMAND]
    BY <2>1, RegisterNumbers
  <2>5. QED
    BY <1>6, <1>b, <2>1, <2>3, <2>4 DEF SpeedChangeEnds
<1>7. ASSUME NEW b \in ErrorBits, LogError(b) PROVE FieldsInv'
  <2>1. \A reg \in PlainRegs \ {PCI_COMMAND} : regs'[reg] = regs[reg]
    BY <1>0, <1>7 DEF LogError
  <2>2. regs'[PCI_COMMAND] = regs[PCI_COMMAND] \cup {b}
    BY <1>0, <1>7, RegisterNumbers DEF LogError
  <2>3. b \notin GENMASK(15, 0)
    BY RootPortAssumption DEF PCI_STATUS_ERRORS, GENMASK
  <2>4. regs'[PCI_COMMAND] \cap GENMASK(15, 0) = regs[PCI_COMMAND] \cap GENMASK(15, 0)
    BY <2>2, <2>3
  <2>5. regs'[PCIE_LINK_WIDTH_SPEED_CONTROL] = regs[PCIE_LINK_WIDTH_SPEED_CONTROL]
    BY <2>1, RegisterNumbers
  <2>6. QED
    BY <1>7, <1>b, <2>1, <2>4, <2>5 DEF LogError
<1>8. ASSUME NEW k \in Regions, EnableTakesEffect(k) PROVE FieldsInv'
  BY <1>8, <1>a DEF EnableTakesEffect
<1>9. CASE UNCHANGED vars
  BY <1>9, <1>a DEF vars
<1>10. QED
  BY <1>1, <1>2, <1>3, <1>4, <1>5, <1>6, <1>7, <1>8, <1>9, NextSteps

\* A link that is in place stays in place, also while it is set up again.
LEMMA LinkStays ==
  ASSUME TypeOK, FetchedInv, UnlockedInv, [Next]_vars, LinkInPlace(regs, pci)
  PROVE  LinkInPlace(regs, pci)'
<1> USE DEF fixed, hardware, driver
<1>0. regs \in [PlainRegs -> AnyWord]
  BY DEF TypeOK
<1>a. ASSUME pci' = pci, regs' = regs PROVE LinkInPlace(regs, pci)'
  BY <1>a DEF LinkInPlace, HasField
<1>1. ASSUME NEW i \in PlainPlaces, StorePlain(i) PROVE LinkInPlace(regs, pci)'
  <2>1. /\ FieldIs(PCIE_PORT_LINK_CONTROL, 21, 16, 2 * pci.lane_num - 1)
        /\ FieldIs(PCIE_LINK_WIDTH_SPEED_CONTROL, 12, 8, pci.lane_num)
        /\ FieldIs(PCIE_PORT_FORCE_OFF, 7, 0, pci.order)
        /\ FieldIs(PCI_CLASS_REVISION, 31, 16, 6 * 256 + 4)
    BY DEF LinkInPlace, FieldIs
  <2>2. QED
    BY <1>1, <2>1, StoredLinkFields DEF LinkInPlace, FieldIs
<1>2. CASE SpeedChangeEnds
  <2>1. /\ regs'[PCIE_PORT_LINK_CONTROL] = regs[PCIE_PORT_LINK_CONTROL]
        /\ regs'[PCIE_PORT_FORCE_OFF] = regs[PCIE_PORT_FORCE_OFF]
        /\ regs'[PCI_CLASS_REVISION] = regs[PCI_CLASS_REVISION]
        /\ regs'[PCIE_LINK_WIDTH_SPEED_CONTROL] = regs[PCIE_LINK_WIDTH_SPEED_CONTROL] \ {17}
    BY <1>0, <1>2, RegisterNumbers DEF SpeedChangeEnds, PORT_LOGIC_SPEED_CHANGE
  <2>2. regs'[PCIE_LINK_WIDTH_SPEED_CONTROL] \cap GENMASK(12, 8)
          = regs[PCIE_LINK_WIDTH_SPEED_CONTROL] \cap GENMASK(12, 8)
    BY <2>1 DEF GENMASK
  <2>3. pci' = pci
    BY <1>2 DEF SpeedChangeEnds
  <2>4. QED
    BY <2>1, <2>2, <2>3 DEF LinkInPlace, HasField
<1>3. ASSUME NEW b \in ErrorBits, LogError(b) PROVE LinkInPlace(regs, pci)'
  <2>1. /\ regs'[PCIE_PORT_LINK_CONTROL] = regs[PCIE_PORT_LINK_CONTROL]
        /\ regs'[PCIE_PORT_FORCE_OFF] = regs[PCIE_PORT_FORCE_OFF]
        /\ regs'[PCI_CLASS_REVISION] = regs[PCI_CLASS_REVISION]
        /\ regs'[PCIE_LINK_WIDTH_SPEED_CONTROL] = regs[PCIE_LINK_WIDTH_SPEED_CONTROL]
        /\ pci' = pci
    BY <1>0, <1>3, RegisterNumbers DEF LogError
  <2>2. QED
    BY <2>1 DEF LinkInPlace, HasField
<1>4. ASSUME NEW i \in RmwPlaces, Fetch(i) PROVE LinkInPlace(regs, pci)'
  BY <1>4, <1>a DEF Fetch
<1>5. ASSUME NEW i \in 6 .. 8, StoreRate(i) PROVE LinkInPlace(regs, pci)'
  BY <1>5, <1>a DEF StoreRate
<1>6. ASSUME NEW k \in Regions, NEW j \in 1 .. 7, StoreField(k, j)
      PROVE  LinkInPlace(regs, pci)'
  BY <1>6, <1>a DEF StoreField
<1>7. ASSUME NEW k \in Regions, Enable(k) PROVE LinkInPlace(regs, pci)'
  BY <1>7, <1>a DEF Enable
<1>8. CASE \/ \E k \in Regions : EnableTakesEffect(k)
           \/ UNCHANGED vars
  BY <1>8, <1>a DEF EnableTakesEffect, vars
<1>9. QED
  BY <1>1, <1>2, <1>3, <1>4, <1>5, <1>6, <1>7, <1>8, NextSteps

\* Nothing disables a region.
LEMMA EnableStays ==
  ASSUME TypeOK, [Next]_vars, NEW n \in Regions, atu[n].enable
  PROVE  atu'[n].enable
<1> USE DEF fixed, hardware, driver
<1>0. atu \in [Regions -> AtuRegs] /\ atu[n] \in AtuRegs
  BY DEF TypeOK
<1>1. ASSUME NEW k \in Regions, NEW j \in 1 .. 7, StoreField(k, j) PROVE atu'[n].enable
  <2> DEFINE v == Registers(Window(pci.port, k))[AtuFields[j]]
  <2>1. atu' = [atu EXCEPT ![k][AtuFields[j]] = v]
    BY <1>1 DEF StoreField
  <2> HIDE DEF v
  <2>2. CASE n = k
    <3>1. atu'[n] = [atu[n] EXCEPT ![AtuFields[j]] = v]
      BY <1>0, <2>1, <2>2
    <3>2. AtuFields[j] # "enable"
      BY DEF AtuFields
    <3>3. "enable" \in DOMAIN atu[n]
      BY <1>0 DEF AtuRegs
    <3>4. QED
      BY <3>1, <3>2, <3>3
  <2>3. CASE n # k
    BY <1>0, <2>1, <2>3
  <2>4. QED
    BY <2>2, <2>3
<1>2. ASSUME NEW k \in Regions, Enable(k) PROVE atu'[n].enable
  <2>1. atu' = [atu EXCEPT ![k]["enable"] = TRUE]
    BY <1>2 DEF Enable
  <2>2. "enable" \in DOMAIN atu[k]
    BY <1>0 DEF TypeOK, AtuRegs
  <2>3. QED
    BY <1>0, <2>1, <2>2
<1>3. ASSUME atu' = atu PROVE atu'[n].enable
  BY <1>3
<1>4. QED
  BY <1>1, <1>2, <1>3, NextSteps
     DEF Fetch, StorePlain, StoreRate, SpeedChangeEnds, LogError, EnableTakesEffect, vars

\* A speed change is requested by access 40, or by access 4 when a request of
\* an earlier set-up was pending at its read.
LEMMA RequestSources ==
  ASSUME TypeOK, ~SpeedChange, SpeedChange', [Next]_vars
  PROVE  ip = 40 \/ (ip = 4 /\ fetched /\ PORT_LOGIC_SPEED_CHANGE \in val)
<1> USE DEF fixed, hardware, driver, SpeedChange, Requested
<1>0. regs \in [PlainRegs -> AnyWord] /\ PCIE_LINK_WIDTH_SPEED_CONTROL \in PlainRegs
  BY DEF TypeOK, PlainRegs
<1>1. ASSUME regs'[PCIE_LINK_WIDTH_SPEED_CONTROL] \subseteq regs[PCIE_LINK_WIDTH_SPEED_CONTROL]
      PROVE  FALSE
  BY <1>1
<1>2. ASSUME NEW i \in PlainPlaces, StorePlain(i), i # 40
      PROVE  ip = 4 /\ fetched /\ PORT_LOGIC_SPEED_CHANGE \in val
  <2> DEFINE a == Access(pci, i)
  <2>1. ip = i /\ (a.op = "rmw" => fetched) /\ a.reg \in PlainRegs
        /\ \A reg \in PlainRegs \ {a.reg} : regs'[reg] = regs[reg]
        /\ regs'[a.reg] = Written(a.reg, WordAt(i))
    BY <1>2, StoreFrame, PlainPlaceReg DEF StorePlain, Leave
  <2>2. a.reg = PCIE_LINK_WIDTH_SPEED_CONTROL
    BY <1>0, <1>1, <2>1
  <2>3. PlaceIs(pci, i) /\ ProgramIs(pci) /\ i \in 1 .. 41
    BY Places, ProgramAt DEF PlainPlaces
  <2>4. i = 4
    BY <1>2, <2>2, <2>3 DEF PlaceIs, PlainPlaces
  <2>5. a = Rmw(PCIE_LINK_WIDTH_SPEED_CONTROL, PORT_LOGIC_LINK_WIDTH_MASK,
                PORT_LOGIC_LINK_WIDTH(pci.lane_num))
    BY <2>3, <2>4 DEF ProgramIs
  <2>6. fetched
    BY <2>1, <2>5 DEF Rmw
  <2>7. PORT_LOGIC_SPEED_CHANGE \in WordAt(i) \/ PORT_LOGIC_SPEED_CHANGE \in regs[a.reg]
    BY <2>1, <2>2, RegisterNumbers DEF Written
  <2>8. WordAt(i) = (val \ PORT_LOGIC_LINK_WIDTH_MASK) \cup PORT_LOGIC_LINK_WIDTH(pci.lane_num)
    BY <2>5 DEF WordAt, Rmw
  <2>9. PORT_LOGIC_SPEED_CHANGE \notin PORT_LOGIC_LINK_WIDTH(pci.lane_num)
    <3>1. PORT_LOGIC_LINK_WIDTH(pci.lane_num) \subseteq 8 .. 12
      BY SetupIsCall, WrittenFields DEF Calls
    <3>2. QED
      BY <3>1 DEF PORT_LOGIC_SPEED_CHANGE
  <2>10. QED
    BY <2>1, <2>2, <2>4, <2>6, <2>7, <2>8, <2>9
<1>3. CASE SpeedChangeEnds
  BY <1>0, <1>1, <1>3 DEF SpeedChangeEnds
<1>4. ASSUME NEW b \in ErrorBits, LogError(b) PROVE FALSE
  <2>1. regs'[PCIE_LINK_WIDTH_SPEED_CONTROL] = regs[PCIE_LINK_WIDTH_SPEED_CONTROL]
    BY <1>0, <1>4, RegisterNumbers DEF LogError
  <2>2. QED
    BY <1>1, <2>1
<1>5. ASSUME regs' = regs PROVE FALSE
  BY <1>1, <1>5
<1>6. ASSUME NEW i \in PlainPlaces, StorePlain(i), i = 40 PROVE ip = 40
  BY <1>6 DEF StorePlain, Leave
<1>7. QED
  BY <1>2, <1>3, <1>4, <1>5, <1>6, NextSteps
     DEF Fetch, StoreRate, StoreField, Enable, EnableTakesEffect, vars

\* What access 4 writes back was requested when it read the register.
LEMMA PendingSources ==
  ASSUME TypeOK, [Next]_vars, (fetched /\ ip = 4 /\ PORT_LOGIC_SPEED_CHANGE \in val)'
  PROVE  SpeedChange \/ (fetched /\ ip = 4 /\ PORT_LOGIC_SPEED_CHANGE \in val)
<1> USE DEF fixed, hardware, driver
<1>1. ASSUME NEW i \in RmwPlaces, Fetch(i) PROVE SpeedChange
  <2>1. i = 4 /\ val' = Value(Access(pci, i).reg)
    BY <1>1 DEF Fetch
  <2>2. Access(pci, i).reg = PCIE_LINK_WIDTH_SPEED_CONTROL
    BY <2>1, Places DEF PlaceIs
  <2>3. QED
    BY <2>1, <2>2, RegisterNumbers DEF Value, SpeedChange, Requested
<1>2. ASSUME fetched' = FALSE PROVE FALSE
  BY <1>2
<1>3. ASSUME UNCHANGED driver PROVE fetched /\ ip = 4 /\ PORT_LOGIC_SPEED_CHANGE \in val
  BY <1>3
<1>4. QED
  BY <1>1, <1>2, <1>3, NextSteps
     DEF StorePlain, StoreRate, StoreField, Enable, Leave, SpeedChangeEnds, LogError,
         EnableTakesEffect, vars

-----------------------------------------------------------------------------
(***************************************************************************)
(* The theorems.                                                           *)
(***************************************************************************)
LEMMA RootPortInvHolds == Spec => []RootPortInv
<1>1. Init => RootPortInv
  BY InitTypeOK, InitFetchedInv, InitUnlockedInv, InitNoSpeedChangeInv, InitFieldsInv,
     InitRatesInv, InitAtuInv DEF RootPortInv
<1>2. RootPortInv /\ [Next]_vars => RootPortInv'
  BY NextTypeOK, NextFetchedInv, NextUnlockedInv, NextNoSpeedChangeInv, NextFieldsInv,
     NextRatesInv, NextAtuInv DEF RootPortInv
<1>3. QED
  BY <1>1, <1>2, PTL DEF Spec

\* Past the write of the class code everything is in place.
LEMMA ReadyPastClass == TypeOK /\ FieldsInv /\ ip > 39 => PortReady(regs, pci)
<1> SUFFICES ASSUME TypeOK, FieldsInv, ip > 39 PROVE PortReady(regs, pci)
  OBVIOUS
<1>1. ip \in Int /\ \A n \in {2, 3, 4, 5, 10, 11, 12, 13, 38} : ip > n
  BY ProgramLength DEF TypeOK
<1>2. QED
  BY <1>1 DEF FieldsInv, FieldIs, PortReady, LinkInPlace

(***************************************************************************)
(* When dw_pcie_setup_rc returns, whatever words the registers held after  *)
(* the reset (no speed change pending, no error logged, rate 0 selected,   *)
(* no region enabled) and whichever errors were logged meanwhile, every    *)
(* field of PortReady is in place and the read-only fields are protected   *)
(* again.  Of the fast-link scaling factor this is the upper bit only.     *)
(***************************************************************************)
THEOREM PortReadyAtReturn == Spec => []ReadyAtReturn
<1>1. RootPortInv => ReadyAtReturn
  <2> SUFFICES ASSUME RootPortInv, Finished
               PROVE  PortReady(regs, pci) /\ PCIE_DBI_RO_WR_EN \notin regs[PCIE_MISC_CONTROL_1_OFF]
    BY DEF ReadyAtReturn
  <2>1. ip = 42
    BY ProgramLength DEF RootPortInv, TypeOK, Finished, Running
  <2>2. QED
    BY <2>1, ReadyPastClass DEF RootPortInv, UnlockedInv
<1>2. QED
  BY <1>1, RootPortInvHolds, PTL

(***************************************************************************)
(* Bit 9 of PCIE_GEN3_RELATED_OFF is set for both rates at the end,        *)
(* whichever copy a write reaches.                                         *)
(***************************************************************************)
THEOREM BothRatesAlwaysSet == Spec => []BothRatesSet
<1>1. RootPortInv => BothRatesSet
  <2> SUFFICES ASSUME RootPortInv, Finished
               PROVE  GEN3_BIT \in gen3[0] /\ GEN3_BIT \in gen3[1]
    BY DEF BothRatesSet
  <2>1. ip = 42
    BY ProgramLength DEF RootPortInv, TypeOK, Finished, Running
  <2>2. QED
    BY <2>1 DEF RootPortInv, RatesInv
<1>2. QED
  BY <1>1, RootPortInvHolds, PTL

(***************************************************************************)
(* A speed change is requested only by access 40, of a port that is ready  *)
(* and whose three regions are enabled: a set bit that a read-modify-write *)
(* brings back would be a request too.                                     *)
(***************************************************************************)
THEOREM SpeedChangeOnlyWhenReady == Spec => SpeedChangeWhenReady
<1>1. ASSUME RootPortInv, Next, ~SpeedChange, SpeedChange'
      PROVE  PortReady(regs, pci) /\ \A k \in Regions : atu[k].enable
  <2> USE DEF fixed, hardware, driver
  <2>0. TypeOK /\ [Next]_vars
    BY <1>1 DEF RootPortInv
  <2>1. ip \in 1 .. 42 /\ regs \in [PlainRegs -> AnyWord]
    BY <1>1, ProgramLength DEF RootPortInv, TypeOK
  <2>2. ~(ip' <= 40)
    <3>1. NoSpeedChangeInv'
      BY <1>1, <2>0, NextNoSpeedChangeInv DEF RootPortInv
    <3>2. QED
      BY <1>1, <3>1 DEF NoSpeedChangeInv
  <2>3. CASE ip > 39
    <3>1. PortReady(regs, pci)
      BY <1>1, <2>3, ReadyPastClass DEF RootPortInv
    <3>2. \A k \in Regions : ip > 21 + 8 * k
      BY <2>1, <2>3 DEF Regions
    <3>3. QED
      BY <1>1, <3>1, <3>2 DEF RootPortInv, AtuInv
  <2>4. CASE ~(ip > 39)
    <3>1. ip' = ip \/ ip' = ip + 1
      BY <2>0, NextSteps DEF Fetch, StorePlain, StoreRate, StoreField, Enable, Leave,
         SpeedChangeEnds, LogError, EnableTakesEffect, vars
    <3>2. QED
      BY <2>1, <2>2, <2>4, <3>1
  <2>5. QED
    BY <2>3, <2>4
<1>2. RootPortInv /\ [Next]_vars =>
        [~SpeedChange /\ SpeedChange' => PortReady(regs, pci) /\ \A k \in Regions : atu[k].enable]_vars
  BY <1>1
<1>3. QED
  BY <1>2, RootPortInvHolds, PTL DEF Spec, SpeedChangeWhenReady

(***************************************************************************)
(* The three accesses to PCIE_GEN3_RELATED_OFF.  After a reset the first   *)
(* of them finds rate 0 selected; a repeated set-up finds rate 1.          *)
(***************************************************************************)
FirstRateInv == ip <= 7 => gen3_sel = {}

LEMMA FirstRateHolds == Spec => []FirstRateInv
<1>1. Init => FirstRateInv
  BY DEF Init, FirstRateInv
<1>2. RootPortInv /\ FirstRateInv /\ [Next]_vars => FirstRateInv'
  <2> SUFFICES ASSUME RootPortInv, FirstRateInv, [Next]_vars PROVE FirstRateInv'
    OBVIOUS
  <2> USE DEF fixed, hardware, driver
  <2>0. ip \in 1 .. 42 /\ TypeOK
    BY ProgramLength DEF RootPortInv, TypeOK
  <2>1. CASE UNCHANGED gen3_sel /\ ip' \in {ip, ip + 1}
    BY <2>0, <2>1 DEF FirstRateInv
  <2>2. ASSUME NEW i \in 6 .. 8, StoreRate(i) PROVE FirstRateInv'
    <3>1. RatesInv' /\ ip' \in {7, 8, 9}
      BY <2>0, <2>2, NextRatesInv DEF RootPortInv, StoreRate, Leave
    <3>2. QED
      BY <3>1 DEF RatesInv, FirstRateInv
  <2>3. QED
    BY <2>0, <2>1, <2>2, NextSteps
       DEF Fetch, StorePlain, StoreField, Enable, Leave, SpeedChangeEnds, LogError,
           EnableTakesEffect, vars
<1>3. QED
  BY <1>1, <1>2, RootPortInvHolds, PTL DEF Spec

\* A write to the copy it was read from changes bit 9 of it at most.
LEMMA StoredRate ==
  ASSUME TypeOK, FetchedInv, RatesInv, FirstRateInv,
         NEW i \in 6 .. 8, StoreRate(i), NEW n \in KeptRates
  PROVE  SymDiff(gen3[n], gen3'[n]) \subseteq {GEN3_BIT}
<1>0. gen3 \in [0 .. 3 -> SUBSET (Bits \ {24, 25})] /\ n \in 0 .. 3
  BY ShadowSelect DEF TypeOK, KeptRates
<1>1. ip = i /\ fetched
  BY DEF StoreRate, Leave
<1>2. ProgramIs(pci) /\ PlaceIs(pci, i)
  BY ProgramAt, Places
<1> DEFINE w == WordAt(i)
<1>3. PICK copy \in {Selected(gen3_sel), Selected(w \cap {24, 25})} :
        /\ bankOnWrite = "selected" => copy = Selected(gen3_sel)
        /\ gen3' = [gen3 EXCEPT ![copy] = w \ {24, 25}]
  BY ShadowSelect DEF StoreRate
<1>4. val = gen3_sel \cup gen3[Selected(gen3_sel)] /\ gen3_sel \in {{}, {24}}
  <2>1. val = Value(PCIE_GEN3_RELATED_OFF)
    BY <1>1, <1>2, RegisterNumbers DEF FetchedInv, PlaceIs
  <2>2. QED
    BY <2>1 DEF Value, RatesInv
<1>5. w \ {24, 25} \in {val \ {24, 25}, (val \ {24, 25}) \cup {9}}
      /\ (i = 6 => w \cap {24, 25} = {}) /\ (i # 6 => w \cap {24, 25} = {24})
  <2>1. CASE i = 6
    <3>1. Access(pci, 6) = Rmw(PCIE_GEN3_RELATED_OFF, {24, 25}, {9})
      BY RateAccesses
    <3>2. w = (val \ {24, 25}) \cup {9}
      BY <2>1, <3>1 DEF WordAt, Rmw
    <3>3. QED
      BY <2>1, <3>2
  <2>2. CASE i = 7
    <3>1. Access(pci, 7) = Rmw(PCIE_GEN3_RELATED_OFF, {24, 25}, {24})
      BY RateAccesses
    <3>2. w = (val \ {24, 25}) \cup {24}
      BY <2>2, <3>1 DEF WordAt, Rmw
    <3>3. QED
      BY <2>2, <3>2
  <2>3. CASE i = 8
    <3>1. Access(pci, 8) = Rmw(PCIE_GEN3_RELATED_OFF, {24, 25}, {9, 24})
      BY RateAccesses
    <3>2. w = (val \ {24, 25}) \cup {9, 24}
      BY <2>3, <3>1 DEF WordAt, Rmw
    <3>3. QED
      BY <2>3, <3>2
  <2>4. QED
    BY <2>1, <2>2, <2>3
<1> HIDE DEF w
<1>6. CASE n # copy
  BY <1>0, <1>3, <1>6 DEF SymDiff
<1>7. CASE n = copy
  <2>1. copy = Selected(gen3_sel)
    <3>1. CASE bankOnWrite = "selected"
      BY <1>3, <3>1
    <3>2. CASE bankOnWrite # "selected"
      <4>1. n # 1
        BY <3>2 DEF KeptRates
      <4>2. CASE i = 6
        BY <1>1, <1>3, <1>5, <4>2 DEF FirstRateInv
      <4>3. CASE i # 6
        BY <1>3, <1>5, <1>7, <4>1, <4>3, ShadowSelect
      <4>4. QED
        BY <4>2, <4>3
    <3>3. QED
      BY <3>1, <3>2
  <2>2. copy \in 0 .. 3 /\ gen3'[copy] = w \ {24, 25}
    BY <1>0, <1>3, <1>7
  <2>3. val \ {24, 25} = gen3[copy]
    BY <1>0, <1>4, <1>7, <2>1
  <2>4. QED
    BY <1>5, <1>7, <2>2, <2>3 DEF SymDiff, GEN3_BIT
<1>8. QED
  BY <1>6, <1>7

(***************************************************************************)
(* No step changes a bit of the twelve registers outside the fields the    *)
(* set-up is for: what a read has brought is still what the register       *)
(* holds, up to the speed change the controller may have ended and the     *)
(* errors it may have logged meanwhile.  The copy of rate 1 is left out    *)
(* where a write of PCIE_GEN3_RELATED_OFF reaches the copy it selects.     *)
(***************************************************************************)
THEOREM OtherBitsKept == Spec => KeepsOtherBits
<1> DEFINE Kept(reg) == SymDiff(regs[reg], regs'[reg]) \subseteq Owned(reg)
           RateKept(n) == SymDiff(gen3[n], gen3'[n]) \subseteq {GEN3_BIT}
<1>1. ASSUME RootPortInv, Next, NEW reg \in PlainRegs PROVE Kept(reg)
  <2> USE DEF fixed, hardware, driver
  <2>0. TypeOK /\ [Next]_vars /\ regs \in [PlainRegs -> AnyWord] /\ ip \in 1 .. 42
    BY <1>1, ProgramLength DEF RootPortInv, TypeOK
  <2>a. ASSUME regs'[reg] = regs[reg] PROVE Kept(reg)
    BY <2>a DEF SymDiff
  <2>1. ASSUME NEW i \in PlainPlaces, StorePlain(i) PROVE Kept(reg)
    <3> DEFINE a == Access(pci, i)
    <3>1. /\ regs'[a.reg] = Written(a.reg, WordAt(i))
          /\ \A r \in PlainRegs \ {a.reg} : regs'[r] = regs[r]
      BY <2>0, <2>1, StoreFrame
    <3>2. ip = i /\ (a.op = "rmw" => fetched)
      BY <2>1 DEF StorePlain, Leave
    <3>3. i \in 1 .. 41 /\ PlaceIs(pci, i)
      BY Places DEF PlainPlaces
    <3>4. WordsAre(pci, i)
      BY <2>0, <3>3, SetupIsCall, AccessWords
    <3>5. CASE reg # a.reg
      BY <2>a, <3>1, <3>5
    <3>6. CASE reg = a.reg /\ a.op = "write"
      <4>1. a.reg \in {PCI_BASE_ADDRESS_0, PCI_BASE_ADDRESS_1}
        BY <3>3, <3>6 DEF PlaceIs
      <4>2. Owned(reg) = Bits
        BY <3>6, <4>1, RegisterNumbers DEF Owned
      <4>3. regs[reg] \in AnyWord /\ regs'[reg] \in AnyWord
        <5>1. TypeOK'
          BY <2>0, NextTypeOK
        <5>2. QED
          BY <2>0, <5>1 DEF TypeOK
      <4>4. QED
        BY <4>2, <4>3 DEF SymDiff, AnyWord
    <3>c. CASE reg = a.reg /\ reg = PCI_COMMAND
      <4>1. Owned(reg) = GENMASK(15, 0) \cup PCI_STATUS_ERRORS
        BY <3>c, RegisterNumbers DEF Owned
      <4>2. regs'[reg] = (WordAt(i) \cap GENMASK(15, 0))
              \cup (regs[reg] \ (GENMASK(15, 0) \cup (WordAt(i) \cap PCI_STATUS_ERRORS)))
        BY <3>1, <3>c DEF Written
      <4>3. QED
        BY <4>1, <4>2 DEF SymDiff
    <3>7. CASE reg = a.reg /\ a.op = "rmw" /\ reg # PCI_COMMAND
      <4>1. a.clear \cup a.set \subseteq Owned(reg)
        BY <3>4, <3>7 DEF WordsAre
      <4>2. SymDiff(val, regs[reg]) \subseteq Owned(reg)
        <5>1. FetchedInv /\ fetched
          BY <1>1, <3>2, <3>7 DEF RootPortInv
        <5>2. CASE reg = PCIE_LINK_WIDTH_SPEED_CONTROL
          <6>1. SymDiff(val, regs[reg]) \subseteq {17}
            BY <3>2, <3>7, <5>1, <5>2 DEF FetchedInv, PORT_LOGIC_SPEED_CHANGE
          <6>2. 17 \in Owned(reg)
            BY <5>2, RegisterNumbers DEF Owned
          <6>3. QED
            BY <6>1, <6>2
        <5>3. CASE reg # PCIE_LINK_WIDTH_SPEED_CONTROL
          <6>1. val = Value(reg) /\ reg # PCIE_GEN3_RELATED_OFF
            BY <3>2, <3>7, <5>1, <5>3, RegisterNumbers DEF FetchedInv
          <6>2. val = regs[reg]
            BY <6>1 DEF Value
          <6>3. QED
            BY <6>2 DEF SymDiff
        <5>4. QED
          BY <5>2, <5>3
      <4>3. WordAt(i) = (val \ a.clear) \cup a.set
        BY <3>7 DEF WordAt
      <4>4. SymDiff(regs[reg], WordAt(i)) \subseteq Owned(reg)
        BY <4>1, <4>2, <4>3 DEF SymDiff
      <4>5. regs'[reg] = (WordAt(i) \ Protected(reg)) \cup (regs[reg] \cap Protected(reg))
        BY <1>1, <3>1, <3>7 DEF Written
      <4>6. QED
        BY <4>4, <4>5 DEF SymDiff
    <3>8. a.op = "write" \/ a.op = "rmw"
      BY <3>3 DEF PlaceIs, PlainPlaces
    <3>9. QED
      BY <3>5, <3>6, <3>7, <3>8, <3>c
  <2>2. ASSUME SpeedChangeEnds PROVE Kept(reg)
    <3>1. CASE reg = PCIE_LINK_WIDTH_SPEED_CONTROL
      <4>1. regs'[reg] = regs[reg] \ {17}
        BY <2>0, <2>2, <3>1 DEF SpeedChangeEnds, PORT_LOGIC_SPEED_CHANGE
      <4>2. 17 \in Owned(reg)
        BY <3>1, RegisterNumbers DEF Owned
      <4>3. QED
        BY <4>1, <4>2 DEF SymDiff
    <3>2. CASE reg # PCIE_LINK_WIDTH_SPEED_CONTROL
      BY <2>0, <2>2, <2>a, <3>2 DEF SpeedChangeEnds
    <3>3. QED
      BY <3>1, <3>2
  <2>3. ASSUME NEW b \in ErrorBits, LogError(b) PROVE Kept(reg)
    <3>1. CASE reg = PCI_COMMAND
      <4>1. regs'[reg] = regs[reg] \cup {b}
        BY <2>0, <2>3, <3>1 DEF LogError
      <4>2. b \in Owned(reg)
        BY <3>1, RegisterNumbers, RootPortAssumption DEF Owned
      <4>3. QED
        BY <4>1, <4>2 DEF SymDiff
    <3>2. CASE reg # PCI_COMMAND
      BY <2>0, <2>3, <2>a, <3>2 DEF LogError
    <3>3. QED
      BY <3>1, <3>2
  <2>4. CASE regs' = regs
    BY <2>a, <2>4
  <2>5. QED
    BY <2>0, <2>1, <2>2, <2>3, <2>4, NextSteps
       DEF Fetch, StoreRate, StoreField, Enable, EnableTakesEffect, vars
<1>2. ASSUME RootPortInv, FirstRateInv, Next, NEW n \in KeptRates PROVE RateKept(n)
  <2>0. /\ TypeOK /\ [Next]_vars /\ n \in 0 .. 3
        /\ gen3 \in [0 .. 3 -> SUBSET (Bits \ RATE_SHADOW_SEL_MASK)]
    BY <1>2 DEF RootPortInv, TypeOK, KeptRates
  <2>1. CASE gen3' = gen3
    BY <2>1 DEF SymDiff
  <2>2. ASSUME NEW i \in 6 .. 8, StoreRate(i) PROVE RateKept(n)
    BY <1>2, <2>0, <2>2, StoredRate DEF RootPortInv
  <2>3. QED
    BY <2>0, <2>1, <2>2, NextSteps
       DEF Fetch, StorePlain, StoreField, Enable, SpeedChangeEnds, LogError,
           EnableTakesEffect, vars, hardware
<1>3. RootPortInv /\ FirstRateInv /\ [Next]_vars =>
        [/\ \A reg \in PlainRegs : SymDiff(regs[reg], regs'[reg]) \subseteq Owned(reg)
         /\ \A n \in KeptRates : SymDiff(gen3[n], gen3'[n]) \subseteq {GEN3_BIT}]_vars
  BY <1>1, <1>2
<1>4. QED
  BY <1>3, RootPortInvHolds, FirstRateHolds, PTL DEF Spec, KeepsOtherBits

(***************************************************************************)
(* The write of PCI_COMMAND clears only errors that its read has seen, for *)
(* any set of errors and wherever they are logged between the two.         *)
(***************************************************************************)
THEOREM LateErrorsAlwaysSurvive == Spec => LateErrorsSurvive
<1>1. ASSUME RootPortInv, Next, NEW b \in ErrorBits,
             b \in regs[PCI_COMMAND], b \notin regs'[PCI_COMMAND]
      PROVE  fetched /\ b \in val
  <2> USE DEF fixed, hardware, driver
  <2>0. TypeOK /\ [Next]_vars /\ regs \in [PlainRegs -> AnyWord] /\ ip \in 1 .. 42
    BY <1>1, ProgramLength DEF RootPortInv, TypeOK
  <2>1. ASSUME NEW i \in PlainPlaces, StorePlain(i) PROVE fetched /\ b \in val
    <3> DEFINE r == Access(pci, i).reg
    <3>1. /\ regs'[r] = Written(r, WordAt(i))
          /\ \A reg \in PlainRegs \ {r} : regs'[reg] = regs[reg]
      BY <2>0, <2>1, StoreFrame
    <3>2. r = PCI_COMMAND
      BY <1>1, <3>1 DEF PlainRegs
    <3>3. i = 13
      <4>1. PlaceIs(pci, i)
        BY Places DEF PlainPlaces
      <4>2. QED
        BY <3>2, <4>1 DEF PlaceIs, PlainPlaces
    <3>4. Access(pci, 13) = Rmw(PCI_COMMAND, GENMASK(15, 0), {0, 1, 2, 8})
      BY ProgramAt DEF ProgramIs, set_command
    <3>5. /\ WordAt(i) = (val \ GENMASK(15, 0)) \cup {0, 1, 2, 8}
          /\ fetched
      BY <2>1, <3>3, <3>4 DEF Rmw, WordAt, StorePlain
    <3>6. b \notin GENMASK(15, 0) /\ b \notin {0, 1, 2, 8}
      BY RootPortAssumption DEF PCI_STATUS_ERRORS, GENMASK
    <3>7. b \in WordAt(i)
      BY <1>1, <3>1, <3>2, <3>6 DEF Written
    <3>8. QED
      BY <3>5, <3>6, <3>7
  <2>2. ASSUME SpeedChangeEnds PROVE FALSE
    BY <1>1, <2>0, <2>2, RegisterNumbers DEF SpeedChangeEnds
  <2>3. ASSUME NEW e \in ErrorBits, LogError(e) PROVE FALSE
    BY <1>1, <2>0, <2>3, RegisterNumbers DEF LogError
  <2>4. CASE regs' = regs
    BY <1>1, <2>4
  <2>5. QED
    BY <2>0, <2>1, <2>2, <2>3, <2>4, NextSteps
       DEF Fetch, StoreRate, StoreField, Enable, EnableTakesEffect, vars
<1>2. RootPortInv /\ [Next]_vars =>
        [\A b \in ErrorBits :
           b \in regs[PCI_COMMAND] \ regs'[PCI_COMMAND] => fetched /\ b \in val]_vars
  BY <1>1
<1>3. QED
  BY <1>2, RootPortInvHolds, PTL DEF Spec, LateErrorsSurvive
=============================================================================
