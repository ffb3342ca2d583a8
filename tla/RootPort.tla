------------------------------ MODULE RootPort ------------------------------
(***************************************************************************)
(* dw_pcie_setup_rc() of src/pcie_designware.c, one access to a register   *)
(* of the controller at a time.                                            *)
(*                                                                         *)
(* The function is straight-line: a list of accesses.  Most of them are a  *)
(* read of a register followed by a write of the value with some bits      *)
(* changed; the controller goes on working between the two.  It logs       *)
(* errors, which a write of one clears; it protects its read-only fields   *)
(* unless PCIE_DBI_RO_WR_EN is set; it keeps a copy of                     *)
(* PCIE_GEN3_RELATED_OFF per data rate; it takes some time to put a region *)
(* of the translation unit in use; and it ends a speed change itself.      *)
(***************************************************************************)
EXTENDS Words, Iatu, SequencesExt

CONSTANTS
  Setups,           \* the controllers to set up: [port, lane_num, order]
  ResetStates,      \* contents of the registers before the set-up
  ErrorBits         \* the bits of PCI_STATUS, as bits of PCI_COMMAND's
                    \*   word, in which errors may be logged meanwhile

PCI_COMMAND                     == 4
PCI_CLASS_REVISION              == 8
PCI_BASE_ADDRESS_0              == 16
PCI_BASE_ADDRESS_1              == 20
PCI_PRIMARY_BUS                 == 24
PCI_INTERRUPT_LINE              == 60
PCIE_PORT_FORCE_OFF             == 1800     \* 0x708
PCIE_PORT_LINK_CONTROL          == 1808     \* 0x710
PCIE_TIMER_CTRL_MAX_FUN_NUM_OFF == 1816     \* 0x718
PCIE_LINK_WIDTH_SPEED_CONTROL   == 2060     \* 0x80C
PCIE_GEN3_RELATED_OFF           == 2192     \* 0x890
PCIE_MISC_CONTROL_1_OFF         == 2236     \* 0x8BC

PlainRegs == {PCI_COMMAND, PCI_CLASS_REVISION, PCI_BASE_ADDRESS_0, PCI_BASE_ADDRESS_1,
              PCI_PRIMARY_BUS, PCI_INTERRUPT_LINE, PCIE_PORT_FORCE_OFF,
              PCIE_PORT_LINK_CONTROL, PCIE_TIMER_CTRL_MAX_FUN_NUM_OFF,
              PCIE_LINK_WIDTH_SPEED_CONTROL, PCIE_MISC_CONTROL_1_OFF}

PORT_LINK_NUM_MASK_Wide    == GENMASK(8, 0)
PORT_LINK_NUM_MASK         == GENMASK(7, 0)
PORT_LINK_MODE_MASK        == GENMASK(21, 16)
PORT_LOGIC_LINK_WIDTH_MASK == GENMASK(12, 8)
RATE_SHADOW_SEL_MASK       == GENMASK(25, 24)
PORT_LOGIC_SPEED_CHANGE    == 17
PCIE_DBI_RO_WR_EN          == 0
PCI_STATUS_ERRORS          == {24} \cup GENMASK(31, 27)
GEN3_BIT                   == 9             \* the 0x200 of dw_pcie_setup

ASSUME RootPortAssumption ==
  /\ Setups \subseteq [port : 0 .. 3, lane_num : {4, 8, 16}, order : 0 .. 3]
  /\ ResetStates \subseteq [plain : [PlainRegs -> AnyWord], gen3 : [0 .. 3 -> AnyWord]]
  /\ ErrorBits \subseteq PCI_STATUS_ERRORS

-----------------------------------------------------------------------------
(***************************************************************************)
(* The accesses of dw_pcie_setup_rc.                                       *)
(***************************************************************************)
Rmw(reg, clear, set) == [op |-> "rmw", reg |-> reg, clear |-> clear, set |-> set]
Write(reg, w)        == [op |-> "write", reg |-> reg, value |-> w]
WriteAtu(k, field, v) == [op |-> "atu", region |-> k, field |-> field, value |-> v]

\* dw_pcie_write_dbi with size 2: the aligned word, the half shifted in.
WriteHalf(reg, n) ==
  LET shift == IF reg % 4 >= 2 THEN 16 ELSE 0      \* 8 * (reg & 2)
  IN  Rmw(reg - (reg % 4), GENMASK(shift + 15, shift), ShiftLeft(BitsOf(n), shift))

dw_pcie_dbi_ro_wr_en  == <<Rmw(PCIE_MISC_CONTROL_1_OFF, {}, {PCIE_DBI_RO_WR_EN})>>
dw_pcie_dbi_ro_wr_dis_Sets == <<Rmw(PCIE_MISC_CONTROL_1_OFF, {}, {PCIE_DBI_RO_WR_EN})>>
dw_pcie_dbi_ro_wr_dis == <<Rmw(PCIE_MISC_CONTROL_1_OFF, {PCIE_DBI_RO_WR_EN}, {})>>

PORT_LINK_MODE(lanes) ==
  FIELD_PREP(PORT_LINK_MODE_MASK,
             CASE lanes = 4 -> 7 [] lanes = 8 -> 15 [] lanes = 16 -> 31 [] OTHER -> 0)

PORT_LOGIC_LINK_WIDTH_AndChange(lanes) ==
  FIELD_PREP(PORT_LOGIC_LINK_WIDTH_MASK, lanes) \cup {PORT_LOGIC_SPEED_CHANGE}

PORT_LOGIC_LINK_WIDTH(lanes) ==
  FIELD_PREP(PORT_LOGIC_LINK_WIDTH_MASK, IF lanes \in {4, 8, 16} THEN lanes ELSE 0)

RATE_SHADOW_SEL(n) == FIELD_PREP(RATE_SHADOW_SEL_MASK, n)

\* Bit 9 for rate 0, then for rate 1, whose copy is first selected.
gen3_relatedOneRate == <<
  Rmw(PCIE_GEN3_RELATED_OFF, RATE_SHADOW_SEL_MASK, {GEN3_BIT} \cup RATE_SHADOW_SEL(0)),
  Rmw(PCIE_GEN3_RELATED_OFF, RATE_SHADOW_SEL_MASK, RATE_SHADOW_SEL(1)) >>

gen3_related == <<
  Rmw(PCIE_GEN3_RELATED_OFF, RATE_SHADOW_SEL_MASK, {GEN3_BIT} \cup RATE_SHADOW_SEL(0)),
  Rmw(PCIE_GEN3_RELATED_OFF, RATE_SHADOW_SEL_MASK, RATE_SHADOW_SEL(1)),
  Rmw(PCIE_GEN3_RELATED_OFF, RATE_SHADOW_SEL_MASK, {GEN3_BIT} \cup RATE_SHADOW_SEL(1)) >>

link_number_TwoSteps(order) ==
  << Rmw(PCIE_PORT_FORCE_OFF, PORT_LINK_NUM_MASK, {}),
     Rmw(PCIE_PORT_FORCE_OFF, {}, FIELD_PREP(PORT_LINK_NUM_MASK, order)) >>

link_number(order) ==
  << Rmw(PCIE_PORT_FORCE_OFF, PORT_LINK_NUM_MASK, FIELD_PREP(PORT_LINK_NUM_MASK, order)) >>

dw_pcie_setup(lanes, order) ==
  << Rmw(PCIE_TIMER_CTRL_MAX_FUN_NUM_OFF, {}, {30}),
     Rmw(PCIE_PORT_LINK_CONTROL, PORT_LINK_MODE_MASK, PORT_LINK_MODE(lanes) \cup {7}),
     Rmw(PCIE_LINK_WIDTH_SPEED_CONTROL, PORT_LOGIC_LINK_WIDTH_MASK,
         PORT_LOGIC_LINK_WIDTH(lanes)) >>
  \o link_number(order) \o gen3_related

AtuFields == <<"lwr_base", "upper_base", "lwr_limit", "upper_limit",
               "lwr_target", "upper_target", "type">>

dw_pcie_prog_outbound_atu_EnableFirst(k, window) ==
  <<WriteAtu(k, "enable", TRUE)>>
  \o [n \in 1 .. 7 |-> WriteAtu(k, AtuFields[n], Registers(window)[AtuFields[n]])]

dw_pcie_prog_outbound_atu_NoEnable(k, window) ==
  [n \in 1 .. 7 |-> WriteAtu(k, AtuFields[n], Registers(window)[AtuFields[n]])]

dw_pcie_prog_outbound_atu_ZeroesFirst(k, window) ==
  [n \in 1 .. 7 |-> WriteAtu(k, AtuFields[n], 0)]
  \o [n \in 1 .. 7 |-> WriteAtu(k, AtuFields[n], Registers(window)[AtuFields[n]])]
  \o <<WriteAtu(k, "enable", TRUE)>>

\* Seven fields of the window in this order, and then PCIE_ATU_ENABLE.
dw_pcie_prog_outbound_atu(k, window) ==
  [n \in 1 .. 7 |-> WriteAtu(k, AtuFields[n], Registers(window)[AtuFields[n]])]
  \o <<WriteAtu(k, "enable", TRUE)>>

set_command_ClearErrors ==
  Rmw(PCI_COMMAND, GENMASK(15, 0), {0, 1, 2, 8} \cup PCI_STATUS_ERRORS)
set_command == Rmw(PCI_COMMAND, GENMASK(15, 0), {0, 1, 2, 8})

dw_pcie_setup_rc(c) ==
  dw_pcie_dbi_ro_wr_en
  \o dw_pcie_setup(c.lane_num, c.order)
  \o << Write(PCI_BASE_ADDRESS_0, {2}),
        Write(PCI_BASE_ADDRESS_1, {}),
        Rmw(PCI_INTERRUPT_LINE, GENMASK(15, 8), {8}),
        Rmw(PCI_PRIMARY_BUS, GENMASK(23, 0), {8} \cup GENMASK(23, 16)),
        set_command >>
  \o dw_pcie_prog_outbound_atu(0, Window(c.port, 0))
  \o dw_pcie_prog_outbound_atu(1, Window(c.port, 1))
  \o dw_pcie_prog_outbound_atu(2, Window(c.port, 2))
  \o << Write(PCI_BASE_ADDRESS_0, {}),
        WriteHalf(10, 1540),                        \* PCI_CLASS_DEVICE, 0x0604
        Rmw(PCIE_LINK_WIDTH_SPEED_CONTROL, {}, {PORT_LOGIC_SPEED_CHANGE}) >>
  \o dw_pcie_dbi_ro_wr_dis

-----------------------------------------------------------------------------
VARIABLES
  pci,              \* the controller: its port, lane_num and order; fixed
  bankOnWrite,      \* which copy of GEN3_RELATED a write reaches; fixed
  ip,               \* the next access
  fetched,          \* the read of a read-modify-write is done
  val,              \* the local variable val
  regs,             \* the registers of the controller
  gen3_sel,         \* RATE_SHADOW_SEL in PCIE_GEN3_RELATED_OFF,
  gen3,             \*   and the rest of that register, a copy per rate
  atu,              \* the registers of the outbound regions
  inUse             \* the regions whose enable has taken effect

driver == <<ip, fetched, val>>
hardware == <<regs, gen3_sel, gen3, atu, inUse>>
fixed == <<pci, bankOnWrite>>
vars == <<fixed, driver, hardware>>

Program == dw_pcie_setup_rc(pci)

AtuTypes == {PCIE_ATU_TYPE_MEM, PCIE_ATU_TYPE_CFG0, PCIE_ATU_TYPE_CFG1}
AtuRegs == [lwr_base : 0 .. Half - 1, upper_base : 0 .. Half - 1,
            lwr_limit : 0 .. Half - 1, upper_limit : 0 .. Half - 1,
            lwr_target : 0 .. Half - 1, upper_target : 0 .. Half - 1,
            type : AtuTypes, enable : BOOLEAN]

TypeOK ==
  /\ pci \in Setups
  /\ bankOnWrite \in {"selected", "written"}
  /\ ip \in 1 .. Len(Program) + 1
  /\ fetched \in BOOLEAN
  /\ val \in AnyWord
  /\ regs \in [PlainRegs -> AnyWord]
  /\ gen3_sel \in SUBSET RATE_SHADOW_SEL_MASK
  /\ gen3 \in [0 .. 3 -> SUBSET (Bits \ RATE_SHADOW_SEL_MASK)]
  /\ atu \in [Regions -> AtuRegs]
  /\ inUse \in SUBSET Regions

(***************************************************************************)
(* After reset no speed change is pending, no error is logged, rate 0 is   *)
(* selected and no region is programmed or enabled; the other bits of the  *)
(* registers are those of ResetStates.                                     *)
(***************************************************************************)
ClearedAtReset(reg) ==
  CASE reg = PCIE_LINK_WIDTH_SPEED_CONTROL -> {PORT_LOGIC_SPEED_CHANGE}
    [] reg = PCI_COMMAND                   -> PCI_STATUS_ERRORS
    [] OTHER                               -> {}

Init ==
  /\ pci \in Setups
  /\ bankOnWrite \in {"selected", "written"}
  /\ ip = 1
  /\ fetched = FALSE
  /\ val = {}
  /\ \E reset \in ResetStates :
       /\ regs = [reg \in PlainRegs |-> reset.plain[reg] \ ClearedAtReset(reg)]
       /\ gen3 = [n \in 0 .. 3 |-> reset.gen3[n] \ RATE_SHADOW_SEL_MASK]
  /\ gen3_sel = {}
  /\ atu = [k \in Regions |-> [f \in {AtuFields[n] : n \in 1 .. 7} \cup {"enable"} |->
             IF f = "enable" THEN FALSE ELSE 0]]
  /\ inUse = {}

-----------------------------------------------------------------------------
(***************************************************************************)
(* What a read returns and what a write leaves in a register.              *)
(***************************************************************************)
ReadOnly(reg) ==
  CASE reg = PCI_CLASS_REVISION -> GENMASK(31, 0)
    [] reg = PCI_BASE_ADDRESS_0 -> GENMASK(3, 0)
    [] reg = PCI_INTERRUPT_LINE -> GENMASK(15, 8)
    [] OTHER                    -> {}

Protected(reg) ==
  IF PCIE_DBI_RO_WR_EN \in regs[PCIE_MISC_CONTROL_1_OFF] THEN {} ELSE ReadOnly(reg)

Written(reg, w) ==
  IF reg = PCI_COMMAND
  THEN \* the command is written, errors written as one are cleared
       (w \cap GENMASK(15, 0)) \cup (regs[reg] \ (GENMASK(15, 0) \cup (w \cap PCI_STATUS_ERRORS)))
  ELSE (w \ Protected(reg)) \cup (regs[reg] \cap Protected(reg))

Selected(sel) == CHOOSE n \in 0 .. 3 : RATE_SHADOW_SEL(n) = sel

Value(reg) ==
  IF reg = PCIE_GEN3_RELATED_OFF THEN gen3_sel \cup gen3[Selected(gen3_sel)]
  ELSE regs[reg]

Store(reg, w) ==
  IF reg = PCIE_GEN3_RELATED_OFF
  THEN LET sel == w \cap RATE_SHADOW_SEL_MASK
           copy == Selected(IF bankOnWrite = "selected" THEN gen3_sel ELSE sel)
       IN  /\ gen3' = [gen3 EXCEPT ![copy] = w \ RATE_SHADOW_SEL_MASK]
           /\ gen3_sel' = sel
           /\ UNCHANGED regs
  ELSE /\ regs' = [regs EXCEPT ![reg] = Written(reg, w)]
       /\ UNCHANGED <<gen3, gen3_sel>>

-----------------------------------------------------------------------------
(***************************************************************************)
(* The driver.                                                             *)
(***************************************************************************)
Running == ip <= Len(Program)
Finished == ~Running

Advance == ip' = ip + 1 /\ fetched' = FALSE

ReadRegister(a) ==
  /\ a.op = "rmw" /\ ~fetched
  /\ val' = Value(a.reg)
  /\ fetched' = TRUE
  /\ UNCHANGED <<fixed, ip, hardware>>

WriteBack(a) ==
  /\ a.op = "rmw" /\ fetched
  /\ Store(a.reg, (val \ a.clear) \cup a.set)
  /\ Advance
  /\ UNCHANGED <<fixed, val, atu, inUse>>

WriteRegister(a) ==
  /\ a.op = "write"
  /\ Store(a.reg, a.value)
  /\ Advance
  /\ UNCHANGED <<fixed, val, atu, inUse>>

WriteAtuRegister(a) ==
  /\ a.op = "atu"
  /\ atu' = [atu EXCEPT ![a.region][a.field] = a.value]
  /\ Advance
  /\ UNCHANGED <<fixed, val, regs, gen3, gen3_sel, inUse>>

(***************************************************************************)
(* The controller.                                                         *)
(***************************************************************************)
Requested(r) == PORT_LOGIC_SPEED_CHANGE \in r[PCIE_LINK_WIDTH_SPEED_CONTROL]
SpeedChange == Requested(regs)

SpeedChangeEnds ==
  /\ SpeedChange
  /\ regs' = [regs EXCEPT ![PCIE_LINK_WIDTH_SPEED_CONTROL] = @ \ {PORT_LOGIC_SPEED_CHANGE}]
  /\ UNCHANGED <<fixed, driver, gen3, gen3_sel, atu, inUse>>

LogError(b) ==
  /\ b \notin regs[PCI_COMMAND]
  /\ regs' = [regs EXCEPT ![PCI_COMMAND] = @ \cup {b}]
  /\ UNCHANGED <<fixed, driver, gen3, gen3_sel, atu, inUse>>

EnableTakesEffect(k) ==
  /\ atu[k].enable
  /\ k \notin inUse
  /\ inUse' = inUse \cup {k}
  /\ UNCHANGED <<fixed, driver, regs, gen3, gen3_sel, atu>>

Driver ==
  /\ Running
  /\ LET a == Program[ip]
     IN  ReadRegister(a) \/ WriteBack(a) \/ WriteRegister(a) \/ WriteAtuRegister(a)

Controller ==
  \/ SpeedChangeEnds
  \/ \E b \in ErrorBits : LogError(b)
  \/ \E k \in Regions : EnableTakesEffect(k)

Next == Driver \/ Controller

(***************************************************************************)
(* The processor runs the function to its end and an enabled region comes  *)
(* into use after a while.                                                 *)
(***************************************************************************)
Fairness == WF_vars(Driver) /\ \A k \in Regions : WF_vars(EnableTakesEffect(k))

Spec == Init /\ [][Next]_vars /\ Fairness

-----------------------------------------------------------------------------
(***************************************************************************)
(* Properties.                                                             *)
(***************************************************************************)
\* The registers r of a controller hold n in the bits h .. l of reg.
HasField(r, reg, h, l, n) == r[reg] \cap GENMASK(h, l) = ShiftLeft(BitsOf(n), l)

\* What the link partner sees when c is set up: the width in both registers
\* that hold it (one has the lanes, the other the mask 2 * lanes - 1), the link
\* number and the class of a bridge.
LinkInPlace(r, c) ==
  /\ HasField(r, PCIE_PORT_LINK_CONTROL, 21, 16, 2 * c.lane_num - 1)
  /\ HasField(r, PCIE_LINK_WIDTH_SPEED_CONTROL, 12, 8, c.lane_num)
  /\ HasField(r, PCIE_PORT_FORCE_OFF, 7, 0, c.order)
  /\ HasField(r, PCI_CLASS_REVISION, 31, 16, 6 * 256 + 4)

\* And what an enumerator relies on: bus numbers 0, 1 and 255, the pin, the
\* command and the sizeless BARs.  Of the scaling factor only the upper bit: the
\* or of dw_pcie_setup leaves the lower one as it was, and KeepsOtherBits has it
\* among the bits that stay: the factor is 2 as wanted only if it was clear before.
PortReady(r, c) ==
  /\ LinkInPlace(r, c)
  /\ 30 \in r[PCIE_TIMER_CTRL_MAX_FUN_NUM_OFF]
  /\ HasField(r, PCI_PRIMARY_BUS, 7, 0, 0)
  /\ HasField(r, PCI_PRIMARY_BUS, 15, 8, 1)
  /\ HasField(r, PCI_PRIMARY_BUS, 23, 16, 255)
  /\ HasField(r, PCI_INTERRUPT_LINE, 15, 8, 1)
  /\ HasField(r, PCI_COMMAND, 15, 0, 1 + 2 + 4 + 256)
  /\ r[PCI_BASE_ADDRESS_0] = {} /\ r[PCI_BASE_ADDRESS_1] = {}

(***************************************************************************)
(* When dw_pcie_setup_rc returns the port is ready, and the window in      *)
(* which read-only fields can be written is closed again.                  *)
(***************************************************************************)
ReadyAtReturn ==
  Finished => PortReady(regs, pci) /\ PCIE_DBI_RO_WR_EN \notin regs[PCIE_MISC_CONTROL_1_OFF]

(***************************************************************************)
(* The speed change is requested only of a port that is ready and whose    *)
(* three windows have been programmed.                                     *)
(***************************************************************************)
SpeedChangeWhenReady ==
  [][~SpeedChange /\ SpeedChange' =>
       PortReady(regs, pci) /\ \A k \in Regions : atu[k].enable]_vars

(***************************************************************************)
(* The bits of a register that the set-up or the controller is meant to    *)
(* change.  Of the errors of PCI_COMMAND's word LateErrorsSurvive says     *)
(* which may go.                                                           *)
(***************************************************************************)
Owned(reg) ==
  CASE reg = PCI_COMMAND                     -> GENMASK(15, 0) \cup PCI_STATUS_ERRORS
    [] reg = PCI_CLASS_REVISION              -> GENMASK(31, 16)
    [] reg = PCI_PRIMARY_BUS                 -> GENMASK(23, 0)
    [] reg = PCI_INTERRUPT_LINE              -> GENMASK(15, 8)
    [] reg = PCIE_PORT_FORCE_OFF             -> GENMASK(7, 0)
    [] reg = PCIE_PORT_LINK_CONTROL          -> GENMASK(21, 16) \cup {7}
    [] reg = PCIE_TIMER_CTRL_MAX_FUN_NUM_OFF -> {30}
    [] reg = PCIE_LINK_WIDTH_SPEED_CONTROL   -> GENMASK(12, 8) \cup {17}
    [] reg = PCIE_MISC_CONTROL_1_OFF         -> {0}
    [] OTHER                                 -> Bits

\* The copies of PCIE_GEN3_RELATED_OFF that keep all bits but GEN3_BIT.  Where a
\* write reaches the copy it selects, the second of the three accesses carries
\* what it has read of rate 0 into the copy of rate 1, which loses its own bits.
KeptRates == IF bankOnWrite = "selected" THEN 0 .. 3 ELSE {0, 2, 3}

(***************************************************************************)
(* Every bit outside the fields the set-up is for survives it, in all      *)
(* twelve registers: no write-back brings back a bit that has changed      *)
(* since its read, or belongs to another copy.  The one exception is the   *)
(* copy of rate 1 under the rule that KeptRates names.                     *)
(***************************************************************************)
KeepsOtherBits ==
  [][/\ \A reg \in PlainRegs : SymDiff(regs[reg], regs'[reg]) \subseteq Owned(reg)
     /\ \A n \in KeptRates : SymDiff(gen3[n], gen3'[n]) \subseteq {GEN3_BIT}]_vars

(***************************************************************************)
(* The write-back of PCI_COMMAND also writes PCI_STATUS, whose errors are  *)
(* cleared by a one.  The errors that its read has seen go with it; one    *)
(* that is logged after the read stays.                                    *)
(***************************************************************************)
LateErrorsSurvive ==
  [][\A b \in ErrorBits :
       b \in regs[PCI_COMMAND] \ regs'[PCI_COMMAND] => fetched /\ b \in val]_vars

(***************************************************************************)
(* The three writes of PCIE_GEN3_RELATED_OFF set its bit 9 in the copies   *)
(* of both rates, whether a write reaches the copy selected before it or   *)
(* the copy it selects.                                                    *)
(***************************************************************************)
BothRatesSet == Finished => GEN3_BIT \in gen3[0] /\ GEN3_BIT \in gen3[1]

\* The regions ks of a hold the windows of the controller, but for the enable.
Complete(a, ks, port) ==
  \A k \in ks : \A n \in 1 .. 7 :
    a[k][AtuFields[n]] = Registers(Window(port, k))[AtuFields[n]]

(***************************************************************************)
(* A region that is in use translates by its complete window: the enable   *)
(* is the last of the eight writes of dw_pcie_prog_outbound_atu.           *)
(***************************************************************************)
InUseIsComplete == Complete(atu, inUse, pci.port)

\* With the regions ks of a in use, the aperture means what the address map says.
Translates(a, ks, port) ==
  \A x \in Aperture(port) : Translation(a, ks, x) = Meaning(port, x)

(***************************************************************************)
(* Once all regions are in use, an address of the aperture means what the  *)
(* address map says: the memory window contains the two configuration      *)
(* windows, which win because their indexes are lower.                     *)
(***************************************************************************)
ApertureTranslated == inUse = Regions => Translates(atu, inUse, pci.port)

(***************************************************************************)
(* The set-up ends and leaves an aperture that stays translated.           *)
(***************************************************************************)
EventuallyTranslates ==
  <>[](Finished /\ Translates(atu, inUse, pci.port))

(***************************************************************************)
(* "Make sure ATU enable takes effect before any subsequent config and I/O *)
(* accesses": when dw_pcie_setup_rc has returned, an access to the         *)
(* configuration windows is translated as one.                             *)
(***************************************************************************)
EnabledBeforeAccess ==
  Finished => \A a \in cfg_bar1(pci.port) .. mem_base(pci.port + 1) - 1 :
                Translation(atu, inUse, a) = Meaning(pci.port, a)
=============================================================================
