# Verification of the Duowen PCIe bring-up

The program in `src/` brings up a PCIe subsystem: four DesignWare root-port
controllers (X16, X8, X4_0, X4_1) that share one 16-lane PHY. It runs once,
without interrupts or threads, and consists almost entirely of register
accesses. What makes it hard is not its own control flow but what runs beside
it: a counter that its delays read, and controllers that log errors, end speed
changes, keep banked registers and put address windows in use while the program
is between two accesses. A restarted processor runs it again over controllers that
kept their registers, since the program never resets them.

This directory holds TLA+ modules translated from the source, TLC runs over
small instances, and TLAPS proofs for every value of the constants.

## Inventory

| part | state | operations | hard behaviour |
|---|---|---|---|
| busy wait (`udelay`, `pcie_duowen.c:75-96`) | `current`, `next` | read the counter, compare | 32-bit deadline wraps; reads can miss the end of the loop |
| link modes (`pcie_duowen.c:119-294`) | lanes, active flag, order per controller | two switches, with and without `DPU` | fall-through that is meant in one switch and not in the other |
| platform bring-up (`pcie_duowen.c:103-341`) | structure `pcie_subsystem`, loop pointer | resets, delays, tables, loop, start | order of accesses; state left by an earlier boot; holes in the active set |
| root-port set-up (`pcie_designware.c:539-684`) | controller registers | about 40 register accesses | read-modify-write against a working device, banked and protected registers |
| address translation (`pcie_designware.c:283-319`, `pcie_duowen.h:80-100`) | three outbound regions | eight writes each | overlapping windows, inclusive limits, addresses in halves, late enable |
| DBI accessors (`pcie_designware.c:23-224`) | none | access by type and size | narrow register arguments, unaligned offsets, unsupported types |
| register buses (`pcie_duowen.c:52-72`) | none | one word read or written | outside the program |
| entry points (`main.c`, `pcie_designware.c:687-719`) | none | forward calls | none |
| linked lists, hash lists (`list.h`) | pointers | the Linux list operations | pointers read after they were changed, stale nodes, addresses of pointers, loops whose body removes entries |
| register maps, types (`pci_regs.h`, `errno*.h`, `types.h`, `cfg.h`) | constants | - | none |

How they interact: `main` calls `pci_platform_init`, which calls `reset_init`
and `subsys_link_init_pre` (both wait with `udelay`), then `dw_pcie_setup_rc`
for the controllers its loop reaches, then `subsys_link_init_post`. They share
`controllers[]`: the link-mode switch fills in `lane_num`, `active` and `order`,
the loop reads `active`, and `dw_pcie_setup` reads the other two. There are no
callbacks that are ever installed, and no messages.

What makes each part correct: the wait lasts as long as asked and ends; the
tables divide the lanes and agree with the second switch; the bring-up sets up
every controller it starts, after the resets and before the start; the
set-up leaves a port that is ready, before it asks for a speed change, and
disturbs nothing it does not own; the windows give every address of the
aperture its meaning; and all of this also when the program runs again over what an
interrupted run has left, without changing the link registers of controllers whose
training has been started.

## Modules

| module | models | by |
|---|---|---|
| `Udelay` | `udelay` | one action per read of the counter, `Tick` for the counter |
| `LinkMode` | the tables of `subsys_link_init_pre`, the cases of `subsys_link_init_post` | operators over a build `[dpu, mode]` |
| `Platform` | `pci_platform_init` and all it calls in `pcie_duowen.c` | one action per register write, loop turn or case; `INSTANCE Udelay` for its two delays |
| `BringUp` | what the bring-up promises | abstract specification: `Configure`, `Train` |
| `Words`, `Iatu` | bit operations; address map, windows and the translation they amount to | operators |
| `RootPort` | `dw_pcie_setup_rc` and all it calls | a list of accesses, executed by `ReadRegister`, `WriteBack`, `WriteRegister`, `WriteAtuRegister`; the controller's actions beside them |
| `DbiAccess` | the accessors by type, region, index, offset and size | operators for addresses and merging; one action for a read, one for the write of a word, two for the write of part of one, two for refused regions |
| `ByteSpace` | what the accessors promise | abstract specification: runs of bytes read and written |
| `ListHead` | the `list_head` part of `list.h` | one operator per function, from memory to memory; the actions of a caller and of a safe loop |
| `HashList` | the `hlist` part of `list.h` | as `ListHead` |
| `ListSeqs` | what both kinds of lists promise | abstract specification: a sequence per head, one action per function under its name, and what a loop has yet to visit |
| `Subsystem` | the whole program and restarts | `Platform` and `RootPort` side by side, `Restart` |
| `MCPlatform`, `MCRootPort`, `MCSubsystem`, `MCDbiAccess`, `MCLists` | - | values for TLC; `MCLists` runs both kinds of lists |
| `UdelayProofs`, `PlatformProofs` | - | theorems about the wait; about order, delays and the loop of the bring-up |
| `BringUpProofs` | - | theorems about lanes, started controllers and the refinement of `BringUp` |
| `WordsProofs`, `IatuProofs` | - | lemmas about bit operations; the theorem about windows and translation |
| `RootPortProgram` | - | lemmas: what each of the 41 accesses of `dw_pcie_setup_rc` is |
| `RootPortProofs` | - | theorems about the set-up of a controller |
| `SubsystemProofs` | - | theorems about the whole program under restarts |

### Udelay

`counter` is the hardware counter, `current` and `next` the locals, `polling`
says that control is in the loop. `Enter` is the first read, `Poll` a turn of
the loop. `Tick` advances the counter; while the loop runs, at most `MaxGap`
ticks pass between two reads, which is the latency of an APB read. `start`,
`gap` and `elapsed` only record: where the counter stood, the ticks since the
last read and since the first.

### Platform

`pc` is the control point, `build` the compile-time choice. `resets`,
`subsys_control`, `rc` (what `dw_pcie_setup_rc` latched per controller) and
`ltssm` are hardware; `Init` leaves resets and lane division as any earlier
boot might have. `controller` is the pointer of the loop as an index: it is
*not* the loop counter `i`, because the code advances it only past an active
controller. `hold` counts the ticks since the last write that a delay follows,
so that the properties can speak of real time and not of `udelay`'s own
arithmetic. `dw_pcie_setup_rc` is one step, because nothing in
`pcie_duowen.c` runs during it; `RootPort` has its detail and `Subsystem` joins
the two.

### RootPort and Iatu

A 32-bit word is the set of its one bits. `dw_pcie_setup_rc` is a sequence of
accesses of the three kinds the code makes: `Rmw` (the local `val` is read,
masked, or-ed and written back, two steps), `Write`, and `WriteAtu` (a field of
an outbound region). The 16-bit write of the class code is translated through
`dw_pcie_writew_dbi`. The rules of the hardware stand outside the repository
and are marked external: errors in `PCI_STATUS` are cleared by ones;
`PCIE_DBI_RO_WR_EN` protects read-only fields; `PCIE_GEN3_RELATED_OFF` holds a
copy per rate, and a write reaches either the copy selected before or the one
it selects (`bankOnWrite`: both are checked); an enabled region comes into use
later; the lowest matching region translates.

Addresses are numbers. An address of the code is 64 bits wide in two registers;
here a register has `Half` values, and 16 takes the place of 2^32, so that
every comparison, carry and split between the halves still happens.

### DbiAccess

A request names a space (access type, for the translation unit also direction
and index), an offset and a size. `format_dbi_addr` and `AtuOffset` turn it into
an address, a set of bits; `ReadOffset` cuts it to the width of the register
parameter of `readb_dbi` (eight bits) and `readw_dbi` (sixteen). `bus` holds the words
behind the accessors `readl` and `writel` (in the SDFIRM build `__raw_readl` and
`__raw_writel`, with IPBENCH `axi_read_c` and `axi_write_c`, all of them outside the
repository).

A read of a byte or a half passes its offset on unaligned; nothing is assumed of the
bus there: `ReadResults` lets it return any word. A write of a byte or a half masks the
address, reads the word (`MergeRead`) and writes it back (`MergeWrite`); the program
has one thread, so that no other access of its own comes between the two. What the
hardware may change in between is the subject of `RootPort`. A region that is neither
inbound nor outbound is refused without an access of the bus; a type that is not
supported is accessed at 0xffffffff.

`ByteSpace` promises all writes, but of the reads only those in `Readable`, which
`DbiAccess` defines by `Answered`: a word anywhere, a half at the start of a word and an
offset below 0x10000, a byte at the start of a word and an offset below 0x100, where the
index and the direction of a region are part of the offset. Any other read may return
anything, and changes nothing. No caller in the repository reads less than a word.

### ListHead

The program includes `list.h` and declares two list pointers, but calls no list
function, so the caller is any sequence of calls that keeps the documented
preconditions: what is added is on no list, what is removed is on one, a list is
spliced into another. `mem` holds the two pointers of every node. The operators
make the assignments of the code in their order. Nodes that left a list keep the
pointers the code leaves in them. `loop` holds the variables of `list_for_each_safe`
or its reverse; the `_entry` forms differ in pointer arithmetic only, and
`ContinueLoop` begins at an entry as the `_from` and `_continue` forms do. In a body the
current entry may leave the list, or the next one if `list_safe_reset_next` is called
(`DeleteNext`). The refinement reads the sequences off the memory: a head counts only
if a ring goes through it in both directions, an entry is `alone` if it is a ring
by itself.

`call` is the last call, the function with its arguments. It is not a variable of the code:
it is what makes the refinement one of each function by itself. `ListSeqs` has
one action per function, which sets `call` to its own name; a `list_add` that does
what the comment of `list_add_tail` says is no step of it.

### HashList

A slot is a pointer that can point to an entry: `first` of a head or `next` of an
entry. `mem.at` says what each slot points to, `mem.pprev` which slot each entry
believes points to it, so that `*pprev = next` is an assignment to a slot. The
refinement counts a head only if every `pprev` along its chain is right, which is what
later deletions rely on. The caller may empty a head under its entries, make an
entry pretend to be on a list (`hlist_add_fake`), and call `hlist_del_init` for
entries that are on none. As `LIST_POISON1` and `LIST_POISON2` are NULL here, a
deleted entry looks like one that was never added.

### Subsystem

`Platform` and `RootPort` side by side: `Enter` is the call of `dw_pcie_setup_rc`,
`Setup` one access of `RootPort`'s `Driver`, `Return` the return together with
`Platform`'s `SetupRc`. `RootPort`'s variables hold the registers of the controller
set up last, `others` those of the other three; `Of(p)` reads either. What `RootPort`
says of a controller (`PortReady`, `LinkInPlace`, `Complete`, `Translates`) takes the
registers as an argument, so that it can be asked of all of them.

`Restart` may come between any two steps, inside a set-up or after the links have been
started, any number of times. It models what is outside the repository: the processor
starts the program again, with the image loaded anew or still in memory, and the
subsystem keeps its state. That the controllers keep theirs follows from
`reset_init`, which asserts the reset of the PHY and only releases those of the
controllers. The build stays the same: after a change of the link mode the
old division of the lanes would still stand in controllers the new one does not use,
and nothing in the code deals with that.

Errors and late enables are left to `RootPort`, and the delays end at once; those
modules check them.

## Runs

All passing runs finish within three minutes.

| run | asks |
|---|---|
| `udelay` | does the wait last and end, from every start of a 16-value counter? |
| `platform` | all eight builds, every hardware state: order, delays, tables, termination; do the sound builds implement `BringUp`? |
| `root_port` | 10 controllers (every lane count and order a build activates), two reset patterns with rate copies that differ, both bank rules, two error bits: is the port ready, are windows whole, is nothing lost? |
| `root_port_ends` | one controller per aperture: does the set-up return with a translated aperture? |
| `dbi_access` | do writes of every size, and the reads that can be answered, behave like accesses to a space of bytes, with separate bytes per type, direction and index? |
| `warm_boot` | with restarts anywhere, do windows stay whole and the link registers of started controllers as they are, and are only ready ports started or asked for a speed change? |
| `warm_boot_ends` | once restarts stop, does the bring-up end with everything ready? |
| `lists` | has each call the effect of the function called on sequences, and do safe loops visit every entry once? |
| `dpu_active`, `mode_8_4_0_4`, `reset_wait`, `atu_enable` | a statement of the source that the code does not keep |

What the runs of the last row show:

- `dpu_active`: with `DPU`, the `break` of `LINK_MODE_8_4_0_4` is compiled out,
  and the fall-through makes X8 active where the comment says X4_1.
- `mode_8_4_0_4`: the server build sets up X16 and X8, stops at the inactive
  X4_0, and starts X4_1 without set-up. DPU builds for X4_0 and X8 fare the same: the
  pointer of the loop never leaves the inactive X16.
- `reset_wait`: a deadline that wraps ends `udelay` at its first read, so the
  "100ns" of the PHY reset can be no time at all. With the real constants this
  is the case for 125 of 2^32 positions of the counter.
- `atu_enable`: the wait "Make sure ATU enable takes effect" is commented out.

### Bounds, and why they are enough

- `Modulus` 16 (8 in `Platform`) for 2^32: the wait depends only on the position
  of the deadline relative to the wrap; the runs start the counter at every
  value and use arguments shorter and longer than the modulus.
- `MaxGap` 3 (2): at least one value that a slow read can step over. It is
  not 1, for which `DelayEnds` would need no condition.
- `TicksPerUs` 2 and `Ticks100ns = Ticks300ns = 1` in `Platform`: as in the code
  (12.5 and 37.5 of 125) the needed time is shorter than the delay.
- Builds, controllers, control points and register accesses are all there are.
- `ResetStates`: all registers of a controller hold the same word, one of the two
  alternations, which give every bit both values, unlike its
  neighbours, so that a mask one bit too wide or a field one bit off shows; in one of the
  two the copies of `PCIE_GEN3_RELATED_OFF` differ from rate to rate, so that what moves
  from one to another shows. `ClearedAtReset` takes only the pending speed change and the logged errors out of
  them, `Init` also the rate selection and the regions.
- `ErrorBits`: two bits of `PCI_STATUS`, so that one may be logged before and one
  after the read.
- Addresses: apertures of 32 with configuration windows of 4 and registers of 16
  values; every address of an aperture is tried. An aperture crosses a register
  boundary.

- `DbiAccess`: one register, accessed in each of its bytes and halves and as a
  word; the bytes and halves that a cut to eight or sixteen bits would take for
  it (in the same type at 0x10b and 0x10008, in the second region and in an inbound one);
  words at the same offset in four other spaces, so that every part of an address
  distinguishes two of them; a type and a region that do not exist. A byte is 0 or
  255, which -1 is made of: the accessors move bytes and never look at them. `MaxWords`,
  the words behind the bus that get a value, is 2, any two: an access that reaches
  the bytes of another register shows with the two of them.

- `Subsystem`: a build with two controllers (8_8_0_0) and two with one; the set-ups of
  one controller follow those of another in either state. 4_4_4_4 has the same code and
  too many states. One reset pattern, in which no link field holds what the set-up
  writes; both bank rules; restarts and the number of boots are not bounded. The
  liveness run takes the default build, 16_0_0_0.

- `ListHead`, `HashList`: two heads and three entries: a first, a middle and a last entry on one
  list while the other is a second list, the place entries are moved to, or stale. Heads
  and entries are symmetric: nothing in the modules, `ListSeqs` included, names one.

### Fairness

`udelay` and `platform` assume that the processor goes on executing the program
and the clock runs, each weakly fair as one action. They do not assume that
reads of the counter fall on convenient values: that the wait then ends is shown
only under `WindowOpen`, the deadline being at least `MaxGap` before the wrap.
`root_port_ends` assumes that the driver goes on and an enabled region comes into use
eventually. `warm_boot_ends` assumes that the processor executes the program;
restarts may go on for ever, and then nothing is promised. Nothing is assumed of
speed changes or errors.

`root_port` and `root_port_ends` switch the deadlock check off, since the function
returns and the model really stops. The other runs keep it.

## Proofs

All theorems are checked by TLAPS, from the named assumptions on the constants and
nothing else; TLC evaluates each assumption on the runs of its module:

| assumption | says |
|---|---|
| `UdelayAssumption`, `PlatformAssumption` | the constants are natural numbers, the modulus is positive, the builds are builds and the two waits are no longer than a microsecond |
| `IatuAssumption` | a register has at least one value, two configuration windows of at least one address fit into an aperture, and four apertures into the addresses |
| `RootPortAssumption` | the calls name a port, 4, 8 or 16 lanes and one of four orders; the contents after a reset are words, register by register; the errors are error bits of `PCI_STATUS` |
| `SubsystemAssumption` | `IatuAssumption`, and the contents after a reset are words |

So the theorems hold for every width of the counter and every latency of a read, for
every content of the registers at a cold boot, each of its own and each copy of a rate
too, with no speed change pending, no error logged and rate 0 selected (the runs try
two contents), for every set of errors logged meanwhile, and for every address map, the real one
included (`Half` = 2^32). `Subsystem` lets a cold boot find all four controllers alike.

| theorem | property | invariant it rests on |
|---|---|---|
| `DelayTypeCorrect`, `DelayWaits`, `DelayOvershoot` | `TypeOK`, `WaitsLongEnough`, `OvershootBounded` of `Udelay` | `DelayInv` |
| `PlatformTypeCorrect`, `LoopStopsAtInactive`, `SetupFollowsReset`, `DelaysAreHonoured` | `TypeOK`, `ConfiguredIsActivePrefix`, `SetupAfterReset`, `DelaysHonoured` of `Platform` | `PlatformInv` |
| `LanesAlwaysDivide` | `LanesDivide` | `PlatformInv`, `TablesInv` |
| `SwitchesStartActive`, `PlatformImplementsBringUp` | `StartedAreActive`, `ImplementsBringUp` | `PlatformInv`, `PostInv` |
| `WindowsTranslate` | the arithmetic behind `ApertureTranslated` | - |
| `RootPortTypeCorrect` | `TypeOK` of `RootPort` | itself |
| `InUseRegionsComplete`, `ApertureAlwaysTranslated` | `InUseIsComplete`, `ApertureTranslated` | `AtuInv` |
| `BothRatesAlwaysSet` | `BothRatesSet` | `RatesInv` |
| `PortReadyAtReturn` | `ReadyAtReturn` | `FieldsInv`, `UnlockedInv` |
| `SpeedChangeOnlyWhenReady` | `SpeedChangeWhenReady` | `NoSpeedChangeInv`, `FieldsInv`, `AtuInv` |
| `OtherBitsKept` | `KeepsOtherBits` | `FetchedInv`, `FirstRateInv` |
| `LateErrorsAlwaysSurvive` | `LateErrorsSurvive` | `TypeOK` and the rule of `Written` |
| `EnabledAlwaysWhole`, `LinkFieldsNeverChange`, `SpeedChangeFindsLink`, `StartedPortsAreReady` | `EnabledIsWhole`, `LinkFieldsStable`, `SpeedChangeWhenInPlace`, `StartsReadyPorts` of `Subsystem` | `SystemInv` |

### The wait and the bring-up

- `WaitsLongEnough` and `OvershootBounded` speak of the outcome and are not
  inductive. `DelayInv` adds what a turn of the loop relies on: `counter` is
  `start + elapsed` modulo the width until `elapsed` saturates, the deadline is exact
  when it does not wrap, and the last read was before the deadline while the loop runs.
- `PlatformInv` conjoins the types, `DelayInv` of the
  instance, and three parts: `ResetInv` (what the hardware holds at each control
  point), `TimerInv` (`hold` has run at least as long as the delay that follows
  it) and `LoopInv` (the controllers below the pointer are active and set up,
  those from it on are not, and once a turn is skipped the pointer stands on an
  inactive controller; without this clause the loop could resume).
  A step of the bring-up is a step of `Udelay` or leaves it alone
  (`NextIsDelayStep`), so the lemmas of `UdelayProofs` carry over.
- `PostInv` says what the second switch has done by the time it is at a case: exactly
  the cases from the link mode on have been executed, and a DPU build executes one.
  `SwitchesAgree` then compares the two switches, build by build: where the first does
  not fall through by accident, the active controllers are those the second starts.
  `TableDivides` looks at the tables in the same way, every row of them, and `TablesInv`
  carries it: `LanesDivide` speaks of the table and of what the loop has handed out, which is
  a part of it.
- `TypeOK` of `Platform` includes `PointerInBounds`: at every turn of the loop the pointer,
  which is never ahead of the counter, is inside `controllers[]`.
- The refinement maps `InitRefines`, `SetupRcRefines` and `StartLtssmRefines` to
  `Init`, `Configure` and `Train` of `BringUp`; every other step is a stutter. That the
  guard of `Train` holds, a started controller has been configured, needs
  `LoopInv` (the loop has passed the whole active prefix) and `SoundBuilds` (the active
  controllers are a prefix). The mapping sends all controllers of an unsound build to
  "off": for those the refinement says nothing, and `mode_8_4_0_4` shows why.

### One controller

`dw_pcie_setup_rc` is a list of 41 accesses, the concatenation of the lists of the
functions it calls. `RootPortProgram` computes its entries: `ProgramAt` names the access
at each place, `WindowsAt` the 24 that write the windows, `Places` the registers
they reach, and `AccessWords` that their bits are words. `WordsProofs` relates bit sets to
numbers (`BitsOf`, shifts, fields within their mask).

`RootPortInv` says, for each place `ip` in the list, what the controller holds there:

- `FetchedInv`: what a read has brought is still what the register holds, apart from
  error bits and a speed change that ended meanwhile. Without it the write-back of a
  read-modify-write could undo anything.
- `UnlockedInv`: the read-only fields can be written at accesses 2 to 41 and not after
  the last. Without it the writes of the link mode and the class would not arrive.
- `FieldsInv`: each field of `PortReady` is in place once its access has passed. Of the
  scale factor `PortReady` has only bit 30, which the code sets. Bit 29 is never cleared:
  where it was set before, the factor is 3 and not the 2 that the comment at
  `pcie_designware.c:545` wants ("Conifg Fast Link Scale Factor is 64(16us)").
  `KeepsOtherBits` says as much, with bit 29 among the bits that stay as they are. What it
  is after a reset is not in the repository.
- `NoSpeedChangeInv`: nothing requests a speed change before access 40, nor does the
  copy held across access 4, which another access to the same register writes back.
- `RatesInv`: which copy of `PCIE_GEN3_RELATED_OFF` is selected between accesses 6 and
  8, and which copies have bit 9, under either rule for where a write goes.
- `FirstRateInv`: rate 0 is selected until the accesses that select rate 1. With it
  `OtherBitsKept` can tell which copy a write-back goes to. It excepts one copy openly:
  where a write reaches the copy it selects, the second of the three accesses puts what
  it has read of rate 0 into the copy of rate 1, whose own bits are lost. All other
  registers and copies keep every bit outside the fields the set-up is for.
- `AtuInv`: a field of a region holds its window from its access on *or while the region
  is enabled*. `ApertureAlwaysTranslated` follows with `WindowsTranslate`.

Every part is proved by cases on the place of the access (`NextSteps`). None but
`NoSpeedChangeInv` supposes that the set-up is the first one: `RatesInv` and `AtuInv` are
stated so that a set-up over the remains of another preserves them too, which is what
`SubsystemProofs` needs.

### The whole program under restarts

`SystemInv` takes the invariants of a set-up over and says in what state a boot finds the
controllers:

- `BootInv`: where a boot is; the part of `LoopInv` that a restart leaves true.
- `CallInv`: a call is for the controller the loop stands on, with the fields of the
  tables, and outside a call the next access is the first one.
- `DriverInv`: `FetchedInv`, `UnlockedInv`, `FieldsInv`, `RatesInv` and `AtuInv` of the
  controller set up last, with `ip` back at 1 after a restart: since each part is a
  statement about accesses that have passed, it survives that. `NoSpeedChangeInv` does
  not, and is not part of it.
- `LeftInv`: what a set-up leaves in its controller wherever it is cut short, and
  all that a later one relies on: enabled regions are whole, the rate selection and
  its copies are consistent, and a pending speed change belongs to a controller whose
  link and windows are in place.
- `PendingInv`: the same of a request that access 4 has read and will repeat, while the
  controller may end it in between.
- `StartedInv`: the link of a started controller is in place, and a repeated set-up
  writes the values that are already there (`LinkStays`), at each single access.
  `LinkFieldsStable` is more than that the fields are the same afterwards.
- `ReadyInv`: the loop leaves ready what it passes.

`StartedPortsAreReady` has the hypothesis `Builds \subseteq SoundBuilds`: in the others the
switch starts a controller the loop does not reach, as `mode_8_4_0_4` shows, and the
theorem would be false. The other three hold in every build, `StartedInv`
speaking of the controllers the loop reaches.

`Subsystem` has its own instance `R` of `RootPort`, and the theorems of `RootPortProofs` come
with another, `RP`; the lemmas `SameProgram` to `SameSpeedChangeEnds` show that both say the
same of a call, and after that each step of `Subsystem` is a step of `RP` for one
controller, a change of `others` or a step of `Platform` (`RegisterSteps`, `BootSteps`).

### Only model-checked

- Liveness: `DelayEnds`, `BringUpEnds`, `EventuallyTranslates`, `RecoversFromRestarts`.
  The prover handles neither `ENABLED` nor, therefore, fairness.
- `DbiAccess` with `ByteSpace`, and the lists with `ListSeqs`. What a recursive function
  computes for every input (`Path` of `ListHead`, `Chain` of `HashList`) is an induction
  over data, which is out of the prover's reach.
- The disagreements of the last row of the runs, which are counterexamples.

## Not modelled

- Sizes other than 1, 2 and 4, for which `dw_pcie_read_dbi` returns an uninitialised
  value, and offsets that are not a multiple of the size: nobody passes them.
- What of `list.h` only reads: the loops that are not safe, `list_is_last`,
  `list_empty_careful` and `hlist_empty`.
- The `readl` and `writel` of the host build (`pci_glue.h:25-26`): their bodies are
  empty, `readl` returns nothing at all, and no register is ever reached.
- `main`, `pcie_init`, `dw_pcie_host_init`, `pre_platform_init`: they forward a call
  or are called by nobody.
- The bodies behind `read_apb`, `axi_read_c` and the print-outs: not in the
  repository, or output only.
- Prototypes without a body and code inside comments: link wait, inbound windows,
  MSI, other-configuration accesses.
- The link itself: the program ends without waiting for it.

## Plan

Done, in this order: `Udelay`, `LinkMode`, `Platform` with `BringUp`, `Words`
and `Iatu`, `RootPort`, the proofs of the first three, then `DbiAccess` with
`ByteSpace` and `ListHead` with `ListSeqs`.

Then `Subsystem`, the composition with restarts, and `HashList`.

Then the proofs, bottom up: the rest of `Platform` and its refinement, the operators of
`Words` and `Iatu`, `RootPort`, and on these `Subsystem`.

Next:

1. Proofs: that every step of `Subsystem` other than a restart is a step of `Platform`
   or leaves it alone, as a statement of its own; that an access of `DbiAccess` reaches
   the bytes it names (`ReadOffset` and the merging), without the recursion of the lists.
2. A change of the build between two boots, as soon as the code has an answer to it.
