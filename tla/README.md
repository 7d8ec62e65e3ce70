# TLA+ models of the micro-LED panel drivers

This directory holds a formal model of the Linux drivers in
`recipes-kernel/linux/files/`: AR glasses built on an i.MX93 board drive three
JBD4040 (or JBD4020) micro-LED panels, one per colour, over MIPI DSI, with all
configuration over I2C. The models are checked with TLC; most of their invariants are
also proved with TLAPS, for any number of threads, requests and failed transfers.

## The system

| part | state | operations | who calls it |
| --- | --- | --- | --- |
| `panel-jbd4040.c`, DRM callbacks | three GPIOs, `prepared`, `enabled`, `bist`, `vid_mode`, the panels' registers | `prepare`, `enable`, `disable`, `unprepare` | DRM core, one at a time |
| `panel-jbd4040.c`, mode attributes | `bist`, `vid_mode`, `gamma_val`, mode registers | `bist`, `vid_mode`, `refresh_loop`, `glb_scan_val`, `gamma`, `test_demura_table_w`, `demura_table_{r,g,b}` | any process, no lock, installed at three places in sysfs |
| `panel-jbd4040.c`, register attributes | one register or bit field each | `luminance`, `current`, `flip`, `mirror`, `offset`, `fps`, `temperature`, `pl_osc_trim*`, `demura_*` | the same |
| `panel-jbd4040.c`, lifecycle | character device, class, three attribute groups, adapter reference, `g_jbd4040_ctx` | `probe`, `remove`, `open`, `ioctl`, `release` | driver core, processes (`ioctl` under a mutex) |
| `i2c-jbd4040.c` | five GPIOs, three copied clients and the original one whose `addr` is changed and changed back, `sysfs_reg` | attributes, `ioctl`, `probe`, `remove`, power sequence | processes, driver core |
| `i2c-jbd4020.c` | registers of the JBD4020, each picture setting twice (SRAM and video path), the mutex | `ioctl` under the mutex, attributes without it, `probe`, `remove` | processes, driver core |
| `panel-jbd-jbd4020-{right,left}.c` | three GPIOs, the adapter, `jbd_panel_status` and `jbd_panel_cfg` (both static), `prepared`, `enabled` | `probe` with register tables, wait loops and default configuration, DRM callbacks, `remove` | driver core, DRM core |
| `jbd4040-reinit.sh`, `jbd4040-reg` | DRM status, module loaded or not | off, reload, on; one `ioctl` | systemd, shell |
| `v-gpio-*`, wifi and hotspot scripts | none worth a model | poll or pulse a GPIO; configure wpa_supplicant and hostapd | systemd, shell |

The parts meet in the panels: the DRM callbacks, every attribute and the ioctl
read and write the same three register files through one I2C bus on which only
single transfers are atomic. There is no lock between them except the ioctl's
own. The panels answer at an address per colour and, for writes, at a broadcast
address that is acknowledged if any one of them is alive.
What is hard: the order of the supplies over three callbacks and an error path, or
over a probe that fails half way and comes again; failures of single transfers, most of
which the code ignores; handlers interleaved with callbacks and with each other; context
fields and status that are looked at once and used much later; and resources acquired
in `probe` in many steps.

For each part, what makes it correct:

- *DRM callbacks*: the negative supply AVEE is on only over panels that have AVDD,
  are out of RESET, were initialised and all answer; a callback leaves everything on or
  everything off and the context says which; a prepare always ends.
- *Mode attributes*: the context knows the mode of the panels; the Demura SRAM is written in
  Command Mode and test patterns are shown in it; Video Mode keeps loading frames and comes
  back after a table.
- *Register attributes*: writing one attribute changes no other; a read returns the register
  that was asked for; numbers stay within their fields; a lost transfer does not
  destroy a neighbour field.
- *Lifecycle*: whatever step of `probe` fails, nothing is released that is not there, and
  nothing piles up over many bindings; handlers find live clients, or a live context, as
  long as there is a device node; every ioctl ends, but for what `mutex_init` does to sleepers.
- *I2C drivers*: registers end up as the requests want them; what a command reads over
  several panels is one moment; success means that everything is set; `client->addr`
  comes back to the broadcast address; a failed transfer destroys no neighbour field.
- *JBD4020 panel drivers*: the driver switches AVEE on only over the other supplies and initialised panels, over any
  number of probes; a bound driver has a configured panel and an unbound one leaves no panel
  lit by accident; the wait loops end.

## Modules

All paths are below `recipes-kernel/linux/files/`.

| module | models | composes |
| --- | --- | --- |
| `Jbd4040Chip` | the registers of the three panels that carry behaviour, a write to one or all of them, reset | |
| `PanelPower` | abstract promise of the driver about the supplies: levels off, AVDD, released, lit, one at a time upwards | |
| `PanelJbd4040` | the DRM callbacks of `panel-jbd4040.c` | `Jbd4040Chip`, implements `PanelPower` |
| `PanelJbd4040Sysfs` | the mode attributes, in threads next to the callbacks | `PanelJbd4040` |
| `PanelJbd4040Attrs` | the register attributes, in threads, transfer by transfer | |
| `I2cJbd` | ioctl and sysfs attributes of `i2c-jbd4040.c` and `i2c-jbd4020.c`, transfer by transfer | |
| `PanelJbd4020` | `panel-jbd-jbd4020-right.c` and `-left.c`, over any number of bindings | |
| `DriverLifecycle` | `probe` and `remove` of `i2c-jbd4040.c`, `i2c-jbd4020.c` and `panel-jbd4040.c`, and user threads on their character devices | |
| `PanelJbd4040Proofs`, `PanelJbd4040InitProofs` | theorems about `PanelJbd4040` | |
| `PanelJbd4040SysfsProofs` | theorems about `PanelJbd4040Sysfs` | `PanelJbd4040InitProofs` |
| `PanelJbd4040AttrsProofs` | theorems about `PanelJbd4040Attrs` | |
| `I2cJbdProofs`, `I2cJbdEffectProofs` | theorems about `I2cJbd` | |
| `PanelJbd4020Proofs` | theorems about `PanelJbd4020` | |
| `DriverLifecycleProofs` | theorems about `DriverLifecycle` | |
| `MCPanelJbd4040`, `MCPanelJbd4040Sysfs`, `MCPanelJbd4040Attrs`, `MCI2cJbd`, `MCDriverLifecycle` | values for TLC (`PanelJbd4020` has only numbers and is run itself) | |

**`Jbd4040Chip`.** A write goes to a set of panels (one colour address or the broadcast
address) and has a kind that says what the driver does with its result: `Latch` is
`ret |= write()`, `Must` leaves the function on failure, `Try` ignores it. Registers that
nothing tells apart (LUM, CUR, PL_CFG, the MIPI and D-PHY settings) are one register
`SETUP`, 1 once written. The gamma table is two halves, which is enough for a mixed table.

**`PanelJbd4040`.** `rail` holds the logical values of the three GPIOs, all of which exist in
the device tree (`imx93-gis-sdmb-jbd4040-neo.dts:47-49`) and which `probe` requests low.
`prepared`, `enabled`, `bist`, `vid_mode`, `gamma_val` are the fields of
`struct jbd4040_panel_info`; `bist_enable` is the module parameter, writable by root and
read twice in `jbd4040_init_registers` and once in `jbd4040_enable`. `pc` is the place in the
callback, `todo` the writes left in the block of writes at that place, `ret` the latched
error. There is an action for every group of GPIO steps, for one write of a block
(`BlockWrite`), for the end of each block, for the five reads of the status check, and for
the call and the end of each callback with its early return. A panel that is not up (AVDD
on, RESET released) or is `dead` does not answer and a panel that loses power forgets its
registers. `Call` is the DRM core: one callback at a time, in the order prepare, enable,
disable, unprepare if `CallerOrdered`, in any order if not.

**`PanelJbd4040Sysfs`.** A handler that has started is the list of steps it has still to take
(`job`), computed from the attribute's argument and, where the handler looks at it before
its first transfer, the context (`DemuraTableWrite` looks at `ctx->vid_mode`). The two reads of
`refresh_loop`, its write, and the frame sync are steps of their own; either read may fail, and after both the
handler's own default is written.
`Discipline` is an assumption about user space, of which the driver enforces nothing: "none",
"enabled" (attributes are written while the display is enabled and no callback runs) or "serial"
(and one at a time). `blind` remembers that a handler or callback went on after a write that
failed and whose result it ignores: from then on the context cannot know the panels' mode.

**`PanelJbd4040Attrs`.** Here a read is the two I2C transfers it is in
`jbd4040_i2c_read_reg16`: `SendAddress` moves the panel's register pointer (`ptr`), `Fetch`
returns what the pointer says. Any other thread's transfer may come in between; the handler then takes the bits
of another register for those it asked for (`Misread`). `got` holds the
variables `valR`, `valG`, `valB`, `cur_val` of the handlers. A register is two fields, e.g.
`IMG_FLIP` is bit 0 (mirror) and bit 1 (not flipped). `Steps` gives the transfers of each
handler; `Effect` says, independently of it, what a request means for each field, and the
history variable `want` keeps for each field the values it may rest at. A behaviour is about
one scenario (`plan`): the attributes in use, what their users keep to, how many transfers fail
and how many colour and value pairs one write has. Under the discipline
"colours" users leave a panel alone that another handler is using, under "serial" there is one
handler at a time, under "none" there is no rule.

**`I2cJbd`.** `drv` of the scenario says which of the two drivers it is. `IoctlSteps`, `ShowSteps`
and `StoreSteps` translate every ioctl command and every attribute into the list of its transfers;
each transfer carries what its failure means in that place (`fail`: how many of the next steps
are left out, and whether the handler reports an error). The commands of `i2c-jbd4040.c` whose code is inside `#if 0`
(`LUMIN_*`, `CURRENT_*`, `TEMP_READ`, `FLIP_*`, `MIRROR_*`, `OFFSET_*`; their case labels are compiled) have no steps
and return success (`Stub`). The stores of that driver take several panels in one write and go on after a failure on one
of them (`PerNamed`); a line is modelled as naming each panel at most once, red first. A read of the JBD4020 is one combined
transfer (`ReadCombined`); a read of the JBD4040 is two (`SendAddress`, `Fetch`) with the panel's
pointer in between. `addr` is `client->addr` of the JBD4040 driver's own client, which
`store_fps` changes for one read (`ChangeAddr`, `RestoreAddr`); writes of that client go to
whatever it is. `sysfsReg` is the register that the attributes `reg` and `val` stand for. An
ioctl takes the mutex (`Lock`) and gives it back at its end (`Return`). `Effect` says what a
request asks for, independently of its steps, and the history variable `goal` holds the
registers as the requests served so far want them. `MayStart` is about user space: ioctls run
next to each other as they like, an attribute runs while nothing else does, since
the attributes take no lock and would undo each other (`attrs_race` shows that for the other
driver).

**`PanelJbd4020`.** `side` says which of the two drivers it is: the left one gets its lines
from devm, reads its offsets from the flash, and goes on without a panel that answers and after a
failed `default_config`; the right one stops in both cases, keeps its lines when probe fails and
returns them when it succeeds.
`own` and `level` are the GPIOs with their holder, `refs` the references to the adapter (each
failing probe after `i2c_get_adapter` leaves one), `alive` the panels that work, `status` the
static `jbd_panel_status`, `stage[p]` how many of the eight parts of the initialisation panel `p`
has got without a gap, `set[p]` which default settings. A register table is one action
(`RegListWrite`): it reaches a set of panels, the dead ones and those whose transfers fail are
`lost`. The wait loops poll (`WaitPoll`) up to `MaxPolls` times. In `read_default_cfg` the last poll ends the wait whether
the DMA of the panel is done or not: `late` holds the panels whose DMA was not seen complete, and what `CfgOffsets` reads of
them may be old memory. Each error path of probe is a disjunct
of the action that meets it. The environment takes panels away and puts them back while the
supplies are off (`Replace`). User space takes GPIOs that nobody holds, sets their levels and returns them (`UserLine`):
the right driver releases its lines for that. `driven` are the lines whose level user space has set after the driver.

**`DriverLifecycle`.** `ProbeSteps` and `RemoveSteps` list what `probe` and `remove` of each of the three
drivers do: acquire something, release it (`Put`, or `PutIf` where the code looks first), set a
GPIO, publish the clients or the context, `mutex_init`. `GetStep` acquires, `FailStep` does not: `OnFail`
is what its error path releases and `Ends` and `GoesTo` say whether probe returns an error
or goes on. `has` is what the present binding has, `lost` what earlier ones have left behind for
good; devm takes memory and lines at the end (`Unbind`), levels stay. An adapter that the panel driver
does not find is a warning only. `twice` remembers that
something was released that was not there. A class or file left behind makes a later
registration fail. `user` are threads that open the device and call its ioctl while the driver
comes and goes; an open file outlives the device node. A thread that finds the mutex taken goes to sleep (`Sleep`) and is
woken by `Unlock`. `MutexInit` makes the mutex free and its list of waiters empty, whoever holds it or sleeps on it: a
sleeper is then `stranded`.

## What is checked

| run | module | expected | question |
| --- | --- | --- | --- |
| `panel_power` | `MCPanelJbd4040` | pass | supplies, status gate, context and registers over any cycles of the callbacks; refinement of `PanelPower`; every prepare ends |
| `display_order` | `MCPanelJbd4040` | violation | is the display switched on only with AVEE on, as the comment in `jbd4040_enable` wants |
| `sysfs_serial` | `MCPanelJbd4040Sysfs` | pass | one mode attribute at a time: context, Demura SRAM, Video Mode |
| `sram_mode` | `MCPanelJbd4040Sysfs` | violation | two table writers at once |
| `bist_mode` | `MCPanelJbd4040Sysfs` | violation | a table under a running test pattern |
| `gamma_value` | `MCPanelJbd4040Sysfs` | violation | `gamma_val` after a power cycle |
| `attrs_colours` | `MCPanelJbd4040Attrs` | pass | attributes of different colours at once; any two at once, of those that write no register they have read; one at a time with lost transfers and several pairs in a write: fields as last asked for, fields that share a register |
| `attrs_race` | `MCPanelJbd4040Attrs` | violation | `flip` and `mirror` at once |
| `i2c_drivers` | `MCI2cJbd` | pass | both I2C drivers: two threads in ioctl, or one with lost transfers: requests, reads of one moment, success (of commands that are not stubs), neighbour fields, `client->addr`, every ioctl returns |
| `offset_paths` | `MCI2cJbd` | violation | do the settings of SRAM and of the video path stay in step |
| `panel_jbd4020` | `PanelJbd4020` | pass | both JBD4020 panel drivers over any bindings: supplies, initialisation, configuration, what is left behind, with user space at the released lines; every probe ends |
| `lifecycle` | `MCDriverLifecycle` | pass | bindings of three drivers with failing steps, and two threads on the device: releases, leftovers, pointers, AVEE; every ioctl ends or is stranded by `mutex_init` |

**Bounds.** `MaxFaults` limits transfers to working panels that fail. In `panel_power` it is 3: one
failure can hit the initialisation, one a status read and one a later callback of the same
history, and a prepare that failed starts again from the same state, so more failures repeat
these. In `sysfs_serial` it is 2: `refresh_loop` writes its own default only when two reads fail; `blind`
ends most guarantees after the first write that fails and is ignored. The "serial" scenarios of `attrs_colours` have 2: `pl_osc_trim_en_store` has two
addresses to read from, and its default matters only when both fail. The scenarios of one thread in
`i2c_drivers` have 2: one in a handler, and one in a later handler that meets what it left. Those
of two threads have none, as after a failure the registers are not known any more. In
`panel_jbd4020` it is 2: the code has two places where a second failure replaces what the
first one meant (a read after a write, a later probe after an earlier one); `PanelJbd4020Proofs`
removes the bound. Any set of panels may be dead in the panel modules. `TableChunks` is 2:
a first block and a last one, and writes that stop short of the end and that pass it; the
code treats all blocks but the last alike. A write of colour and value pairs has two in the
scenario of the oscillator trim: a pair that another one overrides.
Two threads are enough for every race of two handlers; the code has no state that
needs three. A scenario holds attributes or commands that share a register or read each
other's: those with registers of their own cannot disturb each other but through the read
pointer, which the scenarios with several colours exercise. The
numbers written are one inside and one beyond the range of each field.
`MaxPolls` is 3 where the code has 100: a first poll, one between and the last.
`MaxRefs` is 2 because nothing in the code looks at the number of references; without it they
grow with every failing probe. `MaxFailures` in `lifecycle` is 2: one step fails and so does one of
the next binding, or of the same one where probe goes on; `DriverLifecycleProofs` removes this bound.
`sysfs_serial` leaves `gamma` out (it shares nothing with the mode; with it the run is several
times as large), `gamma_value` has it.

**Fairness.** `FairSpec` of `PanelJbd4040` and `SysFairSpec` ask for weak fairness of a running callback and
of each running handler; `FairSpec` of `PanelJbd4020` of a running `probe` or `remove`; `FairSpec` of `I2cJbd`
and `DriverLifecycle` of a handler that holds the mutex or runs without it. Every step of these is
an assignment, an `msleep` of constant length, a GPIO write or an I2C transfer that the adapter ends
with a result or a timeout, and none waits for another thread. A thread that waits for the mutex
(`Lock`) has strong fairness: the kernel's mutex hands itself over to a waiter that has been
passed over, so one that is free again and again is got in the end. In `DriverLifecycle` that is asked only of threads that
are awake; one that sleeps is woken by `Unlock` or never. Nobody is obliged to call
a callback, an ioctl or an attribute, to bind or to unbind a driver, and a
callback is not fair in `sysfs_serial` while the discipline keeps it from starting.
Deadlock is checked in every run.

## Findings

Each is a run that ends in a counterexample, with the line of the repository that it
contradicts.

- `display_order`: `jbd4040_init_registers` writes "Display on" in every prepare
  (`panel-jbd4040.c:375`), before AVEE; `jbd4040_enable` (line 522) says the display switch
  is turned on only after AVEE is on and stable.
- `sram_mode`: `jbd4040_demura_table_write_channel` checks `ctx->vid_mode` once (line 2358) and
  says that the SRAM must be written in Command Mode; a second writer that ends its table
  restores Video Mode for all.
- `bist_mode`: the end of a table goes to Video Mode whatever was before (line 2389), and leaves
  a test pattern on that needs Command Mode (line 386).
- `gamma_value`: prepare loads the 2.2 table (line 408) and leaves `gamma_val`, which then names
  another table than the one in the panels (`panel-jbd4040.h:150`).
- `attrs_race`: `flip_store` and `mirror_store` (lines 986, 1044) read, modify and write the same
  registers without a lock; one request undoes the other.
- `offset_paths`: the ioctl `OFFSET_SET` of `i2c-jbd4020.c` that switches an offset off does
  `temp &= MASK_OFFSET_VO` (lines 723, 759, 795) where it wants the complement, so the switch stays
  on in the video path and the picture there is turned over; and it writes blue's value to
  red's panel (line 797). The other commands keep "SRAM" (line 431) and "Video path" (line 444) in
  step.

The models show two more things that are worth knowing, though no run is about them. A read of `panel-jbd4040.c` is two transfers
without a lock (line 75): with `flip` and `temperature` in one scenario and no discipline, `flip_store` takes the sensor switch for
the flip register and changes the mirroring bit. And the left JBD4020 driver goes on after 100 polls of a DMA
(`panel-jbd-jbd4020-left.c:572`) and reads memory that the DMA has not filled yet, without any failed transfer;
`OffsetsFromFlash` says that this and a failed transfer are the only ways to such offsets.

## What is proved

**`PanelJbd4040Proofs` and `PanelJbd4040InitProofs`** prove about `Spec` of `PanelJbd4040`, for every value of
`MaxFaults`, `ParamWrites` and `CallerOrdered` that the three assumptions of the module allow (a
natural number and two Booleans), any set of dead panels and any number of power cycles:

| theorem | says |
| --- | --- |
| `TypeCorrect` | `TypeOK` |
| `EmitOnlyWhenCheckedCorrect` | AVEE is on only over panels that have AVDD, are released and all work |
| `ReturnsAllOrNothingCorrect` | every callback returns with everything on and `prepared`, or off and not |
| `EnabledOnlyLitCorrect` | in the order of the DRM core an enabled display is lit |
| `PowerSequenceCorrect` | the callbacks implement `PanelPower`: initial states and every step |
| `EmitOnInitialisedPanelsCorrect` | when AVEE has come on, all panels hold what the initialisation accounts for |
| `EnabledAgreesCorrect` | after an enable without lost transfers the context names the mode of the panels |

None of the properties is inductive alone. The invariant of the first five is

    IInv == TypeOK /\ RailInv /\ PreparedInv /\ CheckInv /\ OrderInv

- `RailInv` gives the three GPIOs from `pc` and `prepared`: three predicates say at which control
  points AVEE is on (`Lit`), the panels are out of RESET (`Released`) and AVDD is on (`Powered`).
  While AVDD is off RESET may have either value, as a panel that was never powered and one
  that was powered off differ in it.
- `PreparedInv` says where `prepared` may be true: outside prepare, and until the last step of
  unprepare.
- `CheckInv` is the status check as far as it has come: past the read of a colour, that colour is
  not dead; past all of them, none is. This is what `EmitOnlyWhenChecked` needs, since
  the broadcast writes before are acknowledged by any panel.
- `OrderInv` ties `enabled` to the next callback an ordered caller makes; an enabled display
  meets a disable before an unprepare.

`TypeStep`, `RailStep`, `CheckStep` and `OrderStep` each prove that one part is kept by every
action; `Inductive` puts them together. The refinement proof uses the invariant to show for each
GPIO step that it is a step of `PanelPower` or leaves its level alone. The last two theorems are
about the contents of the registers. `Due(reg, v)` says that the writes left in a block will bring
`reg` to `v` in all panels that work, or have done so: `InitInv` has it for the initialisation while `ret`
is 0, `ModeInv` for `jbd4040_enable` while nothing has failed. That the block keeps it from write to
write is `DueAfterAck`, that it holds at the end `DueAtEnd`.

**`PanelJbd4040SysfsProofs`** proves about `SysSpec` of `PanelJbd4040Sysfs`, for any set of threads, any length of
the Demura table and any bound on failed transfers:

| theorem | says | under |
| --- | --- | --- |
| `SysTypeCorrect` | `SysTypeOK` | any use |
| `SysEmitOnlyWhenCheckedCorrect`, `SysReturnsAllOrNothingCorrect`, `SysPowerSequenceCorrect` | what holds of the supplies without attributes holds with them | any use |
| `SramWriteInCommandModeCorrect` | a block of a table meets panels in Command Mode | orderly use |
| `ContextAgreesCorrect` | between handlers the context names the mode and the test pattern of the panels | orderly use |
| `VideoKeepsLoadingCorrect` | between handlers panels in Video Mode load frames | orderly use |

Orderly use is `Discipline = "serial" /\ CallerOrdered`: without it the last three are false, as
`sram_mode` and `bist_mode` show. The supplies need no discipline, because no attribute touches a
GPIO, `prepared` or the status check: `IInv` above is kept by every step of a handler. The other
three need

    IInv /\ JobTypes /\ SerialInv /\ AgreeInv

- `SerialInv`: at most one handler is under way, and only while the display is enabled and no callback is.
- `AgreeInv` says of the steps that a handler has still to take what they will come to. `Ends(c, q, n, p, reg, v)`
  is "after the first `n` steps of `q`, register `reg` of panel `p` is `v`", `Left` the same for a field of the
  context. A handler may end after its last step or at a write that fails and that must not
  (`Stops`); `JobOK` asks that wherever it ends, panels and context are `Settled`, and that
  each block of a table comes after Command Mode and before anything else. This is proved
  of each handler when it starts, and a step only moves it from the list into the registers.
- A write that fails and is ignored makes `blind` true, and all of it void.
- For `jbd4040_enable` the same is said with `Due` of `PanelJbd4040InitProofs`.

**`PanelJbd4040AttrsProofs`** proves about `Spec` of `PanelJbd4040Attrs`:

| theorem | says |
| --- | --- |
| `AttrTypeCorrect` | every field fits its register |
| `SetupSurvivesCorrect` | handlers keep the other fields of registers, whatever fails |
| `FieldsFollowRequestsCorrect` | when nothing runs and nothing has failed, each field is what its last request asked for |

They hold for any set of threads, any scenarios that `AttrsAssumption` allows, any list of colour and value
pairs in a request and any number of failed transfers. All of them assume `UsersKeepApart`: the users of the
attributes keep apart by colour or in time. The code does nothing to that end, and without it the last one is false
(`attrs_race`). That a read then fetches from the register whose address it has sent (`ReadsOwnRegister`) is a
part of the invariant and no result: it says nothing of two readers of one panel. Under "colours" the steps of several handlers do interleave. The invariant is

    AttrInv == StateOK /\ SentIsRead /\ Apart /\ ReadsOwnRegister /\ SetupSurvives /\ JobsOK

- `Apart`: no panel is in the lists of two handlers. So what a handler has read of a panel stays true while others
  take their steps.
- `JobsOK` is about the steps that each handler has still to take (`JobOK`). A write that replaces one field
  takes the other from what the handler has read; `BacksOK` says that this is `Held`, that is read and still what
  the panel has, or that a later step reads it (`Feeds`). `NoSkipOver`: a failed read that leaves out steps leaves
  out the write that needed it. `SensorOK`: while nothing has failed the sensors are on
  until the last one has been read, so that no step is left out.
- Each handler starts with such a list, for each attribute a lemma, put together by `StepsOK`. A request
  with several pairs is a list of blocks; as `FlattenSeq` is recursive, what it returns for any number of them is
  shown by the smallest number for which it would not (`LeastNumber`, from the well-foundedness of `<`).

The lemma of each handler also says what its list sets (`Answers`): for each field of each panel, either no step
sets it, or the last one to do so writes what `Effect` names. This compares two independent translations of the code, the
transfers of a handler and what it is for. `FieldsFollowRequestsCorrect` follows from `WantInv` with it: while
nothing has failed, a field has one of the values of `want`, or a handler will still set it to one (`Follows`).

**`I2cJbdProofs`** proves about `Spec` of `I2cJbd`, for any set of threads and any scenarios, that is any requests with
any numbers and any number of failed transfers: `I2cTypeCorrect`, which includes that every
field stays within its bits, and `AddrIsBroadcastCorrect`. The assumptions are those of the module:
`NoThreadAssumption`, `ScenariosAssumption` and `RequestsAssumption` (a request is a command or an attribute that
the driver has, parsed; the rate is a place in `fps_array`, the delay fits 16 bits). The invariant is

    TInv == Arrays /\ RestInv /\ ApartInv /\ AddrInv /\ HandlersOK

- `RestInv` and `ApartInv`: what a thread keeps between requests, who holds the mutex, and who may be at work
  together; so at most one handler runs (`OneRuns`).
- `HandlersOK` is about the steps left. A write that replaces some fields of a register takes the rest from
  `temp`, and a type invariant must know that `temp` then holds that register. `Feeds(a, b)`: step `a` leaves
  in `temp` what the next one needs. `Sound`: every step has it, also where a failure leaves out
  some steps, since it then lands at the end or on a step that needs nothing (`Fresh`). Each
  handler is `Sound` when it starts (`HandlerBlock`), and what is left of it stays so (`SoundRest`).
- `store_fps` is the exception: it notes a failed read and leaves only after it has restored the address. Its
  invariant `FpsOK` goes by the number of steps left; `AddrInv` says that only in its middle two steps is the
  address not the broadcast address.

**`I2cJbdEffectProofs`** proves on top of that what the handlers do to the registers:

| theorem | says | assumes |
| --- | --- | --- |
| `SuccessIsCompleteCorrect` | an ioctl that is not a stub and returns success has set all it was called for | `NoOffsetSet` |
| `OnlyNamedFieldsChangeCorrect` | a transfer changes no field that its handler was not called for | `NoOffsetSet`, `RawElsewhere` |
| `SettingsFollowRequestsCorrect` | when nothing runs and nothing has failed, the registers are what the requests ask for | `NoOffsetSet`, `RawElsewhere` |
| `GetsReadOneMomentCorrect` | what a handler has read, of several panels, is what they held at one moment, if nothing has failed | `NoOffsetSet`, `RawElsewhere` |

Both assumptions are about the requests. `NoOffsetSet`: nobody uses the command `OFFSET_SET` of the JBD4020 (that of the
JBD4040 is a stub), which writes what is meant for blue to red (`offset_paths`) and makes all four false. The commands of the
JBD4040 that are stubs return success and set nothing, so `SuccessIsComplete` leaves them out; the others cover them. `RawElsewhere`: raw accesses to single registers (`WRITE_REG`, `reg` and `val`) leave
alone OFFSET, VO and FPS. The drivers copy fields of these from one place to another: the attribute `offset` the
numbers from SRAM to the video path, `store_fps` the scan bit from red to all. A raw access that makes the two
differ turns the copy into a change that nobody asked for. The scenarios of `i2c_drivers` satisfy
both, and every other command, attribute and register is covered.

`Pending(q)` are the fields, with panel and value, that the writes in a list of steps set. That each handler
starts with `Pending = Effect` (`HandlerUnit`) compares two independent translations of the code, the list of
its transfers and what it is for. It is put together from units: `UnitRmw` for a read-modify-write, `UnitThree` for
the three panels, and so on up to the handlers. Then

- `CInv`: what is pending belongs to the request (`JobInv`), the rest of a register in `temp` is what the panel
  has (`TempAgrees`), and a command that has not failed has either set a field or has it pending (`DoneInv`).
- `ScanInv`: the panels agree on the scan bit, and `store_fps` holds the one they agree on.
- `GoalInv`: while nothing has failed, a field is what `goal` has or is `Due` from the handler that runs
  (`DueInv`); what is pending is what `goal` has, but for the sensors, which are switched on and, later in
  the list, off again (`AimInv`, `OffLast`); and `goal` has the same offset in SRAM and in the video path
  (`Wanting`), so that copying one to the other (`CopyInv`) sets what is wanted.

- `SeenInv`: while nothing has failed, a handler has taken the first `n` of its steps and left none out, has seen
  one register for each "get" step among them, and each is what `goal` has (`ReadSoFar`). Nobody else is at work
  while it reads, and what it reads it does not change; so by `DueInv` the register holds what `goal` has
  when the step is taken (`HeadWanted`). The temperature of the JBD4040 is the one handler that writes, reads and leaves
  out steps: `SensorsUp` says that its sensors are on, and say so, as long as it reads them. Every other
  handler either shows nothing or only reads (`HandlerSorts`).

`WriteResult` is the lemma that all of them rest on: what one write changes, field by field. Each kind of step has
its lemma for each of the invariants; `NextEffect`, `NextScan`, `NextGoal` and `NextSeen` collect them. How many "get"
steps a list has up to a place is a cardinality, so that no recursive function stands between the
property and its proof (`GetsCount`).

**`PanelJbd4020Proofs`** proves about `Spec` of `PanelJbd4020`, for every value of `MaxFaults`, `MaxPolls` and
`MaxRefs` that `BoundsAssumption` allows (the last two positive), all seven safety properties of the run:
`JbdTypeCorrect`, `SupplyOrderCorrect`, `AveeOnInitialisedCorrect`, `BoundHasPanelCorrect`,
`BoundIsConfiguredCorrect`, `UnboundIsDarkCorrect`, `OffsetsFromFlashCorrect`. The invariant is

    IInv == JbdTypeOK /\ LineInv /\ CountInv /\ TableInv /\ ConfigInv

- `LineInv` gives the levels and the holders of the lines at each place of probe, remove and
  between bindings, except for lines that user space has set (`driven`), none of which the driver holds. Its hard part is the right driver that failed with AVEE on: it holds
  all three lines, so that its next probe stops at the first one and changes no level, and no
  user can have them.
- `CountInv`: there is a reference to drop from probe on, and polls stay below their limit.
- `TableInv`: as long as `ret` is 0 every panel that counts as valid works and has all parts so far. This
  rules out that a static status of an earlier probe lets a dead panel pass.
- `ConfigInv`: the panels that `default_config` is done with have the settings that it cannot lose
  unnoticed.

`OffsetsFromFlash` is about steps and follows from this invariant (`OffsetsStep`). What user space may do to released lines, any level at
any time, is why `SupplyOrder` speaks of the levels that the driver has set last, and why what is said of the panels of a
bound driver ends when user space sets VDDI or AVDD.

**`DriverLifecycleProofs`** proves about `Spec` of `DriverLifecycle`, for any set of threads and any
`MaxFailures` (`LifeAssumption`), all five invariants of the run: `LifeTypeCorrect`,
`CleanRemoveCorrect`, `ReleasesWhatItHasCorrect`, `NodeServesLiveContextCorrect`, `AveeNeedsRestCorrect`. The
sequences of steps enter through six lemmas (`ProbeSequence` to `LineLast`): which step acquires
what, that an error path releases only what an earlier step acquires, that remove releases
everything once. The invariant is

    IInv == LifeTypeOK /\ ServesInv /\ LinesInv /\ HasInv /\ PutInv /\ CleanRemove

- `ServesInv`: the clients or the context are there from their step of probe on, and the panel
  driver's remove has taken the device node away before the context goes.
- `LinesInv`: how far `i2c-jbd4040` has come with its lines, at each step of probe, and that remove
  switches AVEE off first.
- `HasInv`: a binding has only what its driver asks for, and in remove nothing that is
  released already; so at the end nothing is left that remove knows of.
- `PutInv`: what remove releases without looking has been acquired, if probe gives up on failures.
- `CleanRemove` is needed for `PutInv`: a failure that is not counted comes from something left behind.

`GetHolds`, `FailHolds`, `ProbeStepHolds`, `RemoveStepHolds`, `RemoveReturnsHolds`, `CallHolds` and `ThreadStep`
prove that each kind of step keeps the invariant.

## What is only model-checked

- The liveness properties `PrepareOutcome`, `TableEndRestoresVideo`, `ProbeEnds`, `IoctlReturns` and `IoctlEnds`
  (liveness under fairness is out of the prover's reach).
- The scenarios of `attrs_colours` whose users do not keep apart (discipline "none").
- The properties that are expected to fail, which a counterexample settles.

## What is not modelled

- Delays: `msleep` between steps. A step may take any time; that a delay is long enough is a
  matter of the panel's data sheet.
- Formatting and parsing of attributes (a request is modelled once it is parsed), and, in
  `panel-jbd4040.c`, the show handlers that only read registers. `temperature_show` is modelled
  because it switches the sensors.
- The arithmetic from sensor codes to degrees (`jbd4040_calc_temp_x100`).
- Partial effects of a failed transfer: a failed write has not reached any panel.
- The contents of the Demura SRAM; only when and to whom blocks are written.
- The register values of `jbd4040_init_registers` in `i2c-jbd4040.c`, whose failure is only logged (it is
  one step of `DriverLifecycle`).
- What the ioctl commands inside `#if 0` in `i2c-jbd4040.c` would do. As compiled they return success having done nothing, and
  so they do in `I2cJbd`. A sysfs line of that driver that names a panel twice, or not in the order red, green, blue.
- The second and third copies of the attribute groups of `panel-jbd4040.c` (their handlers are the
  same), which `DriverLifecycle` counts as one.
- `jbd4020-60Hz/` and `jbd4020-75Hz/`: copies of the right driver with another display mode.
- That two threads exclude each other across `mutex_init`, which probe calls after it has published the
  device node: `DriverLifecycle` has the step, and `I2cJbd` starts after it.
- Two attributes of the I2C drivers at once (so a second `store_fps` between the steps of a first one), or one next to an ioctl: they take no lock, and
  `attrs_race` shows for the same code in `panel-jbd4040.c` what happens.
- `jbd4040-reinit.sh` as a module of its own: what it does to the driver, remove and probe in turn, is
  any behaviour of `DriverLifecycle`. `jbd4040-reg`, `v-gpio-*` and the wifi scripts share no state
  with the rest. `panel-ws-800x480`, qasync, recipes and images hold no logic of this repository.

## What is left

- Argument parsing (`color value` pairs, offsets with optional numbers) and the conversion of
  temperatures as functions, against a reference definition over bounded inputs.
- `I2cJbd` composed with `DriverLifecycle`, with handlers whose transfers go on while the driver is
  unbound.
