---------------------------- MODULE PanelJbd4020 ----------------------------
(***************************************************************************)
(* panel-jbd-jbd4020-right.c and panel-jbd-jbd4020-left.c: probe with its  *)
(* supplies, its initialisation and its wait loops, remove, and the four   *)
(* DRM callbacks.  The driver is bound, unbound and bound again; panels    *)
(* break and come back in between; GPIOs and the I2C adapter may not be    *)
(* there yet; transfers get lost; user space takes and sets GPIOs that     *)
(* nobody holds.                                                           *)
(*                                                                         *)
(* The right driver gets its GPIOs with gpiod_get and puts them at the end *)
(* of probe, the left one with devm_gpiod_get, which releases them when    *)
(* probe fails and after remove.  jbd_panel_status is static: it outlives  *)
(* the binding.                                                            *)
(***************************************************************************)
EXTENDS Naturals, FiniteSets

CONSTANTS
  MaxFaults,   \* bound: transfers to working panels that fail
  MaxPolls,    \* polls of a wait loop (100 in the code)
  MaxRefs      \* bound: references to the adapter that pile up

ASSUME BoundsAssumption ==
  MaxFaults \in Nat /\ MaxPolls \in Nat \ {0} /\ MaxRefs \in Nat \ {0}

Panel == {"R", "G", "B"}
Line  == {"vddi", "avdd", "avee"}

(* Tables of registers in the order reg_init writes them; 8 is             *)
(* jbd4020_flash_id_read.  After 5 (gamma) and 6 (Demura) it waits until   *)
(* the panels have loaded.                                                 *)
Parts == 8

(* What default_config sets in a panel, in order: luminance, current, flip *)
(* and mirror in SRAM and in the video path, offset in both.               *)
Settings == {"lum", "cur", "flip", "voflip", "offset", "vooffset"}

VARIABLES
  side,      \* "right" or "left": which of the two drivers
  pc,        \* what the driver does
  own,       \* own[l]: who holds GPIO l: "driver", "user", "nobody"
  level,     \* level[l]: its value
  driven,    \* history: the GPIOs whose level user space has set last
  refs,      \* references to the I2C adapter
  alive,     \* the panels that work
  status,    \* jbd_panel_status: the panels the driver believes valid
  stage,     \* stage[p]: how many parts panel p has got; 0 if one is missing
  set,       \* set[p]: the settings panel p has got
  part,      \* the part that reg_init writes next
  waiting,   \* the panels whose wait loop has not ended
  polls,     \* wait_cnt of the loop that runs
  err,       \* ret is not 0
  offsets,   \* where the offsets in jbd_panel_cfg come from
  late,      \* the panels whose flash DMA nobody has seen complete
  prepared, enabled,
  faults     \* transfers that have failed

panels == <<alive, stage, set>>
lines  == <<level, driven>>
cfg    == <<offsets, late>>
vars == <<side, pc, own, lines, refs, panels, status, part, waiting, polls, err,
          cfg, prepared, enabled, faults>>

-----------------------------------------------------------------------------
Powered == level["vddi"] = 1 /\ level["avdd"] = 1

(* Transfers to the panels in lost fail: all to dead ones, and some more.  *)
Losing(to, lost) ==
  /\ lost \subseteq to
  /\ to \ alive \subseteq lost
  /\ ~ Powered => lost = to
  /\ LET more == IF Powered THEN Cardinality(lost \cap alive) ELSE 0 IN
     /\ faults + more <= MaxFaults
     /\ faults' = faults + more

(* A panel that loses a supply forgets its registers.                      *)
Drive(l, v) ==
  /\ level' = [level EXCEPT ![l] = v]
  /\ IF l # "avee" /\ v = 0
     THEN stage' = [p \in Panel |-> 0] /\ set' = [p \in Panel |-> {}]
     ELSE UNCHANGED <<stage, set>>
  /\ UNCHANGED alive

(* gpiod_set_value by the driver, which does not ask who holds the line.   *)
SetLine(l, v) == Drive(l, v) /\ driven' = driven \ {l}

(* Lines go back to nobody; no level changes.                              *)
Release == own' = [l \in Line |-> IF own[l] = "driver" THEN "nobody" ELSE own[l]]

(* Mutant: the left driver keeps its lines.                                *)
ProbeFailsKeeps == pc' = "unbound" /\ UNCHANGED own

(* Probe returns an error.  devm releases what the left driver has.        *)
ProbeFails ==
  /\ pc' = "unbound"
  /\ IF side = "left" THEN Release ELSE UNCHANGED own

Init ==
  /\ side \in {"right", "left"}
  /\ pc = "unbound"
  /\ own = [l \in Line |-> "nobody"]
  /\ level = [l \in Line |-> 0] /\ driven = {}
  /\ refs = 0
  /\ alive \in SUBSET Panel
  /\ status = [p \in Panel |-> FALSE]
  /\ stage = [p \in Panel |-> 0]
  /\ set = [p \in Panel |-> {}]
  /\ part = 1 /\ waiting = {} /\ polls = 0 /\ err = FALSE
  /\ offsets = "table" /\ late = {}
  /\ prepared = FALSE /\ enabled = FALSE
  /\ faults = 0

-----------------------------------------------------------------------------
(* probe.                                                                  *)

Unused == <<side, panels, status, part, waiting, polls, cfg, faults>>

(* The context is new.  Without the adapter, probe is deferred.            *)
ProbeCall ==
  /\ pc = "unbound"
  /\ prepared' = FALSE /\ enabled' = FALSE /\ err' = FALSE
  /\ \/ pc' = "vddi" /\ refs < MaxRefs /\ refs' = refs + 1 /\ UNCHANGED own
     \/ UNCHANGED <<pc, own, refs>>
  /\ UNCHANGED <<lines, Unused>>

AfterLine == [vddi |-> "avdd", avdd |-> "avee", avee |-> "power"]

(* The right driver gets its lines low, the left one the two supplies      *)
(* high.  A line that somebody holds is busy, the right driver's own too,  *)
(* and a line may not be there yet.                                        *)
GpioGet ==
  /\ pc \in Line
  /\ \/ /\ own[pc] = "nobody"
        /\ own' = [own EXCEPT ![pc] = "driver"]
        /\ SetLine(pc, IF side = "left" /\ pc # "avee" THEN 1 ELSE 0)
        /\ pc' = AfterLine[pc]
     \/ ProbeFails /\ UNCHANGED <<lines, panels>>
  /\ UNCHANGED <<side, refs, status, part, waiting, polls, err, cfg, prepared, enabled, faults>>

(* VDDI, then AVDD.                                                        *)
PowerEn ==
  /\ \/ pc = "power" /\ SetLine("vddi", 1) /\ pc' = "power2"
     \/ pc = "power2" /\ SetLine("avdd", 1) /\ pc' = "status"
  /\ UNCHANGED <<side, own, refs, status, part, waiting, polls, err, cfg, prepared, enabled, faults>>

(* A panel that answers is valid; one that does not keeps the status it    *)
(* has from an earlier probe.                                              *)
GetPanelStatus ==
  /\ pc = "status"
  /\ \E lost \in SUBSET Panel :
       /\ Losing(Panel, lost)
       /\ status' = [p \in Panel |-> status[p] \/ p \notin lost]
  /\ pc' = "valid"
  /\ UNCHANGED <<side, own, lines, refs, panels, part, waiting, polls, err, cfg, prepared, enabled>>

(* Mutant: the right driver goes on without a panel, like the left one.    *)
CheckValidNever ==
  /\ pc = "valid"
  /\ pc' = "init" /\ part' = 1
  /\ UNCHANGED <<side, own, lines, refs, panels, status, waiting, polls, err, cfg, prepared, enabled, faults>>

CheckValid ==
  /\ pc = "valid"
  /\ IF side = "right" /\ \A p \in Panel : ~ status[p]
     THEN pc' = "free" /\ UNCHANGED part
     ELSE pc' = "init" /\ part' = 1
  /\ UNCHANGED <<side, own, lines, refs, panels, status, waiting, polls, err, cfg, prepared, enabled, faults>>

(* No panel: VDDI off, then AVDD, and probe returns.                       *)
PowerFree ==
  /\ \/ pc = "free" /\ SetLine("vddi", 0) /\ pc' = "free2" /\ UNCHANGED own
     \/ pc = "free2" /\ SetLine("avdd", 0) /\ ProbeFails
  /\ UNCHANGED <<side, refs, status, part, waiting, polls, err, cfg, prepared, enabled, faults>>

Valid == {p \in Panel : status[p]}

(* Part 1 starts the panel anew, and what was set before no longer counts. *)
Deliver(to, lost) ==
  /\ stage' = [p \in Panel |->
       IF p \notin to THEN stage[p]
       ELSE IF p \notin lost /\ (part = 1 \/ stage[p] = part - 1) THEN part ELSE 0]
  /\ set' = [p \in Panel |-> IF p \in to /\ part = 1 THEN {} ELSE set[p]]

(* Mutant: ret is that of the last part, not of all.                       *)
RegListWriteLastRet ==
  /\ pc = "init" /\ part <= Parts
  /\ \E lost \in SUBSET Valid :
       /\ Losing(Valid, lost)
       /\ Deliver(Valid, lost)
       /\ err' = (lost # {})
  /\ part' = part + 1
  /\ IF part \in {5, 6} THEN pc' = "wait" /\ waiting' = Valid /\ polls' = 0
                        ELSE UNCHANGED <<pc, waiting, polls>>
  /\ UNCHANGED <<side, own, lines, refs, alive, status, cfg, prepared, enabled>>

(* One part goes to the valid panels; the others count as written.         *)
RegListWrite ==
  /\ pc = "init" /\ part <= Parts
  /\ \E lost \in SUBSET Valid :
       /\ Losing(Valid, lost)
       /\ Deliver(Valid, lost)
       /\ err' = (err \/ lost # {})
  /\ part' = part + 1
  /\ IF part \in {5, 6} THEN pc' = "wait" /\ waiting' = Valid /\ polls' = 0
                        ELSE UNCHANGED <<pc, waiting, polls>>
  /\ UNCHANGED <<side, own, lines, refs, alive, status, cfg, prepared, enabled>>

First(ps) == IF "R" \in ps THEN "R" ELSE IF "G" \in ps THEN "G" ELSE "B"

(* Mutant: one poll too many. *)
LastPollLate(n) == n = MaxPolls + 1

LastPoll(n) == n = MaxPolls

(* Mutant: polls are not counted.                                          *)
WaitPollUncounted ==
  /\ pc = "wait" /\ waiting # {}
  /\ \E lost \in SUBSET {First(waiting)}, loaded \in BOOLEAN :
       /\ Losing({First(waiting)}, lost)
       /\ err' = (err \/ lost # {})
       /\ IF ~ err' /\ loaded THEN waiting' = waiting \ {First(waiting)} ELSE UNCHANGED waiting
  /\ UNCHANGED <<side, pc, own, lines, refs, panels, status, part, polls, cfg, prepared, enabled>>

(* One poll.  The loop for a panel ends when it has loaded and nothing has *)
(* failed so far, anywhere; after the last poll reg_init gives up.         *)
WaitPoll ==
  /\ pc = "wait" /\ waiting # {}
  /\ \E lost \in SUBSET {First(waiting)}, loaded \in BOOLEAN :
       /\ Losing({First(waiting)}, lost)
       /\ err' = (err \/ lost # {})
       /\ IF ~ err' /\ loaded
          THEN waiting' = waiting \ {First(waiting)} /\ polls' = 0 /\ UNCHANGED <<pc, own>>
          ELSE /\ UNCHANGED waiting
               /\ polls' = polls + 1
               /\ IF LastPoll(polls') THEN ProbeFails ELSE UNCHANGED <<pc, own>>
  /\ UNCHANGED <<side, lines, refs, panels, status, part, cfg, prepared, enabled>>

WaitDone ==
  /\ pc = "wait" /\ waiting = {}
  /\ pc' = "init"
  /\ UNCHANGED <<side, own, lines, refs, panels, status, part, waiting, polls, err, cfg, prepared,
                 enabled, faults>>

(* The end of reg_init; on an error probe leaves VDDI and AVDD on.         *)
RegInitDone ==
  /\ pc = "init" /\ part > Parts
  /\ IF err THEN ProbeFails ELSE pc' = "avee_en" /\ UNCHANGED own
  /\ UNCHANGED <<side, lines, refs, panels, status, part, waiting, polls, err, cfg, prepared, enabled, faults>>

AveeEn ==
  /\ pc = "avee_en"
  /\ SetLine("avee", 1)
  /\ pc' = IF side = "left" THEN "readcfg" ELSE "config"
  /\ waiting' = Valid /\ polls' = 0
  /\ UNCHANGED <<side, own, refs, status, part, err, cfg, prepared, enabled, faults>>

(* read_default_cfg starts a DMA from the flash in every valid panel and   *)
(* polls them in turn.  A read that fails leaves the value as it was: 0,   *)
(* which ends the loop, or that of the poll before.  After the last poll   *)
(* it goes on all the same.                                                *)
CfgPoll ==
  /\ pc = "readcfg" /\ waiting # {}
  /\ LET p == First(waiting) IN
     \E lost \in SUBSET {p}, loaded \in BOOLEAN :
       /\ Losing({p}, lost)
       /\ IF \/ lost = {} /\ loaded
             \/ lost # {} /\ polls = 0
             \/ LastPoll(polls + 1)
          THEN /\ waiting' = waiting \ {p} /\ polls' = 0
               /\ late' = IF lost = {} /\ loaded THEN late ELSE late \cup {p}
          ELSE UNCHANGED <<waiting, late>> /\ polls' = polls + 1
  /\ UNCHANGED <<side, pc, own, lines, refs, panels, status, part, err, offsets, prepared, enabled>>

(* Mutant: the panels that are there are enough.                           *)
CfgOffsetsFewPanels ==
  /\ pc = "readcfg" /\ waiting = {}
  /\ \E lost \in SUBSET Valid, written \in BOOLEAN :
       /\ Losing(Valid, lost)
       /\ offsets' = IF lost = {} /\ written THEN "flash" ELSE offsets
  /\ late' = {}
  /\ pc' = "config" /\ waiting' = Valid
  /\ UNCHANGED <<side, own, lines, refs, panels, status, part, polls, err, prepared, enabled>>

(* The offsets count if none of the three values is 0 or all ones.  The    *)
(* panels in lost miss a transfer that starts the DMA, or the read of the  *)
(* result: the value is then what the memory held before, or the status    *)
(* register that the polls left.  A DMA that was not seen complete may     *)
(* have come to its end by now, or not.  Nobody looks at any of this.      *)
CfgOffsets ==
  /\ pc = "readcfg" /\ waiting = {}
  /\ \E lost \in SUBSET Valid, written \in BOOLEAN :
       /\ Losing(Valid, lost)
       /\ IF Valid = Panel /\ written
          THEN \/ offsets' = "flash" /\ lost = {}
               \/ offsets' = "other" /\ (lost # {} \/ late # {})
          ELSE UNCHANGED offsets
  /\ late' = {}
  /\ pc' = "config" /\ waiting' = Valid
  /\ UNCHANGED <<side, own, lines, refs, panels, status, part, polls, err, prepared, enabled>>

Transfer == Settings \cup {"readflip", "readvo", "readvo2"}

(* Functions return when a read fails; jbd4020_panel_flip_set and          *)
(* jbd4020_panel_offset_set let the result of the read that follows        *)
(* replace that of the write to SRAM.                                      *)
Skipped(lost) ==
  (IF "readflip" \in lost THEN {"flip", "readvo", "voflip"} ELSE {})
  \cup (IF "readvo" \in lost THEN {"voflip"} ELSE {})
  \cup (IF "readvo2" \in lost THEN {"vooffset"} ELSE {})

(* Mutant: offset_set returns 0 when its last write fails.                 *)
UnnoticedMore == {"flip", "offset", "vooffset"}

Unnoticed == {"flip", "offset"}

(* The settings of one panel: creg_set, lum_set, flip_set, offset_set.     *)
ConfigPanel ==
  /\ pc = "config" /\ waiting # {}
  /\ LET p == First(waiting) IN
     \E lost \in SUBSET Transfer :
       /\ lost \cap Skipped(lost) = {}
       /\ IF p \in alive /\ Powered
          THEN faults' = faults + Cardinality(lost) /\ faults' <= MaxFaults
          ELSE lost = Transfer \ Skipped(lost) /\ UNCHANGED faults
       /\ set' = [set EXCEPT ![p] = @ \cup (Settings \ (lost \cup Skipped(lost)))]
       /\ err' = (err \/ lost \ Unnoticed # {})
       /\ waiting' = waiting \ {p}
  /\ UNCHANGED <<side, pc, own, lines, refs, alive, stage, status, part, polls, cfg,
                 prepared, enabled>>

(* The right driver gives up on an error and leaves AVEE on; the left one  *)
(* does not look at what default_config returns.                           *)
ConfigDone ==
  /\ pc = "config" /\ waiting = {}
  /\ err' = FALSE
  /\ IF side = "right" /\ err THEN ProbeFails ELSE pc' = "attach" /\ UNCHANGED own
  /\ UNCHANGED <<side, lines, refs, panels, status, part, waiting, polls, cfg, prepared,
                 enabled, faults>>

(* drm_panel_add and mipi_dsi_attach.  The right driver then puts its      *)
(* lines, so that user space can have them.                                *)
Attach ==
  /\ pc = "attach"
  /\ \/ pc' = "bound" /\ IF side = "right" THEN Release ELSE UNCHANGED own
     \/ pc' = "down_avee" /\ UNCHANGED own
  /\ UNCHANGED <<lines, refs, err, prepared, enabled, Unused>>

-----------------------------------------------------------------------------
(* While the driver is bound, and remove.                                  *)

Remove ==
  /\ pc = "bound"
  /\ pc' = "down_avee"
  /\ UNCHANGED <<own, lines, refs, err, prepared, enabled, Unused>>

(* Mutant: the supplies go off in the order in which they came.            *)
PowerDownInOrder ==
  /\ \/ pc = "down_avee" /\ SetLine("vddi", 0) /\ pc' = "down_avdd" /\ UNCHANGED <<own, refs>>
     \/ pc = "down_avdd" /\ SetLine("avdd", 0) /\ pc' = "down_vddi" /\ UNCHANGED <<own, refs>>
     \/ pc = "down_vddi" /\ SetLine("avee", 0) /\ pc' = "unbound" /\ Release /\ refs' = refs - 1
  /\ UNCHANGED <<side, status, part, waiting, polls, err, cfg, prepared, enabled, faults>>

(* AVEE, AVDD, VDDI off, whoever holds the lines by now; then the driver   *)
(* lets go of the adapter and of the lines it still has.                   *)
PowerDown ==
  /\ \/ pc = "down_avee" /\ SetLine("avee", 0) /\ pc' = "down_avdd" /\ UNCHANGED <<own, refs>>
     \/ pc = "down_avdd" /\ SetLine("avdd", 0) /\ pc' = "down_vddi" /\ UNCHANGED <<own, refs>>
     \/ pc = "down_vddi" /\ SetLine("vddi", 0) /\ pc' = "unbound" /\ Release /\ refs' = refs - 1
  /\ UNCHANGED <<side, status, part, waiting, polls, err, cfg, prepared, enabled, faults>>

(* The callbacks only keep their flags; enable writes the display port of  *)
(* the valid panels and sets its flag whatever came of that.               *)
Prepare ==
  /\ pc = "bound" /\ ~ prepared
  /\ prepared' = TRUE
  /\ UNCHANGED <<pc, own, lines, refs, err, enabled, Unused>>

Enable ==
  /\ pc = "bound" /\ prepared /\ ~ enabled
  /\ \E lost \in SUBSET Valid : Losing(Valid, lost)
  /\ enabled' = TRUE
  /\ UNCHANGED <<side, pc, own, lines, refs, panels, status, part, waiting, polls, err, cfg, prepared>>

Disable ==
  /\ pc = "bound" /\ enabled
  /\ enabled' = FALSE
  /\ UNCHANGED <<pc, own, lines, refs, err, prepared, Unused>>

Unprepare ==
  /\ pc = "bound" /\ prepared /\ ~ enabled
  /\ prepared' = FALSE
  /\ UNCHANGED <<pc, own, lines, refs, err, enabled, Unused>>

-----------------------------------------------------------------------------
(* Everybody else.                                                         *)

(* User space takes lines that nobody holds, as they are, sets their       *)
(* levels, and returns them.                                               *)
UserLine ==
  \E l \in Line :
    \/ /\ \/ own[l] = "nobody" /\ own' = [own EXCEPT ![l] = "user"]
          \/ own[l] = "user" /\ own' = [own EXCEPT ![l] = "nobody"]
       /\ UNCHANGED <<pc, lines, refs, err, prepared, enabled, Unused>>
    \/ /\ own[l] = "user"
       /\ \E v \in {0, 1} : Drive(l, v)
       /\ driven' = driven \cup {l}
       /\ UNCHANGED <<side, pc, own, refs, status, part, waiting, polls, err, cfg, prepared, enabled, faults>>

(* Panels are taken away and put back, without supplies.                   *)
Replace ==
  /\ pc = "unbound" /\ \A l \in Line : level[l] = 0
  /\ alive' \in SUBSET Panel
  /\ UNCHANGED <<side, pc, own, lines, refs, stage, set, status, part, waiting, polls, err,
                 cfg, prepared, enabled, faults>>

Probe ==
  \/ GpioGet \/ PowerEn \/ GetPanelStatus \/ CheckValid \/ PowerFree
  \/ RegListWrite \/ WaitPoll \/ WaitDone \/ RegInitDone \/ AveeEn
  \/ CfgPoll \/ CfgOffsets \/ ConfigPanel \/ ConfigDone \/ Attach

Next ==
  \/ ProbeCall \/ Probe \/ Remove \/ PowerDown
  \/ Prepare \/ Enable \/ Disable \/ Unprepare
  \/ UserLine \/ Replace

Spec == Init /\ [][Next]_vars

(* Probe and remove run on a kernel thread until they return.              *)
FairSpec == Spec /\ WF_vars(Probe \/ PowerDown)

-----------------------------------------------------------------------------
(* Properties.                                                             *)

ProbePc == {"vddi", "avdd", "avee", "power", "power2", "status", "valid", "free", "free2",
            "init", "wait", "avee_en", "readcfg", "config", "attach"}
DownPc  == {"down_avee", "down_avdd", "down_vddi"}

(* Types of the driver's state, the lines and the panels.                  *)
JbdTypeOK ==
  /\ side \in {"right", "left"}
  /\ pc \in ProbePc \cup DownPc \cup {"unbound", "bound"}
  /\ own \in [Line -> {"driver", "user", "nobody"}]
  /\ level \in [Line -> {0, 1}] /\ driven \in SUBSET Line
  /\ refs \in 0..MaxRefs
  /\ alive \in SUBSET Panel
  /\ status \in [Panel -> BOOLEAN]
  /\ stage \in [Panel -> 0..Parts]
  /\ set \in [Panel -> SUBSET Settings]
  /\ part \in 1..(Parts + 1) /\ waiting \in SUBSET Panel /\ polls \in 0..MaxPolls
  /\ err \in BOOLEAN /\ offsets \in {"table", "flash", "other"} /\ late \in SUBSET Panel
  /\ prepared \in BOOLEAN /\ enabled \in BOOLEAN
  /\ faults \in 0..MaxFaults

(* The panels emit with AVEE.  It is on only over panels that have got     *)
(* every table, whatever failed on the way and in earlier probes: each     *)
(* panel the driver believes valid has all parts (probe, reg_init), as     *)
(* long as user space has set no level.                                    *)
AveeOnInitialised ==
  level["avee"] = 1 /\ driven = {} => \A p \in Valid : stage[p] = Parts

(* AVEE that the driver has switched on finds VDDI and AVDD on, over any   *)
(* number of probes, failures and removes; a supply can only be missing    *)
(* that user space itself has set, once the driver has put the line        *)
(* (power_en, avee_en, power_free, power_down).                            *)
SupplyOrder ==
  level["avee"] = 1 /\ "avee" \notin driven =>
    \A l \in {"vddi", "avdd"} \ driven : level[l] = 1

(* No supply of the panels has been touched by user space.                 *)
Untouched == driven \cap {"vddi", "avdd"} = {}

(* A right driver is bound only with a working, initialised panel, unless  *)
(* user space has set a supply since; and any bound driver has its         *)
(* reference to the adapter, which remove drops.                           *)
BoundHasPanel ==
  pc = "bound" =>
    /\ refs > 0
    /\ side = "right" /\ Untouched => \E p \in Valid \cap alive : stage[p] = Parts

(* A right driver is bound only if every valid panel has its luminance,    *)
(* current, and flip and offset in the video path, unless user space has   *)
(* set a supply since.  (A lost write to SRAM goes unnoticed.)             *)
BoundIsConfigured ==
  pc = "bound" /\ side = "right" /\ Untouched =>
    \A p \in Valid : {"lum", "cur", "voflip", "vooffset"} \subseteq set[p]

(* An unbound left driver holds no line and leaves AVEE off.  An unbound   *)
(* right driver leaves AVEE on only while it keeps the line.  Otherwise it *)
(* is user space that has switched AVEE on, also during remove.            *)
UnboundIsDark ==
  pc = "unbound" =>
    /\ side = "left" => \A l \in Line : own[l] # "driver"
    /\ level["avee"] = 1 /\ "avee" \notin driven => side = "right" /\ own["avee"] = "driver"

(* Offsets other than the built-in ones need three panels, and are those   *)
(* of the flash, unless a transfer fails while they are read or a panel's  *)
(* DMA has not been seen complete.                                         *)
OffsetsFromFlash ==
  [][/\ offsets' # offsets => Valid = Panel
     /\ offsets' = "other" /\ offsets # "other" => faults' > faults \/ late # {}]_vars

(* Probe and remove come to an end: every wait loop does.                  *)
ProbeEnds == pc \in ProbePc \cup DownPc ~> pc \in {"unbound", "bound"}

=============================================================================
