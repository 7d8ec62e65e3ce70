--------------------------- MODULE PanelJbd4040 ----------------------------
(***************************************************************************)
(* The DRM callbacks of panel-jbd4040.c: prepare, enable, disable and      *)
(* unprepare, step by step.  A step is one GPIO write, one I2C register    *)
(* access or one assignment to the driver's context, which is where other  *)
(* threads of the kernel can come in between (PanelJbd4040Sysfs adds       *)
(* them).  The delays between steps are not modelled: a step may take any  *)
(* time.  All three GPIOs are present, as in the device trees that bind    *)
(* the driver.                                                             *)
(***************************************************************************)
EXTENDS Jbd4040Chip

CONSTANTS
  MaxFaults,      \* bound: I2C transfers to a working panel that fail
  ParamWrites,    \* may root write the module parameter while running
  CallerOrdered   \* TRUE: callbacks come in the order of the DRM core

ASSUME FaultsAssumption == MaxFaults \in Nat
ASSUME ParamAssumption == ParamWrites \in BOOLEAN
ASSUME CallerAssumption == CallerOrdered \in BOOLEAN

VARIABLES
  rail,       \* logical value of the avdd, avee and reset GPIOs (1 = asserted)
  chip,       \* register files of the panels
  dead,       \* panels that never answer (broken or not connected)
  adap,       \* probe found the I2C adapter
  faults,     \* transient transfer failures so far
  bist_enable,   \* the module parameter (0644: writable in /sys/module)
  prepared, enabled, bist, vid_mode, gamma_val,   \* struct jbd4040_panel_info
  pc,         \* control point of the DRM thread
  todo,       \* writes left in the current block of pc
  ret,        \* jbd4040_init_registers' ret: some latched write failed
  phase       \* the callback an ordered caller makes next

hwVars  == <<rail, chip, dead, adap, faults, bist_enable>>
ctxVars == <<prepared, enabled, bist, vid_mode, gamma_val>>
drmVars == <<pc, todo, ret, phase>>
vars    == <<hwVars, ctxVars, drmVars>>

Line == {"avdd", "avee", "reset"}

Phase == {"prepare", "enable", "disable", "unprepare"}

PrepareLabels == {"prep_avee", "prep_avdd", "prep_reset", "prep_power",
                  "prep_release", "prep_assert", "prep_run",
                  "init", "init_mode", "init_sync", "gamma", "flip",
                  "chk_id0", "chk_id1", "chk_r", "chk_g", "chk_b",
                  "prep_emit", "prep_done", "err_avee", "err_reset", "err_avdd"}
UnprepareLabels == {"unp_avee", "unp_reset", "unp_avdd", "unp_done"}
EnableLabels == {"enable_bist", "enable_video"}
BlockLabels == {"init", "init_mode", "init_sync", "gamma", "flip", "disable"}
                 \cup EnableLabels
Labels == {"idle", "disable"} \cup EnableLabels \cup PrepareLabels \cup UnprepareLabels

-----------------------------------------------------------------------------
(* I2C transfers.                                                          *)

(* The panels answer while AVDD is on and RESET is released.               *)
Up(r) == r.avdd = 1 /\ r.reset = 0

(* A transfer is acknowledged when a panel it is addressed to answers: a   *)
(* broadcast is acknowledged even if some of the panels are dead.          *)
Acks(S) == Up(rail) /\ S \ dead # {}

Ack(w) ==
  /\ Acks(w.to)
  /\ chip' = Written(chip, w, Panel \ dead)
  /\ UNCHANGED faults

Nack(S) ==
  /\ \/ ~Acks(S) /\ UNCHANGED faults
     \/ Acks(S) /\ faults < MaxFaults /\ faults' = faults + 1
  /\ UNCHANGED chip

-----------------------------------------------------------------------------
(* The blocks of register writes.                                          *)

All == Panel

(* jbd4040_init_registers up to its msleep(20), in three blocks: it reads *)
(* bist_enable once before the mode and once more before the sync.         *)
InitWrites ==
  << Latch(All, "SETUP", 1), Latch(All, "DISP_CTL", 1),
     Latch(All, "PL_SYNC", LoadOnly), Latch(All, "DCS_EN", 0) >>

ModeWrites(be) ==
  << Latch(All, "VID_MODE", IF be THEN CommandMode ELSE VideoMode),
     Latch(All, "SETUP", 1) >>

SyncWrites(be) ==
  IF be THEN << Latch(All, "PL_SELF_TEST_CFG", SelfTestOn), Latch(All, "PL_SYNC", SyncAll) >>
        ELSE << Latch(All, "PL_SYNC", SyncAll) >>

(* Mutant: gam_en written one byte too high.                               *)
GammaWritesWrongBit(g) ==
  << Must(All, "GAMMA_LO", g), Must(All, "GAMMA_HI", g), Must(All, "GAM_CFG", 256 * GammaOn) >>

(* jbd4040_update_gamma with the table of gamma g/10: the first failure    *)
(* ends it.                                                                *)
GammaWrites(g) ==
  << Must(All, "GAMMA_LO", g), Must(All, "GAMMA_HI", g), Must(All, "GAM_CFG", GammaOn) >>

(* The upright orientation, one write per colour.                          *)
FlipWrites ==
  << Try({"R"}, "IMG_FLIP", 3), Try({"G"}, "IMG_FLIP", 2), Try({"B"}, "IMG_FLIP", 3) >>

(* Mutant: the video branch leaves a test pattern running.                 *)
EnableWritesKeepTest(be) ==
  << Try(All, "DISP_CTL", 1) >> \o
  (IF be THEN << Try(All, "VID_MODE", CommandMode), Try(All, "PL_SELF_TEST_CFG", SelfTestOn) >>
         ELSE << Try(All, "VID_MODE", VideoMode) >>)
  \o << Try(All, "SETUP", 1), Try(All, "PL_SYNC", SyncAll) >>

(* jbd4040_enable, with bist_enable and without.                           *)
EnableWrites(be) ==
  IF be
  THEN << Try(All, "DISP_CTL", 1), Try(All, "VID_MODE", CommandMode), Try(All, "SETUP", 1),
          Try(All, "PL_SELF_TEST_CFG", SelfTestOn), Try(All, "PL_SYNC", SyncAll) >>
  ELSE << Try(All, "DISP_CTL", 1), Try(All, "PL_SELF_TEST_CFG", 0), Try(All, "SETUP", 1),
          Try(All, "VID_MODE", VideoMode), Try(All, "PL_SYNC", SyncAll) >>

DisableWrites == << Try(All, "DISP_CTL", 0) >>

-----------------------------------------------------------------------------
(* After jbd4040_panel_probe: every GPIO was requested with GPIOD_OUT_LOW, *)
(* the context is zeroed but for gamma_val.                                *)
Init ==
  /\ rail = [l \in Line |-> 0]
  /\ chip = ResetChip
  /\ dead \in SUBSET Panel
  /\ adap \in BOOLEAN
  /\ faults = 0
  /\ bist_enable \in BOOLEAN
  /\ prepared = FALSE /\ enabled = FALSE
  /\ bist = FALSE /\ vid_mode = FALSE /\ gamma_val = 22
  /\ pc = "idle" /\ todo = << >> /\ ret = FALSE
  /\ phase = "prepare"

After == [prepare |-> "enable", enable |-> "disable",
          disable |-> "unprepare", unprepare |-> "prepare"]

(* A callback is called while no other one runs (the DRM core serialises   *)
(* them); an ordered caller cycles through the four.                       *)
Call(f) ==
  /\ pc = "idle"
  /\ CallerOrdered => phase = f
  /\ phase' = After[f]

Goto(a, b) == pc = a /\ pc' = b

(* gpiod_set_value_cansleep between control points a and b.  A panel that  *)
(* loses AVDD or is held in RESET forgets its registers.                   *)
SetLine(a, line, val, b) ==
  /\ Goto(a, b)
  /\ rail' = [rail EXCEPT ![line] = val]
  /\ chip' = IF Up(rail') THEN chip ELSE ResetChip
  /\ UNCHANGED <<dead, adap, faults, bist_enable, ctxVars, todo, ret, phase>>

-----------------------------------------------------------------------------
(* jbd4040_prepare.                                                        *)

PrepareCall ==
  /\ Call("prepare")
  /\ \/ (prepared \/ ~adap) /\ UNCHANGED pc
     \/ ~prepared /\ adap /\ pc' = "prep_avee"
  /\ UNCHANGED <<hwVars, ctxVars, todo, ret>>

PrepareRails ==
  \/ SetLine("prep_avee", "avee", 0, "prep_avdd")
  \/ SetLine("prep_avdd", "avdd", 0, "prep_reset")
  \/ SetLine("prep_reset", "reset", 1, "prep_power")
  \/ SetLine("prep_power", "avdd", 1, "prep_release")
  \/ SetLine("prep_release", "reset", 0, "prep_assert")
  \/ SetLine("prep_assert", "reset", 1, "prep_run")

(* Mutant: ret keeps the outcome of the previous prepare.                  *)
PrepareRunStaleRet ==
  /\ Goto("prep_run", "init")
  /\ rail' = [rail EXCEPT !["reset"] = 0]
  /\ todo' = InitWrites
  /\ UNCHANGED <<chip, dead, adap, faults, bist_enable, ctxVars, ret, phase>>

(* The second release of RESET; jbd4040_init_registers starts.             *)
PrepareRun ==
  /\ Goto("prep_run", "init")
  /\ rail' = [rail EXCEPT !["reset"] = 0]
  /\ todo' = InitWrites
  /\ ret' = FALSE
  /\ UNCHANGED <<chip, dead, adap, faults, bist_enable, ctxVars, phase>>

(* Mutant: ret = instead of ret |=, a later success hides a failure.       *)
BlockWriteLastRet ==
  /\ pc \in BlockLabels /\ todo # << >>
  /\ LET w == Head(todo) IN
     \/ Ack(w) /\ todo' = Tail(todo) /\ ret' = FALSE
     \/ /\ Nack(w.to)
        /\ todo' = IF w.kind = "must" THEN << >> ELSE Tail(todo)
        /\ ret' = (w.kind = "latch")
  /\ UNCHANGED <<rail, dead, adap, bist_enable, ctxVars, pc, phase>>

(* One write of a block; what a failure does depends on the write.         *)
BlockWrite ==
  /\ pc \in BlockLabels /\ todo # << >>
  /\ LET w == Head(todo) IN
     \/ Ack(w) /\ todo' = Tail(todo) /\ UNCHANGED ret
     \/ /\ Nack(w.to)
        /\ todo' = IF w.kind = "must" THEN << >> ELSE Tail(todo)
        /\ ret' = (ret \/ w.kind = "latch")
  /\ UNCHANGED <<rail, dead, adap, bist_enable, ctxVars, pc, phase>>

(* The end of a block of jbd4040_init_registers; the last one returns ret  *)
(* to jbd4040_prepare.                                                     *)
InitBlockEnd ==
  /\ todo = << >>
  /\ \/ Goto("init", "init_mode") /\ todo' = ModeWrites(bist_enable)
     \/ Goto("init_mode", "init_sync") /\ todo' = SyncWrites(bist_enable)
     \/ Goto("init_sync", "gamma") /\ todo' = GammaWrites(22)
     \/ Goto("gamma", "flip") /\ todo' = FlipWrites
     \/ Goto("flip", IF ret THEN "err_avee" ELSE "chk_id0") /\ UNCHANGED todo
  /\ UNCHANGED <<hwVars, ctxVars, ret, phase>>

(* One read of jbd4040_check_panel_status: only its success matters.       *)
Check(a, S, b) ==
  /\ \/ Goto(a, b) /\ Acks(S) /\ UNCHANGED <<chip, faults>>
     \/ Goto(a, "err_avee") /\ Nack(S)
  /\ UNCHANGED <<rail, dead, adap, bist_enable, ctxVars, todo, ret, phase>>

(* Mutant: the blue panel is not asked.                                    *)
CheckPanelStatusNoBlue ==
  \/ Check("chk_id0", All, "chk_id1")
  \/ Check("chk_id1", All, "chk_r")
  \/ Check("chk_r", {"R"}, "chk_g")
  \/ Check("chk_g", {"G"}, "prep_emit")

CheckPanelStatus ==
  \/ Check("chk_id0", All, "chk_id1")
  \/ Check("chk_id1", All, "chk_r")
  \/ Check("chk_r", {"R"}, "chk_g")
  \/ Check("chk_g", {"G"}, "chk_b")
  \/ Check("chk_b", {"B"}, "prep_emit")

PrepareEmit == SetLine("prep_emit", "avee", 1, "prep_done")

PrepareDone ==
  /\ Goto("prep_done", "idle")
  /\ prepared' = TRUE
  /\ UNCHANGED <<hwVars, enabled, bist, vid_mode, gamma_val, todo, ret, phase>>

(* Mutant: the error path leaves AVDD on.                                  *)
ErrPowerOffKeepsAvdd ==
  \/ SetLine("err_avee", "avee", 0, "err_reset")
  \/ SetLine("err_reset", "reset", 1, "idle")

(* err_power_off.                                                          *)
ErrPowerOff ==
  \/ SetLine("err_avee", "avee", 0, "err_reset")
  \/ SetLine("err_reset", "reset", 1, "err_avdd")
  \/ SetLine("err_avdd", "avdd", 0, "idle")

-----------------------------------------------------------------------------
(* jbd4040_enable, jbd4040_disable and jbd4040_unprepare.                  *)

(* Mutant: enable does not ask whether prepare succeeded.                  *)
EnableCallUnprepared ==
  /\ Call("enable")
  /\ \/ enabled /\ UNCHANGED <<pc, todo>>
     \/ /\ ~enabled
        /\ pc' = IF bist_enable THEN "enable_bist" ELSE "enable_video"
        /\ todo' = EnableWrites(bist_enable)
  /\ UNCHANGED <<hwVars, ctxVars, ret>>

EnableCall ==
  /\ Call("enable")
  /\ \/ (~prepared \/ enabled) /\ UNCHANGED <<pc, todo>>
     \/ /\ prepared /\ ~enabled
        /\ pc' = IF bist_enable THEN "enable_bist" ELSE "enable_video"
        /\ todo' = EnableWrites(bist_enable)
  /\ UNCHANGED <<hwVars, ctxVars, ret>>

EnableDone ==
  /\ todo = << >>
  /\ \/ Goto("enable_bist", "idle") /\ bist' = TRUE /\ vid_mode' = FALSE
     \/ Goto("enable_video", "idle") /\ bist' = FALSE /\ vid_mode' = TRUE
  /\ enabled' = TRUE
  /\ UNCHANGED <<hwVars, prepared, gamma_val, todo, ret, phase>>

DisableCall ==
  /\ Call("disable")
  /\ \/ ~enabled /\ UNCHANGED <<pc, todo>>
     \/ enabled /\ pc' = "disable" /\ todo' = DisableWrites
  /\ UNCHANGED <<hwVars, ctxVars, ret>>

DisableDone ==
  /\ Goto("disable", "idle") /\ todo = << >>
  /\ enabled' = FALSE
  /\ UNCHANGED <<hwVars, prepared, bist, vid_mode, gamma_val, todo, ret, phase>>

UnprepareCall ==
  /\ Call("unprepare")
  /\ \/ ~prepared /\ UNCHANGED pc
     \/ prepared /\ pc' = "unp_avee"
  /\ UNCHANGED <<hwVars, ctxVars, todo, ret>>

(* Mutant: AVDD goes before AVEE.                                          *)
UnprepareRailsSwapped ==
  \/ SetLine("unp_avee", "avdd", 0, "unp_reset")
  \/ SetLine("unp_reset", "reset", 1, "unp_avdd")
  \/ SetLine("unp_avdd", "avee", 0, "unp_done")

UnprepareRails ==
  \/ SetLine("unp_avee", "avee", 0, "unp_reset")
  \/ SetLine("unp_reset", "reset", 1, "unp_avdd")
  \/ SetLine("unp_avdd", "avdd", 0, "unp_done")

UnprepareDone ==
  /\ Goto("unp_done", "idle")
  /\ prepared' = FALSE
  /\ UNCHANGED <<hwVars, enabled, bist, vid_mode, gamma_val, todo, ret, phase>>

Calls == PrepareCall \/ EnableCall \/ DisableCall \/ UnprepareCall

(* A callback that runs: everything but the calls.                         *)
Running ==
  \/ PrepareRails \/ PrepareRun \/ BlockWrite \/ InitBlockEnd
  \/ CheckPanelStatus \/ PrepareEmit \/ PrepareDone \/ ErrPowerOff
  \/ EnableDone \/ DisableDone
  \/ UnprepareRails \/ UnprepareDone

(* A write of /sys/module/.../parameters/bist_enable.                      *)
SetParam ==
  /\ ParamWrites
  /\ bist_enable' = ~bist_enable
  /\ UNCHANGED <<rail, chip, dead, adap, faults, ctxVars, drmVars>>

Next == Calls \/ Running \/ SetParam

Spec == Init /\ [][Next]_vars

(* Delays, GPIO writes and I2C transfers all return, so a callback that    *)
(* has started makes progress; nobody has to call one.                     *)
FairSpec == Spec /\ WF_vars(Running)

-----------------------------------------------------------------------------
(* Correctness.                                                            *)

(* The type invariant of the driver's and the panels' state.               *)
TypeOK ==
  /\ rail \in [Line -> {0, 1}]
  /\ chip \in [Panel -> [Stored -> Value]]
  /\ dead \subseteq Panel
  /\ adap \in BOOLEAN
  /\ faults \in 0 .. MaxFaults
  /\ bist_enable \in BOOLEAN
  /\ prepared \in BOOLEAN /\ enabled \in BOOLEAN
  /\ bist \in BOOLEAN /\ vid_mode \in BOOLEAN
  /\ gamma_val \in {0, 10, 22}
  /\ pc \in Labels
  /\ todo \in Seq(Write)
  /\ ret \in BOOLEAN
  /\ phase \in Phase

(* The negative supply is never on over a panel without its logic supply,  *)
(* held in RESET, or with a colour channel that did not answer: "ABORT:    *)
(* AVEE will not be turned ON" in jbd4040_prepare.                         *)
EmitOnlyWhenChecked ==
  rail["avee"] = 1 => rail["avdd"] = 1 /\ rail["reset"] = 0 /\ dead = {}

(* Whichever way a callback returns, the supplies are all on and the       *)
(* driver says prepared, or both switched supplies are off and it does     *)
(* not: jbd4040_prepare's error path undoes whatever was switched on.      *)
ReturnsAllOrNothing ==
  pc = "idle" => /\ rail["avee"] = (IF prepared THEN 1 ELSE 0)
                 /\ rail["avdd"] = rail["avee"]

(* When the negative supply has been switched on, every register write     *)
(* that jbd4040_init_registers accounts for has reached every panel, no    *)
(* matter which transfers failed on the way.                               *)
EmitOnInitialisedPanels ==
  pc = "prep_done" =>
    \A p \in Panel : /\ chip[p]["SETUP"] = 1
                     /\ chip[p]["DISP_CTL"] = 1
                     /\ chip[p]["PL_SYNC"] = SyncAll

(* With the DRM core's order of calls the driver counts the display as     *)
(* enabled only while the panels are lit: an enable after a failed prepare *)
(* is refused, and a disable always comes before the supplies go.          *)
EnabledOnlyLit == CallerOrdered /\ enabled => prepared /\ rail["avee"] = 1

(* What the context says of the mode is what the panels are set to, once   *)
(* an enable has returned, if the caller is ordered and no transfer failed.*)
EnabledAgrees ==
  CallerOrdered /\ enabled /\ pc = "idle" /\ faults = 0 =>
    \A p \in Panel : /\ chip[p]["DISP_CTL"] = 1
                     /\ (chip[p]["VID_MODE"] = VideoMode) = vid_mode
                     /\ (chip[p]["PL_SELF_TEST_CFG"] = SelfTestOn) = bist

(* jbd4040_enable's comment: the display switch is turned on only after    *)
(* AVEE is on and stable.  The code does not keep it: jbd4040_init_        *)
(* registers turns the display on before jbd4040_prepare turns AVEE on.    *)
DisplayOnlyWithAvee ==
  \A p \in Panel : chip[p]["DISP_CTL"] = 1 => rail["avee"] = 1

(* The level of PanelPower that the GPIOs are at.                          *)
Level == IF rail["avee"] = 1 THEN 3
         ELSE IF rail["avdd"] = 0 THEN 0
         ELSE IF rail["reset"] = 1 THEN 1 ELSE 2

Power == INSTANCE PanelPower
           WITH level <- Level, works <- (dead = {}), ready <- prepared

(* The callbacks implement the supply promise of PanelPower.               *)
PowerSequence == Power!PSpec

(* jbd4040_prepare comes to one of two ends: with every panel working and  *)
(* no transfer lost the panel is prepared, with a dead panel everything    *)
(* it had switched on is off again.                                        *)
PrepareOutcome ==
  /\ pc = "prep_avee" /\ dead = {} /\ faults = MaxFaults
       ~> pc = "idle" /\ prepared
  /\ pc = "prep_avee" /\ dead # {}
       ~> pc = "idle" /\ ~prepared /\ rail["avee"] = 0 /\ rail["avdd"] = 0

-----------------------------------------------------------------------------
(* The inductive invariant behind the supply properties: which supplies    *)
(* are on is a function of the control point and of prepared.              *)

Lit ==
  \/ pc \in {"prep_done", "unp_avee"}
  \/ prepared /\ pc \in {"idle", "disable"} \cup EnableLabels

Released ==
  \/ Lit
  \/ pc \in {"prep_assert", "init", "init_mode", "init_sync", "gamma", "flip",
             "chk_id0", "chk_id1", "chk_r", "chk_g", "chk_b", "prep_emit",
             "err_avee", "err_reset", "unp_reset"}

Powered ==
  Released \/ pc \in {"prep_release", "prep_run", "err_avdd", "unp_avdd"}

RailInv ==
  /\ rail["avee"] = IF Lit THEN 1 ELSE 0
  /\ rail["avdd"] = IF Powered THEN 1 ELSE 0
  /\ Powered => rail["reset"] = IF Released THEN 0 ELSE 1
  /\ pc = "prep_power" => rail["reset"] = 1

PreparedInv ==
  /\ pc \in PrepareLabels => ~prepared
  /\ pc \in UnprepareLabels \cup EnableLabels => prepared

(* The colour panels that have answered so far.                            *)
CheckInv ==
  /\ pc \in {"chk_g", "chk_b", "prep_emit"} => "R" \notin dead
  /\ pc \in {"chk_b", "prep_emit"} => "G" \notin dead
  /\ pc = "prep_emit" => "B" \notin dead
  /\ Lit => dead = {}

(* What an ordered caller adds: enabled only between enable and disable.   *)
OrderInv ==
  /\ CallerOrdered /\ enabled =>
       /\ prepared /\ pc \in {"idle", "disable"}
       /\ phase = IF pc = "idle" THEN "disable" ELSE "unprepare"
  /\ CallerOrdered /\ pc \in EnableLabels => phase = "disable"

IInv == TypeOK /\ RailInv /\ PreparedInv /\ CheckInv /\ OrderInv
=============================================================================
