------------------------- MODULE PanelJbd4040Sysfs -------------------------
(***************************************************************************)
(* The sysfs attributes of panel-jbd4040.c that change the display mode,   *)
(* next to the DRM callbacks of PanelJbd4040.                              *)
(*                                                                         *)
(* The attribute group is installed three times and its handlers take no   *)
(* lock, so handlers run in several threads at once and in the middle of a *)
(* DRM callback; they do not look at prepared or enabled either.  A        *)
(* handler that has started is the sequence of steps it still has to take: *)
(* register writes, reads that lead to a write, and assignments to the     *)
(* context.  A read is one step here (the two transfers it is made of are  *)
(* told apart only where that matters).                                    *)
(***************************************************************************)
EXTENDS PanelJbd4040

CONSTANTS
  Threads,       \* threads that write attributes
  Handlers,      \* the attributes they write, a subset of AllHandlers
  Discipline,    \* what user space keeps to, one of Disciplines
  TableChunks    \* bound: length of a Demura table in 1024-byte blocks, which
                 \* are numbered like the values of registers

AllHandlers == {"vid_mode", "bist", "gamma", "refresh_loop", "glb_scan_val",
                "test_demura_table_w", "demura_table"}

(* "none": an attribute is written at any time.  "enabled": only while the *)
(* display is enabled and no DRM callback runs.  "serial": besides, only   *)
(* one handler at a time.                                                  *)
Disciplines == {"none", "enabled", "serial"}

ASSUME SysfsAssumption ==
  /\ Handlers \subseteq AllHandlers
  /\ Discipline \in Disciplines
  /\ TableChunks \in Value \ {0}

VARIABLES
  job,     \* job[t]: the steps thread t's handler has still to take
  blind    \* history: some handler went on after a transfer that failed

sysVars == <<job, blind>>
allVars == <<vars, sysVars>>

-----------------------------------------------------------------------------
(* The steps that are not register writes.                                 *)

Set(field, v)  == [kind |-> "set", field |-> field, val |-> v]
Loop(S, en)    == [kind |-> "loop", from |-> S, en |-> en]
Trigger(S)     == [kind |-> "trigger", to |-> S]

(* Is bit b of v set; v with bit b set; v with bit b cleared.              *)
Bit(v, b)    == (v \div 2^b) % 2 = 1
WithBit(v, b) == IF Bit(v, b) THEN v ELSE v + 2^b
NoBit(v, b)  == IF Bit(v, b) THEN v - 2^b ELSE v

(* Mutant: the wrong field of the context is cleared on the way to Command *)
(* Mode.                                                                   *)
EnterCommandWrongField ==
  << Try(All, "VID_MODE", CommandMode), Try(All, "PL_SYNC", SyncOnce), Set("enabled", FALSE) >>

EnterVideo   == << Try(All, "VID_MODE", VideoMode), Try(All, "PL_SYNC", SyncAll),
                   Set("vid_mode", TRUE) >>
EnterCommand == << Try(All, "VID_MODE", CommandMode), Try(All, "PL_SYNC", SyncOnce),
                   Set("vid_mode", FALSE) >>

(* vid_mode_store.                                                         *)
VidModeStore(v) == IF v THEN EnterVideo ELSE EnterCommand

(* bist_store: "r", "g" and "b" light one panel and switch the others off, *)
(* "w" lights all of them, "0" goes back to Video Mode.                    *)
BistPanel(c, p) ==
  IF c = p THEN << Try({p}, "PL_SELF_TEST_CFG", SelfTestOn), Try({p}, "PL_SYNC", SyncAll) >>
           ELSE << Try({p}, "PL_SELF_TEST_CFG", 0), Try({p}, "DISP_CTL", 0) >>

(* Mutant: the context still says Video Mode.                              *)
BistOnKeepsMode(steps) ==
  << Try(All, "VID_MODE", CommandMode), Try(All, "SETUP", 1), Try(All, "DISP_CTL", 1) >>
  \o steps \o << Set("bist", TRUE) >>

BistOn(steps) ==
  << Try(All, "VID_MODE", CommandMode), Try(All, "SETUP", 1), Try(All, "DISP_CTL", 1) >>
  \o steps \o << Set("bist", TRUE), Set("vid_mode", FALSE) >>

BistOff ==
  << Try(All, "PL_SELF_TEST_CFG", 0), Try(All, "SETUP", 1), Try(All, "DISP_CTL", 1),
     Try(All, "VID_MODE", VideoMode), Try(All, "PL_SYNC", SyncAll),
     Set("bist", FALSE), Set("vid_mode", TRUE) >>

BistStore(c) ==
  CASE c \in Panel -> BistOn(BistPanel(c, "R") \o BistPanel(c, "G") \o BistPanel(c, "B"))
    [] c = "w" -> BistOn(<< Try(All, "PL_SELF_TEST_CFG", SelfTestOn),
                            Try(All, "PL_SYNC", SyncAll) >>)
    [] c = "0" -> BistOff

(* gamma_store.                                                            *)
GammaStore(g) ==
  IF g = 0 THEN << Try(All, "GAM_CFG", 0), Set("gamma_val", 0) >>
           ELSE GammaWrites(g) \o << Set("gamma_val", g) >>

(* glb_scan_val_store for one colour or all of them.                       *)
GlbScanValStore(S) == << Try(S, "SETUP", 1), Trigger(S) >>

(* test_demura_table_w_store: the pattern goes over MIPI DCS, which the    *)
(* handler enables first and leaves enabled.                               *)
TestDemuraTableStore ==
  << Try(All, "VID_MODE", CommandMode), Try(All, "PL_SYNC", SyncOnce),
     Try(All, "DCS_EN", 1), Set("vid_mode", FALSE), Try({"R"}, "DEMURA_SRAM", 1) >>

Lesser(a, b) == IF a < b THEN a ELSE b

(* Mutants: no switch to Command Mode; the end of the table is missed.     *)
DemuraTableWriteNoSwitch(p, off, n) ==
  LET done == Lesser(n, TableChunks - off) IN
  [i \in 1 .. done |-> Must({p}, "DEMURA_SRAM", off + i)]
  \o (IF off + done >= TableChunks THEN EnterVideo ELSE << >>)
DemuraTableWriteOffByOne(p, off, n) ==
  LET done == Lesser(n, TableChunks - off) IN
  (IF vid_mode THEN EnterCommand ELSE << >>)
  \o [i \in 1 .. done |-> Must({p}, "DEMURA_SRAM", off + i)]
  \o (IF off + done > TableChunks THEN EnterVideo ELSE << >>)

(* jbd4040_demura_table_write_channel of n blocks from block off on.       *)
DemuraTableWrite(p, off, n) ==
  LET done == Lesser(n, TableChunks - off) IN
  (IF vid_mode THEN EnterCommand ELSE << >>)
  \o [i \in 1 .. done |-> Must({p}, "DEMURA_SRAM", off + i)]
  \o (IF off + done >= TableChunks THEN EnterVideo ELSE << >>)

(* A user writes an attribute: what its handler sets out to do.            *)
Requests ==
  {VidModeStore(v) : v \in IF "vid_mode" \in Handlers THEN BOOLEAN ELSE {}}
  \cup {BistStore(c) : c \in IF "bist" \in Handlers THEN Panel \cup {"w", "0"} ELSE {}}
  \cup {GammaStore(g) : g \in IF "gamma" \in Handlers THEN {0, 10, 22} ELSE {}}
  \cup {<< Loop({"R"}, en) >> : en \in IF "refresh_loop" \in Handlers THEN BOOLEAN ELSE {}}
  \cup {GlbScanValStore(S) : S \in IF "glb_scan_val" \in Handlers
                                   THEN {All} \cup {{p} : p \in Panel} ELSE {}}
  \cup (IF "test_demura_table_w" \in Handlers THEN {TestDemuraTableStore} ELSE {})
  \cup {DemuraTableWrite(p, off, n) :
          p \in IF "demura_table" \in Handlers THEN Panel ELSE {},
          off \in 0 .. TableChunks - 1, n \in 1 .. TableChunks}

-----------------------------------------------------------------------------
SysInit ==
  /\ Init
  /\ job = [t \in Threads |-> << >>]
  /\ blind = FALSE

NoHandlerRuns == \A t \in Threads : job[t] = << >>
Quiet         == NoHandlerRuns /\ pc = "idle"

(* The DRM thread.  Under a discipline no callback starts while a handler  *)
(* runs.                                                                   *)
DrmStep ==
  /\ pc = "idle" /\ Discipline # "none" => NoHandlerRuns
  /\ Next
  /\ blind' = (blind \/ (faults' # faults /\ todo # << >> /\ Head(todo).kind = "try"))
  /\ UNCHANGED job

MayWrite ==
  /\ adap
  /\ Discipline # "none" => enabled /\ pc = "idle"
  /\ Discipline = "serial" => NoHandlerRuns

StartHandler(t) ==
  /\ job[t] = << >> /\ MayWrite
  /\ \E r \in Requests : job' = [job EXCEPT ![t] = r]
  /\ UNCHANGED <<vars, blind>>

Step(t, kind) == job[t] # << >> /\ Head(job[t]).kind \in kind

HandlerWrite(t) ==
  /\ Step(t, {"try", "must"})
  /\ LET w == Head(job[t]) IN
     \/ /\ Ack(w)
        /\ job' = [job EXCEPT ![t] = Tail(@)]
        /\ UNCHANGED blind
     \/ /\ Nack(w.to)
        /\ job' = [job EXCEPT ![t] = IF w.kind = "must" THEN << >> ELSE Tail(@)]
        /\ blind' = (blind \/ w.kind = "try")
  /\ UNCHANGED <<rail, dead, adap, bist_enable, ctxVars, drmVars>>

HandlerSet(t) ==
  /\ Step(t, {"set"})
  /\ LET s == Head(job[t]) IN
     /\ bist' = IF s.field = "bist" THEN s.val ELSE bist
     /\ vid_mode' = IF s.field = "vid_mode" THEN s.val ELSE vid_mode
     /\ gamma_val' = IF s.field = "gamma_val" THEN s.val ELSE gamma_val
  /\ job' = [job EXCEPT ![t] = Tail(@)]
  /\ UNCHANGED <<hwVars, prepared, enabled, drmVars, blind>>

(* REG_PL_SYNC of a panel that S addresses.                                *)
SyncOf(S) == {chip[p]["PL_SYNC"] : p \in S \ dead}

(* A panel that keeps taking frames with the refresh loop as en says, the  *)
(* loop bit of v set or cleared and glb_sync pulsed.                       *)
Looping(v, en) == WithBit(IF en THEN WithBit(v, 2) ELSE NoBit(v, 2), 0)

(* Mutant: the default leaves load_en and load_1t out.                     *)
RefreshLoopStoreBareDefault(t) ==
  /\ Step(t, {"loop"})
  /\ LET s == Head(job[t])
         WriteBack(v) == job' = [job EXCEPT ![t] = << Try(All, "PL_SYNC", Looping(v, s.en)) >>]
     IN \/ Acks(s.from) /\ UNCHANGED faults /\ \E v \in SyncOf(s.from) : WriteBack(v)
        \/ /\ Nack(s.from)
           /\ IF s.from = All THEN WriteBack(0)
                              ELSE job' = [job EXCEPT ![t] = << Loop(All, s.en) >>]
  /\ UNCHANGED <<rail, chip, dead, adap, bist_enable, ctxVars, drmVars, blind>>

(* refresh_loop_store reads the red panel's REG_PL_SYNC, if that fails the *)
(* broadcast address, if that fails too it takes a default; then it writes *)
(* the value with the loop bit set or cleared to all panels.               *)
RefreshLoopStore(t) ==
  /\ Step(t, {"loop"})
  /\ LET s == Head(job[t])
         WriteBack(v) == job' = [job EXCEPT ![t] = << Try(All, "PL_SYNC", Looping(v, s.en)) >>]
     IN \/ Acks(s.from) /\ UNCHANGED faults /\ \E v \in SyncOf(s.from) : WriteBack(v)
        \/ /\ Nack(s.from)
           /\ IF s.from = All THEN WriteBack(IF s.en THEN 15 ELSE 11)
                              ELSE job' = [job EXCEPT ![t] = << Loop(All, s.en) >>]
  /\ UNCHANGED <<rail, chip, dead, adap, bist_enable, ctxVars, drmVars, blind>>

(* jbd4040_trigger_sync: pulse glb_sync on top of what REG_PL_SYNC holds.  *)
TriggerSync(t) ==
  /\ Step(t, {"trigger"})
  /\ LET S == Head(job[t]).to
         WriteBack(v) == job' = [job EXCEPT ![t] = << Try(S, "PL_SYNC", WithBit(v, 0)) >>]
     IN \/ /\ Acks(S) /\ UNCHANGED faults
           /\ \E v \in SyncOf(S) : WriteBack(IF v = 0 THEN SyncAll ELSE v)
        \/ Nack(S) /\ WriteBack(SyncAll)
  /\ UNCHANGED <<rail, chip, dead, adap, bist_enable, ctxVars, drmVars, blind>>

HandlerStep(t) == HandlerWrite(t) \/ HandlerSet(t) \/ RefreshLoopStore(t) \/ TriggerSync(t)

SysNext == DrmStep \/ \E t \in Threads : StartHandler(t) \/ HandlerStep(t)

SysSpec == SysInit /\ [][SysNext]_allVars

(* A handler that runs goes on, as the transfers it waits for end.         *)
SysFairSpec ==
  SysSpec /\ WF_allVars(Running /\ DrmStep) /\ \A t \in Threads : WF_allVars(HandlerStep(t))

-----------------------------------------------------------------------------
(* Correctness.                                                            *)

(* The type invariant: every handler has register writes, assignments and  *)
(* reads to do, and they are within the panels' registers.                 *)
SysTypeOK ==
  /\ TypeOK
  /\ blind \in BOOLEAN
  /\ \A t \in Threads : \A i \in DOMAIN job[t] :
       LET s == job[t][i] IN
       \/ s.kind \in {"try", "must"} /\ s \in Write
       \/ s.kind = "set" /\ s.field \in {"bist", "vid_mode", "gamma_val"}
       \/ s.kind = "loop" /\ s.from \subseteq Panel /\ s.en \in BOOLEAN
       \/ s.kind = "trigger" /\ s.to \subseteq Panel

(* "Writing the Demura SRAM must happen in Command Mode": a block that is  *)
(* about to be written meets a panel in Command Mode, unless a failed mode *)
(* write was ignored before.                                               *)
SramWriteInCommandMode ==
  \A t \in Threads :
    job[t] # << >> /\ Head(job[t]).kind \in {"try", "must"} /\ Up(rail) /\ ~blind =>
      LET w == Head(job[t]) IN
      w.reg = "DEMURA_SRAM" => \A p \in w.to \ dead : chip[p]["VID_MODE"] = CommandMode

(* Between handlers, with the display enabled, the context knows the mode  *)
(* the panels are in and whether any of them shows a test pattern, also    *)
(* after a table write that gave up half way.                              *)
ContextAgrees ==
  Quiet /\ enabled /\ ~blind =>
    /\ \A p \in Panel : (chip[p]["VID_MODE"] = VideoMode) = vid_mode
    /\ (\E p \in Panel : chip[p]["PL_SELF_TEST_CFG"] = SelfTestOn) = bist

(* A panel in Video Mode keeps taking frames: glb_sync, load_en and        *)
(* load_1t stay set whatever the scan and refresh attributes did between.  *)
VideoKeepsLoading ==
  Quiet /\ enabled /\ ~blind =>
    \A p \in Panel : chip[p]["VID_MODE"] = VideoMode =>
      \A b \in {0, 1, 3} : Bit(chip[p]["PL_SYNC"], b)

(* A table write that reaches the end of the table brings the display back *)
(* to Video Mode, if no transfer fails on the way.                         *)
TableEndRestoresVideo ==
  \A t \in Threads :
    (job[t] # << >> /\ faults = MaxFaults /\ ~blind
       /\ \E i \in DOMAIN job[t] :
            job[t][i] \in {Must({p}, "DEMURA_SRAM", TableChunks) : p \in Panel})
    ~> (\A p \in Panel : chip[p]["VID_MODE"] = VideoMode)

(* "0 = Command Mode (required for BIST / Global Scan)": no panel shows    *)
(* the test pattern in Video Mode.  The code does not keep it: the end of  *)
(* a Demura table restores Video Mode under a running test.                *)
BistInCommandMode ==
  Quiet /\ ~blind =>
    \A p \in Panel : chip[p]["PL_SELF_TEST_CFG"] = SelfTestOn =>
                     chip[p]["VID_MODE"] = CommandMode

(* The comment on gamma_val: 10 stands for gamma 1.0 and 22 for 2.2.  The  *)
(* code does not keep it: jbd4040_prepare loads 2.2 and leaves gamma_val.  *)
GammaValueIsLoaded ==
  Quiet /\ enabled /\ faults = 0 =>
    \A p \in Panel : chip[p]["GAM_CFG"] = GammaOn =>
                     chip[p]["GAMMA_LO"] = gamma_val /\ chip[p]["GAMMA_HI"] = gamma_val
=============================================================================
