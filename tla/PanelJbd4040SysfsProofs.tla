---------------------- MODULE PanelJbd4040SysfsProofs ----------------------
(***************************************************************************)
(* Proofs about the attributes of panel-jbd4040.c that change the display  *)
(* mode, for every set of threads and handlers, every length of the Demura *)
(* table and every bound on the transfer failures: types under any use of  *)
(* the attributes; and under orderly use, that the context and the panels  *)
(* agree about the mode.                                                   *)
(***************************************************************************)
EXTENDS PanelJbd4040Sysfs, PanelJbd4040InitProofs

(* Orderly use: the DRM core's order of calls, one attribute at a time,    *)
(* and only while the display is enabled.                                  *)
Orderly == Discipline = "serial" /\ CallerOrdered

-----------------------------------------------------------------------------
(* What the steps left in a handler will make of the panels and the        *)
(* context.                                                                *)

HandlerWrites == {w \in Write : w.kind # "latch" /\ w.to # {}}
Assignments   == [kind : {"set"}, field : {"bist", "vid_mode"}, val : BOOLEAN]
                   \cup [kind : {"set"}, field : {"gamma_val"}, val : {0, 10, 22}]
Reads         == [kind : {"loop"}, from : {{"R"}, All}, en : BOOLEAN]
                   \cup [kind : {"trigger"}, to : (SUBSET Panel) \ {{}}]
HandlerSteps  == HandlerWrites \cup Assignments \cup Reads

(* Step s writes reg of panel p; step s assigns to field f.                *)
Hits(s, p, reg) == s.kind \in {"try", "must"} /\ p \in s.to /\ s.reg = reg
Assigns(s, f)   == s.kind = "set" /\ s.field = f

(* With register files c, reg of panel p is v after the first n steps of   *)
(* q; with the value x now, field f is v after them.                       *)
Ends(c, q, n, p, reg, v) ==
  \/ \E i \in 1 .. n : /\ Hits(q[i], p, reg) /\ q[i].val = v
                       /\ \A j \in i + 1 .. n : ~Hits(q[j], p, reg)
  \/ (\A j \in 1 .. n : ~Hits(q[j], p, reg)) /\ c[p][reg] = v

Left(x, q, n, f, v) ==
  \/ \E i \in 1 .. n : /\ Assigns(q[i], f) /\ q[i].val = v
                       /\ \A j \in i + 1 .. n : ~Assigns(q[j], f)
  \/ (\A j \in 1 .. n : ~Assigns(q[j], f)) /\ x = v

Loading(w) == \A b \in {0, 1, 3} : Bit(w, b)
ModeOf(b)  == IF b THEN VideoMode ELSE CommandMode

(* After n steps of q the panels are in the mode that vid_mode, now vm,    *)
(* names, and keep loading in Video Mode; one of them shows the test       *)
(* pattern if bist, now bt, says so, and none otherwise.                   *)
ModeSettled(c, q, n, vm) ==
  \E b \in BOOLEAN :
    /\ Left(vm, q, n, "vid_mode", b)
    /\ \A p \in Panel : Ends(c, q, n, p, "VID_MODE", ModeOf(b))
    /\ b => \A p \in Panel : \E w \in Value : Ends(c, q, n, p, "PL_SYNC", w) /\ Loading(w)

TestSettled(c, q, n, bt) ==
  \E b \in BOOLEAN :
    /\ Left(bt, q, n, "bist", b)
    /\ b => \E p \in Panel : Ends(c, q, n, p, "PL_SELF_TEST_CFG", SelfTestOn)
    /\ ~b => \A p \in Panel : Ends(c, q, n, p, "PL_SELF_TEST_CFG", 0)

Settled(c, q, n, vm, bt) == ModeSettled(c, q, n, vm) /\ TestSettled(c, q, n, bt)

(* A handler ends after its last step or at a write that fails and that    *)
(* must not.                                                               *)
Stops(q) == {n \in 0 .. Len(q) : n = Len(q) \/ q[n + 1].kind = "must"}

(* Wherever the handler ends, panels and context agree; every block of a   *)
(* table meets Command Mode; and what a read leads to ends the handler.    *)
JobOK(c, q, vm, bt) ==
  /\ \A n \in Stops(q) : Settled(c, q, n, vm, bt)
  /\ \A i \in 1 .. Len(q) : \A p \in Panel :
       Hits(q[i], p, "DEMURA_SRAM") => Ends(c, q, i - 1, p, "VID_MODE", CommandMode)
  /\ \A i \in 1 .. Len(q) : q[i].kind \in {"loop", "trigger"} => i = Len(q)

JobTypes == blind \in BOOLEAN /\ job \in [Threads -> Seq(HandlerSteps)]

(* One handler runs at a time, and no DRM callback next to it.             *)
SerialInv ==
  /\ \A t, u \in Threads : job[t] # << >> /\ job[u] # << >> => t = u
  /\ \A t \in Threads : job[t] # << >> => enabled /\ pc = "idle"

Tries(q) == \A i \in 1 .. Len(q) : q[i].kind = "try"

(* Unless a failed write was ignored: enable sets the whole mode, and from *)
(* then on every handler leaves the panels and the context settled.        *)
AgreeInv ==
  ~blind =>
    /\ pc \in EnableLabels => ToAll(todo) /\ Tries(todo) /\ Due("PL_SYNC", SyncAll)
    /\ pc = "enable_bist" => Due("VID_MODE", CommandMode) /\ Due("PL_SELF_TEST_CFG", SelfTestOn)
    /\ pc = "enable_video" => Due("VID_MODE", VideoMode) /\ Due("PL_SELF_TEST_CFG", 0)
    /\ pc = "idle" /\ enabled =>
         /\ NoHandlerRuns => Settled(chip, << >>, 0, vid_mode, bist)
         /\ \A t \in Threads : job[t] # << >> => JobOK(chip, job[t], vid_mode, bist)

-----------------------------------------------------------------------------
(* The steps.                                                              *)

(* Register writes that the handlers set out to make are handler steps, ... *)
LEMMA StepForms ==
  /\ \A r \in Reg, v \in Value : Try(All, r, v) \in HandlerSteps /\ Must(All, r, v) \in HandlerSteps
  /\ \A p \in Panel, r \in Reg, v \in Value :
       Try({p}, r, v) \in HandlerSteps /\ Must({p}, r, v) \in HandlerSteps
<1>1. ASSUME NEW S \in SUBSET Panel, S # {}, NEW r \in Reg, NEW v \in Value
      PROVE  Try(S, r, v) \in HandlerSteps /\ Must(S, r, v) \in HandlerSteps
  <2>1. /\ Try(S, r, v) \in Write /\ Try(S, r, v).kind = "try" /\ Try(S, r, v).to = S
        /\ Must(S, r, v) \in Write /\ Must(S, r, v).kind = "must" /\ Must(S, r, v).to = S
    BY <1>1 DEF Try, Must, Write
  <2>2. Try(S, r, v) \in HandlerWrites /\ Must(S, r, v) \in HandlerWrites
    BY <1>1, <2>1 DEF HandlerWrites
  <2> QED BY <2>2 DEF HandlerSteps
<1>2. All \in SUBSET Panel /\ All # {}
  BY DEF All, Panel
<1>3. \A p \in Panel : {p} \in SUBSET Panel /\ {p} # {}
  OBVIOUS
<1> QED BY <1>1, <1>2, <1>3

(* ... and so are the assignments and the reads they are made of.          *)
LEMMA AssignmentForms ==
  /\ \A f \in {"bist", "vid_mode"}, b \in BOOLEAN : Set(f, b) \in HandlerSteps
  /\ \A g \in {0, 10, 22} : Set("gamma_val", g) \in HandlerSteps
  /\ \A S \in {{"R"}, All}, en \in BOOLEAN : Loop(S, en) \in HandlerSteps
  /\ \A S \in (SUBSET Panel) \ {{}} : Trigger(S) \in HandlerSteps
  BY DEF Set, Loop, Trigger, Assignments, Reads, HandlerSteps

(* A step is what its kind says.                                           *)
LEMMA StepKinds ==
  ASSUME NEW s \in HandlerSteps
  PROVE  /\ s.kind \in {"try", "must"} => s \in Write /\ s.to # {}
         /\ s.kind = "set" => /\ s.field \in {"bist", "vid_mode", "gamma_val"}
                              /\ s.field \in {"bist", "vid_mode"} => s.val \in BOOLEAN
                              /\ s.field = "gamma_val" => s.val \in {0, 10, 22}
         /\ s.kind = "loop" => s.from \in {{"R"}, All} /\ s.en \in BOOLEAN
         /\ s.kind = "trigger" => s.to \in SUBSET Panel /\ s.to # {}
         /\ s.kind \in {"try", "must", "set", "loop", "trigger"}
<1>1. CASE s \in HandlerWrites
  <2>1. s \in Write /\ s.kind \in {"try", "must"} /\ s.to # {}
    BY <1>1 DEF HandlerWrites, Write
  <2> QED BY <2>1
<1>2. CASE s \in Assignments
  <2>1. CASE s \in [kind : {"set"}, field : {"bist", "vid_mode"}, val : BOOLEAN]
    BY <2>1
  <2>2. CASE s \in [kind : {"set"}, field : {"gamma_val"}, val : {0, 10, 22}]
    BY <2>2
  <2> QED BY <1>2, <2>1, <2>2 DEF Assignments
<1>3. CASE s \in Reads
  <2>1. CASE s \in [kind : {"loop"}, from : {{"R"}, All}, en : BOOLEAN]
    BY <2>1
  <2>2. CASE s \in [kind : {"trigger"}, to : (SUBSET Panel) \ {{}}]
    BY <2>2
  <2> QED BY <1>3, <2>1, <2>2 DEF Reads
<1> QED BY <1>1, <1>2, <1>3 DEF HandlerSteps

(* Bits.                                                                   *)
LEMMA BitsKept ==
  ASSUME NEW v \in Value
  PROVE  /\ WithBit(v, 0) \in Value /\ WithBit(v, 2) \in Value /\ NoBit(v, 2) \in Value
         /\ Loading(v) => Loading(WithBit(v, 0)) /\ Loading(WithBit(v, 2)) /\ Loading(NoBit(v, 2))
<1>1. 2^0 = 1 /\ 2^1 = 2 /\ 2^2 = 4 /\ 2^3 = 8
  BY SMT
<1>2. PICK k \in Nat, r \in 0 .. 7 : v = 8 * k + r
  <2>1. v = 8 * (v \div 8) + (v % 8) /\ v \div 8 \in Nat /\ v % 8 \in 0 .. 7
    BY DEF Value
  <2> QED BY <2>1
<1>3. k <= 8191
  BY <1>2 DEF Value
<1>4. ASSUME NEW x \in 0 .. 7
      PROVE  /\ (8 * k + x) \div 8 = k
             /\ (8 * k + x) % 2 = x % 2
             /\ ((8 * k + x) \div 2) % 2 = (x \div 2) % 2
             /\ ((8 * k + x) \div 4) % 2 = (x \div 4) % 2
  BY <1>2
<1>5. Loading(v) <=> (r % 2 = 1 /\ (r \div 2) % 2 = 1 /\ k % 2 = 1)
  BY <1>1, <1>2, <1>4 DEF Loading, Bit
<1>6. (Bit(v, 0) <=> r % 2 = 1) /\ (Bit(v, 2) <=> r \in 4 .. 7)
  BY <1>1, <1>2, <1>4 DEF Bit
<1>7. PICK a \in 0 .. 7 : WithBit(v, 0) = 8 * k + a /\ a = IF r % 2 = 1 THEN r ELSE r + 1
  BY <1>1, <1>2, <1>6 DEF WithBit
<1>8. PICK b \in 0 .. 7 : WithBit(v, 2) = 8 * k + b /\ b = IF r \in 4 .. 7 THEN r ELSE r + 4
  BY <1>1, <1>2, <1>6 DEF WithBit
<1>9. PICK d \in 0 .. 7 : NoBit(v, 2) = 8 * k + d /\ d = IF r \in 4 .. 7 THEN r - 4 ELSE r
  BY <1>1, <1>2, <1>6 DEF NoBit
<1>10. ASSUME NEW x \in 0 .. 7
       PROVE  Loading(8 * k + x) <=> (x % 2 = 1 /\ (x \div 2) % 2 = 1 /\ k % 2 = 1)
  BY <1>1, <1>4 DEF Loading, Bit
<1>11. \A x \in 0 .. 7 : 8 * k + x \in Value
  BY <1>3 DEF Value
<1>12. Loading(v) => r \in {3, 7}
  BY <1>5
<1>13. Loading(v) => a \in {3, 7} /\ b \in {3, 7} /\ d \in {3, 7}
  BY <1>7, <1>8, <1>9, <1>12
<1>14. Loading(v) => \A x \in {3, 7} : Loading(8 * k + x)
  BY <1>5, <1>10
<1> QED BY <1>7, <1>8, <1>9, <1>11, <1>13, <1>14

(* SyncAll and refresh_loop_store's defaults load.                         *)
LEMMA DefaultsLoad == Loading(SyncAll) /\ Loading(15) /\ Loading(11)
<1>1. 2^0 = 1 /\ 2^1 = 2 /\ 2^3 = 8
  BY SMT
<1> QED BY <1>1 DEF Loading, Bit, SyncAll

-----------------------------------------------------------------------------
(* The requests.                                                           *)

(* The blocks of a table that one write covers.                            *)
Blocks(p, off, d) == [i \in 1 .. d |-> Must({p}, "DEMURA_SRAM", off + i)]

(* They are handler steps, one to a block, if the table fits the registers. *)
LEMMA TableBlocks ==
  ASSUME NEW p \in Panel, NEW off \in Nat, NEW d \in Nat, \A i \in 1 .. d : off + i \in Value
  PROVE  /\ Blocks(p, off, d) \in Seq(HandlerSteps) /\ Len(Blocks(p, off, d)) = d
         /\ \A i \in 1 .. d : Blocks(p, off, d)[i] = Must({p}, "DEMURA_SRAM", off + i)
<1>1. ASSUME NEW i \in 1 .. d PROVE Must({p}, "DEMURA_SRAM", off + i) \in HandlerSteps
  <2> DEFINE w == Must({p}, "DEMURA_SRAM", off + i)
  <2>1. w.kind = "must" /\ w.to = {p} /\ w.reg = "DEMURA_SRAM"
    BY DEF Must
  <2>2. off + i \in Value /\ {p} \in SUBSET Panel /\ "DEMURA_SRAM" \in Reg
    BY DEF Reg
  <2>3. w \in Write
    BY <2>2 DEF Must, Write
  <2>4. w \in HandlerWrites
    BY <2>1, <2>3 DEF HandlerWrites
  <2> QED BY <2>4 DEF HandlerSteps
<1>2. Blocks(p, off, d) \in [1 .. d -> HandlerSteps]
  BY <1>1 DEF Blocks
<1>3. Blocks(p, off, d) \in Seq(HandlerSteps) /\ Len(Blocks(p, off, d)) = d
  BY <1>2
<1>4. \A i \in 1 .. d : Blocks(p, off, d)[i] = Must({p}, "DEMURA_SRAM", off + i)
  BY DEF Blocks
<1> QED BY <1>3, <1>4

(* What a request can be.                                                  *)
LEMMA RequestCases ==
  ASSUME NEW r \in Requests
  PROVE  \/ \E v \in BOOLEAN : r = VidModeStore(v)
         \/ \E c \in Panel \cup {"w", "0"} : r = BistStore(c)
         \/ \E g \in {0, 10, 22} : r = GammaStore(g)
         \/ \E en \in BOOLEAN : r = << Loop({"R"}, en) >>
         \/ \E S \in {All} \cup {{p} : p \in Panel} : r = GlbScanValStore(S)
         \/ r = TestDemuraTableStore
         \/ \E p \in Panel, off \in 0 .. TableChunks - 1, n \in 1 .. TableChunks :
               r = DemuraTableWrite(p, off, n)
  BY DEF Requests

(* bist_store by the character it was given, as equations.                 *)
LEMMA BistCases ==
  /\ \A c \in Panel : BistStore(c) = BistOn(BistPanel(c, "R") \o BistPanel(c, "G") \o BistPanel(c, "B"))
  /\ BistStore("w") = BistOn(<< Try(All, "PL_SELF_TEST_CFG", SelfTestOn), Try(All, "PL_SYNC", SyncAll) >>)
  /\ BistStore("0") = BistOff
<1>1. "w" \notin Panel /\ "0" \notin Panel
  BY DEF Panel
<1> QED BY <1>1 DEF BistStore

-----------------------------------------------------------------------------
(* The requests are made of such steps.                                    *)

(* The writes that the handlers make.                                      *)
LEMMA HandlerWriteForms ==
  /\ Try(All, "VID_MODE", VideoMode) \in HandlerSteps
  /\ Try(All, "VID_MODE", CommandMode) \in HandlerSteps
  /\ Try(All, "PL_SYNC", SyncAll) \in HandlerSteps
  /\ Try(All, "PL_SYNC", SyncOnce) \in HandlerSteps
  /\ Try(All, "SETUP", 1) \in HandlerSteps
  /\ Try(All, "DISP_CTL", 1) \in HandlerSteps
  /\ Try(All, "DCS_EN", 1) \in HandlerSteps
  /\ Try(All, "GAM_CFG", 0) \in HandlerSteps
  /\ Try(All, "PL_SELF_TEST_CFG", 0) \in HandlerSteps
  /\ Try(All, "PL_SELF_TEST_CFG", SelfTestOn) \in HandlerSteps
  /\ Try({"R"}, "DEMURA_SRAM", 1) \in HandlerSteps
  /\ \A g \in {10, 22} : /\ Must(All, "GAMMA_LO", g) \in HandlerSteps
                         /\ Must(All, "GAMMA_HI", g) \in HandlerSteps
                         /\ Must(All, "GAM_CFG", GammaOn) \in HandlerSteps
  /\ \A p \in Panel : /\ Try({p}, "SETUP", 1) \in HandlerSteps
                       /\ Try({p}, "PL_SELF_TEST_CFG", SelfTestOn) \in HandlerSteps
                       /\ Try({p}, "PL_SELF_TEST_CFG", 0) \in HandlerSteps
                       /\ Try({p}, "PL_SYNC", SyncAll) \in HandlerSteps
                       /\ Try({p}, "DISP_CTL", 0) \in HandlerSteps
<1> DEFINE Values == WrittenValues \cup {10, SyncOnce}
<1>1. Values \subseteq Value
  BY DEF WrittenValues, Value, VideoMode, CommandMode, SyncAll, SyncOnce, LoadOnly, SelfTestOn, GammaOn
<1>2. \A r \in Reg, v \in Values : Try(All, r, v) \in HandlerSteps /\ Must(All, r, v) \in HandlerSteps
  BY <1>1, StepForms
<1>3. \A p \in Panel, r \in Reg, v \in Values : Try({p}, r, v) \in HandlerSteps
  BY <1>1, StepForms
<1>4. /\ Try(All, "VID_MODE", VideoMode) \in HandlerSteps
      /\ Try(All, "VID_MODE", CommandMode) \in HandlerSteps
      /\ Try(All, "PL_SYNC", SyncAll) \in HandlerSteps
      /\ Try(All, "PL_SYNC", SyncOnce) \in HandlerSteps
      /\ Try(All, "SETUP", 1) \in HandlerSteps
      /\ Try(All, "DISP_CTL", 1) \in HandlerSteps
      /\ Try(All, "DCS_EN", 1) \in HandlerSteps
      /\ Try(All, "GAM_CFG", 0) \in HandlerSteps
      /\ Try(All, "PL_SELF_TEST_CFG", 0) \in HandlerSteps
      /\ Try(All, "PL_SELF_TEST_CFG", SelfTestOn) \in HandlerSteps
  BY <1>2 DEF Reg, WrittenValues
<1>5. ASSUME NEW g \in {10, 22}
      PROVE  /\ Must(All, "GAMMA_LO", g) \in HandlerSteps
             /\ Must(All, "GAMMA_HI", g) \in HandlerSteps
             /\ Must(All, "GAM_CFG", GammaOn) \in HandlerSteps
  BY <1>2 DEF Reg, WrittenValues
<1>6. Try({"R"}, "DEMURA_SRAM", 1) \in HandlerSteps
  BY <1>3 DEF Reg, WrittenValues, Panel
<1>7. ASSUME NEW p \in Panel
      PROVE  /\ Try({p}, "SETUP", 1) \in HandlerSteps
             /\ Try({p}, "PL_SELF_TEST_CFG", SelfTestOn) \in HandlerSteps
             /\ Try({p}, "PL_SELF_TEST_CFG", 0) \in HandlerSteps
             /\ Try({p}, "PL_SYNC", SyncAll) \in HandlerSteps
             /\ Try({p}, "DISP_CTL", 0) \in HandlerSteps
  BY <1>3 DEF Reg, WrittenValues, Panel
<1> QED BY <1>4, <1>5, <1>6, <1>7

(* Short tuples are sequences, and so are tuples put together.             *)
LEMMA StepTuples ==
  ASSUME NEW a \in HandlerSteps, NEW b \in HandlerSteps, NEW c \in HandlerSteps,
         NEW d \in HandlerSteps, NEW e \in HandlerSteps
  PROVE  /\ << >> \in Seq(HandlerSteps) /\ << a >> \in Seq(HandlerSteps)
         /\ << a, b >> \in Seq(HandlerSteps) /\ << a, b, c >> \in Seq(HandlerSteps)
         /\ << a, b, c, d >> \in Seq(HandlerSteps) /\ << a, b, c, d, e >> \in Seq(HandlerSteps)
  BY Tuples

(* The parts of the requests.                                              *)
LEMMA PartsTyped ==
  /\ EnterVideo \in Seq(HandlerSteps) /\ Len(EnterVideo) = 3
  /\ EnterCommand \in Seq(HandlerSteps) /\ Len(EnterCommand) = 3
  /\ \A c, p \in Panel : BistPanel(c, p) \in Seq(HandlerSteps) /\ Len(BistPanel(c, p)) = 2
  /\ \A g \in {10, 22} : GammaWrites(g) \in Seq(HandlerSteps) /\ Len(GammaWrites(g)) = 3
<1>1. /\ Set("vid_mode", TRUE) \in HandlerSteps /\ Set("vid_mode", FALSE) \in HandlerSteps
  BY AssignmentForms
<1>2. EnterVideo \in Seq(HandlerSteps) /\ Len(EnterVideo) = 3
  BY <1>1, HandlerWriteForms, StepTuples DEF EnterVideo
<1>3. EnterCommand \in Seq(HandlerSteps) /\ Len(EnterCommand) = 3
  BY <1>1, HandlerWriteForms, StepTuples DEF EnterCommand
<1>4. ASSUME NEW c \in Panel, NEW p \in Panel
      PROVE  BistPanel(c, p) \in Seq(HandlerSteps) /\ Len(BistPanel(c, p)) = 2
  <2>1. CASE c = p
    <3>1. BistPanel(c, p) = << Try({p}, "PL_SELF_TEST_CFG", SelfTestOn), Try({p}, "PL_SYNC", SyncAll) >>
      BY <2>1 DEF BistPanel
    <3> QED BY <3>1, HandlerWriteForms, StepTuples
  <2>2. CASE c # p
    <3>1. BistPanel(c, p) = << Try({p}, "PL_SELF_TEST_CFG", 0), Try({p}, "DISP_CTL", 0) >>
      BY <2>2 DEF BistPanel
    <3>2. Try({p}, "PL_SELF_TEST_CFG", 0) \in HandlerSteps /\ Try({p}, "DISP_CTL", 0) \in HandlerSteps
      BY HandlerWriteForms
    <3> QED BY <3>1, <3>2, StepTuples
  <2> QED BY <2>1, <2>2
<1>5. ASSUME NEW g \in {10, 22}
      PROVE  GammaWrites(g) \in Seq(HandlerSteps) /\ Len(GammaWrites(g)) = 3
  BY HandlerWriteForms, StepTuples DEF GammaWrites
<1> QED BY <1>2, <1>3, <1>4, <1>5

(* Every request is a sequence of steps.                                   *)
LEMMA RequestsTyped ==
  ASSUME NEW r \in Requests
  PROVE  r \in Seq(HandlerSteps)
<1>0. /\ Set("vid_mode", TRUE) \in HandlerSteps /\ Set("vid_mode", FALSE) \in HandlerSteps
      /\ Set("bist", TRUE) \in HandlerSteps /\ Set("bist", FALSE) \in HandlerSteps
      /\ \A g \in {0, 10, 22} : Set("gamma_val", g) \in HandlerSteps
      /\ \A S \in {{"R"}, All}, en \in BOOLEAN : Loop(S, en) \in HandlerSteps
      /\ \A S \in (SUBSET Panel) \ {{}} : Trigger(S) \in HandlerSteps
  BY AssignmentForms
<1>1. ASSUME NEW v \in BOOLEAN, r = VidModeStore(v) PROVE r \in Seq(HandlerSteps)
  BY <1>1, PartsTyped DEF VidModeStore
<1>2. ASSUME NEW c \in Panel \cup {"w", "0"}, r = BistStore(c) PROVE r \in Seq(HandlerSteps)
  <2>1. ASSUME NEW q \in Seq(HandlerSteps) PROVE BistOn(q) \in Seq(HandlerSteps)
    BY <1>0, HandlerWriteForms, StepTuples, ConcatProperties DEF BistOn
  <2>2. CASE c \in Panel
    <3>1. BistPanel(c, "R") \o BistPanel(c, "G") \o BistPanel(c, "B") \in Seq(HandlerSteps)
      BY <2>2, PartsTyped, ConcatProperties DEF Panel
    <3> QED BY <1>2, <2>1, <2>2, <3>1, BistCases
  <2>3. CASE c = "w"
    BY <1>2, <2>1, <2>3, BistCases, HandlerWriteForms, StepTuples
  <2>4. CASE c = "0"
    <3>1. ASSUME NEW a1 \in HandlerSteps, NEW a2 \in HandlerSteps, NEW a3 \in HandlerSteps,
                 NEW a4 \in HandlerSteps, NEW a5 \in HandlerSteps, NEW a6 \in HandlerSteps,
                 NEW a7 \in HandlerSteps
          PROVE  << a1, a2, a3, a4, a5, a6, a7 >> \in Seq(HandlerSteps)
      OBVIOUS
    <3>2. BistOff \in Seq(HandlerSteps)
      BY <1>0, <3>1, HandlerWriteForms DEF BistOff
    <3> QED BY <1>2, <2>4, <3>2, BistCases
  <2> QED BY <2>2, <2>3, <2>4
<1>3. ASSUME NEW g \in {0, 10, 22}, r = GammaStore(g) PROVE r \in Seq(HandlerSteps)
  <2>1. CASE g = 0
    BY <1>0, <1>3, <2>1, HandlerWriteForms, StepTuples DEF GammaStore
  <2>2. CASE g # 0
    <3>1. GammaWrites(g) \in Seq(HandlerSteps) /\ << Set("gamma_val", g) >> \in Seq(HandlerSteps)
      BY <1>0, <2>2, PartsTyped, StepTuples
    <3> QED BY <1>3, <2>2, <3>1, ConcatProperties DEF GammaStore
  <2> QED BY <2>1, <2>2
<1>4. ASSUME NEW en \in BOOLEAN, r = << Loop({"R"}, en) >> PROVE r \in Seq(HandlerSteps)
  BY <1>0, <1>4, StepTuples
<1>5. ASSUME NEW S \in {All} \cup {{p} : p \in Panel}, r = GlbScanValStore(S)
      PROVE  r \in Seq(HandlerSteps)
  <2>1. Trigger(S) \in HandlerSteps
    BY <1>0 DEF All, Panel
  <2>2. Try(S, "SETUP", 1) \in HandlerSteps
    BY HandlerWriteForms
  <2> QED BY <1>5, <2>1, <2>2, StepTuples DEF GlbScanValStore
<1>6. ASSUME r = TestDemuraTableStore PROVE r \in Seq(HandlerSteps)
  BY <1>0, <1>6, HandlerWriteForms, StepTuples DEF TestDemuraTableStore
<1>7. ASSUME NEW p \in Panel, NEW off \in 0 .. TableChunks - 1, NEW n \in 1 .. TableChunks,
             r = DemuraTableWrite(p, off, n)
      PROVE  r \in Seq(HandlerSteps)
  <2> DEFINE d == Lesser(n, TableChunks - off)
             first == IF vid_mode THEN EnterCommand ELSE << >>
             last  == IF off + d >= TableChunks THEN EnterVideo ELSE << >>
  <2>1. d \in Nat /\ off \in Nat /\ \A i \in 1 .. d : off + i \in Value
    BY SysfsAssumption, SMT DEF Lesser, Value
  <2>2. Blocks(p, off, d) \in Seq(HandlerSteps)
    <3> HIDE DEF d
    <3> QED BY <2>1, TableBlocks
  <2>3. first \in Seq(HandlerSteps) /\ last \in Seq(HandlerSteps)
    BY PartsTyped, StepTuples, <1>0
  <2>4. r = (first \o Blocks(p, off, d)) \o last
    BY <1>7 DEF DemuraTableWrite, Blocks
  <2> QED BY <2>2, <2>3, <2>4, ConcatProperties
<1> QED BY <1>1, <1>2, <1>3, <1>4, <1>5, <1>6, <1>7, RequestCases

-----------------------------------------------------------------------------
(* Type correctness.                                                       *)

(* What a transfer does to the types.                                      *)
LEMMA TransferTyped ==
  ASSUME TypeOK, NEW w \in Write
  PROVE  /\ Ack(w) => chip' \in RegisterFile /\ faults' = faults
         /\ Nack(w.to) => chip' = chip /\ faults' \in 0 .. MaxFaults
<1>1. Ack(w) => chip' \in RegisterFile /\ faults' = faults
  <2>1. chip \in RegisterFile /\ Panel \ dead \in SUBSET Panel
    BY DEF TypeOK, RegisterFile
  <2> QED BY <2>1, WrittenTyped DEF Ack
<1>2. Nack(w.to) => chip' = chip /\ faults' \in 0 .. MaxFaults
  BY FaultsAssumption DEF Nack, TypeOK
<1> QED BY <1>1, <1>2

(* The head of a job is a step, the rest of it is a job.                   *)
LEMMA HeadOfJob ==
  ASSUME JobTypes, NEW t \in Threads, job[t] # << >>
  PROVE  /\ Head(job[t]) \in HandlerSteps /\ Head(job[t]) = job[t][1]
         /\ Tail(job[t]) \in Seq(HandlerSteps)
         /\ Len(job[t]) \in Nat /\ Len(job[t]) >= 1 /\ Len(Tail(job[t])) = Len(job[t]) - 1
         /\ \A i \in 1 .. Len(Tail(job[t])) : Tail(job[t])[i] = job[t][i + 1]
<1>1. job[t] \in Seq(HandlerSteps)
  BY DEF JobTypes
<1> QED BY <1>1, HeadTailProperties

(* A handler's register write keeps the types.                             *)
LEMMA HandlerWriteTyped ==
  ASSUME TypeOK, JobTypes, NEW t \in Threads, HandlerWrite(t)
  PROVE  TypeOK' /\ JobTypes'
<1> DEFINE w == Head(job[t])
<1>1. w \in Write /\ Tail(job[t]) \in Seq(HandlerSteps) /\ << >> \in Seq(HandlerSteps)
  BY HeadOfJob, StepKinds DEF HandlerWrite, Step
<1>2. chip' \in RegisterFile /\ faults' \in 0 .. MaxFaults
  BY <1>1, TransferTyped DEF HandlerWrite, TypeOK, RegisterFile
<1>3. TypeOK'
  BY <1>2 DEF HandlerWrite, TypeOK, RegisterFile, ctxVars, drmVars
<1>4. \E q \in Seq(HandlerSteps) : job' = [job EXCEPT ![t] = q]
  BY <1>1 DEF HandlerWrite
<1>5. blind' \in BOOLEAN
  BY DEF HandlerWrite, JobTypes
<1> QED BY <1>3, <1>4, <1>5 DEF JobTypes

(* So does an assignment.                                                  *)
LEMMA HandlerSetTyped ==
  ASSUME TypeOK, JobTypes, NEW t \in Threads, HandlerSet(t)
  PROVE  TypeOK' /\ JobTypes'
<1> DEFINE s == Head(job[t])
<1>1. /\ s \in HandlerSteps /\ s.kind = "set" /\ Tail(job[t]) \in Seq(HandlerSteps)
  BY HeadOfJob DEF HandlerSet, Step
<1>2. /\ s.field = "bist" => s.val \in BOOLEAN
      /\ s.field = "vid_mode" => s.val \in BOOLEAN
      /\ s.field = "gamma_val" => s.val \in {0, 10, 22}
  BY <1>1, StepKinds
<1>3. bist' \in BOOLEAN /\ vid_mode' \in BOOLEAN /\ gamma_val' \in {0, 10, 22}
  BY <1>2 DEF HandlerSet, TypeOK
<1>4. TypeOK'
  BY <1>3 DEF HandlerSet, TypeOK, hwVars, drmVars
<1> QED BY <1>1, <1>4 DEF HandlerSet, JobTypes

(* A read of refresh_loop_store leads to a write of what it returned or of *)
(* the default, or to the second read.                                     *)
LEMMA LoopOutcomes ==
  ASSUME JobTypes, NEW t \in Threads, RefreshLoopStore(t)
  PROVE  \E F \in {{"R"}, All}, en \in BOOLEAN :
           \/ \E v \in SyncOf(F) : job' = [job EXCEPT ![t] = << Try(All, "PL_SYNC", Looping(v, en)) >>]
           \/ job' = [job EXCEPT ![t] = << Try(All, "PL_SYNC", Looping(IF en THEN 15 ELSE 11, en)) >>]
           \/ job' = [job EXCEPT ![t] = << Loop(All, en) >>]
<1> DEFINE s == Head(job[t])
<1>1. s.from \in {{"R"}, All} /\ s.en \in BOOLEAN
  BY HeadOfJob, StepKinds DEF RefreshLoopStore, Step
<1>2. \/ \E v \in SyncOf(s.from) : job' = [job EXCEPT ![t] = << Try(All, "PL_SYNC", Looping(v, s.en)) >>]
      \/ IF s.from = All
         THEN job' = [job EXCEPT ![t] = << Try(All, "PL_SYNC", Looping(IF s.en THEN 15 ELSE 11, s.en)) >>]
         ELSE job' = [job EXCEPT ![t] = << Loop(All, s.en) >>]
  BY DEF RefreshLoopStore
<1> HIDE DEF s
<1> QED BY <1>1, <1>2

(* So does a read that leads to a write of REG_PL_SYNC.                    *)
LEMMA ReadsTyped ==
  ASSUME TypeOK, JobTypes, NEW t \in Threads, RefreshLoopStore(t) \/ TriggerSync(t)
  PROVE  TypeOK' /\ JobTypes'
<1>1. \A p \in Panel : chip[p]["PL_SYNC"] \in Value
  BY DEF TypeOK, Stored, Reg
<1>2. \A S \in SUBSET Panel : SyncOf(S) \subseteq Value
  BY <1>1 DEF SyncOf
<1>3. /\ UNCHANGED <<rail, chip, dead, adap, bist_enable, ctxVars, drmVars, blind>>
      /\ faults' \in 0 .. MaxFaults
  BY FaultsAssumption DEF RefreshLoopStore, TriggerSync, Nack, TypeOK
<1>4. TypeOK'
  BY <1>3 DEF TypeOK, ctxVars, drmVars
<1>5. \/ \E S \in (SUBSET Panel) \ {{}}, v \in Value : job' = [job EXCEPT ![t] = << Try(S, "PL_SYNC", v) >>]
      \/ \E en \in BOOLEAN : job' = [job EXCEPT ![t] = << Loop(All, en) >>]
  <2>1. /\ All \in (SUBSET Panel) \ {{}} /\ {"R"} \in SUBSET Panel
        /\ 15 \in Value /\ 11 \in Value /\ SyncAll \in Value
    BY SMT DEF All, Panel, Value, SyncAll
  <2>2. CASE RefreshLoopStore(t)
    <3>1. \A v \in Value, en \in BOOLEAN : Looping(v, en) \in Value
      BY BitsKept DEF Looping
    <3>2. PICK F \in {{"R"}, All}, en \in BOOLEAN :
            \/ \E v \in SyncOf(F) : job' = [job EXCEPT ![t] = << Try(All, "PL_SYNC", Looping(v, en)) >>]
            \/ job' = [job EXCEPT ![t] = << Try(All, "PL_SYNC", Looping(IF en THEN 15 ELSE 11, en)) >>]
            \/ job' = [job EXCEPT ![t] = << Loop(All, en) >>]
      BY <2>2, LoopOutcomes
    <3> QED BY <1>2, <2>1, <3>1, <3>2
  <2>3. CASE TriggerSync(t)
    <3> DEFINE S == Head(job[t]).to
    <3>1. S \in (SUBSET Panel) \ {{}}
      BY <2>3, HeadOfJob, StepKinds DEF TriggerSync, Step
    <3>2. \/ \E v \in SyncOf(S) :
                job' = [job EXCEPT ![t] = << Try(S, "PL_SYNC", WithBit(IF v = 0 THEN SyncAll ELSE v, 0)) >>]
          \/ job' = [job EXCEPT ![t] = << Try(S, "PL_SYNC", WithBit(SyncAll, 0)) >>]
      BY <2>3 DEF TriggerSync
    <3>3. \A v \in Value : WithBit(v, 0) \in Value
      BY BitsKept
    <3> QED BY <1>2, <2>1, <3>1, <3>2, <3>3
  <2> QED BY <2>2, <2>3
<1>6. ASSUME NEW S \in (SUBSET Panel) \ {{}}, NEW v \in Value
      PROVE  << Try(S, "PL_SYNC", v) >> \in Seq(HandlerSteps)
  <2>1. Try(S, "PL_SYNC", v) \in HandlerSteps
    <3>1. "PL_SYNC" \in Reg
      BY DEF Reg
    <3>2. Try(S, "PL_SYNC", v) \in Write /\ Try(S, "PL_SYNC", v).kind = "try" /\ Try(S, "PL_SYNC", v).to = S
      BY <3>1 DEF Try, Write
    <3> QED BY <3>2 DEF HandlerWrites, HandlerSteps
  <2> QED BY <2>1
<1>7. \A en \in BOOLEAN : << Loop(All, en) >> \in Seq(HandlerSteps)
  BY AssignmentForms, StepTuples
<1> QED BY <1>3, <1>4, <1>5, <1>6, <1>7 DEF JobTypes

(* Every step keeps the types.                                             *)
LEMMA SysTypeStep == TypeOK /\ JobTypes /\ [SysNext]_allVars => TypeOK' /\ JobTypes'
<1> SUFFICES ASSUME TypeOK, JobTypes, [SysNext]_allVars PROVE TypeOK' /\ JobTypes'
  OBVIOUS
<1>1. CASE DrmStep
  BY <1>1, TypeStep DEF DrmStep, JobTypes
<1>2. ASSUME NEW t \in Threads, StartHandler(t) PROVE TypeOK' /\ JobTypes'
  <2>1. TypeOK'
    BY <1>2, TypeStep DEF StartHandler
  <2> QED BY <1>2, <2>1, RequestsTyped DEF StartHandler, JobTypes
<1>3. ASSUME NEW t \in Threads, HandlerStep(t) PROVE TypeOK' /\ JobTypes'
  BY <1>3, HandlerWriteTyped, HandlerSetTyped, ReadsTyped DEF HandlerStep
<1>4. CASE UNCHANGED allVars
  BY <1>4, TypeStep DEF allVars, sysVars, JobTypes
<1> QED BY <1>1, <1>2, <1>3, <1>4 DEF SysNext

(* The types at the start: no handler runs.                                *)
LEMMA SysTypeInit == SysInit => TypeOK /\ JobTypes
<1>1. << >> \in Seq(HandlerSteps)
  OBVIOUS
<1> QED BY <1>1, TypeInit DEF SysInit, JobTypes

(* The types hold throughout.                                              *)
LEMMA SysTypeInductive == SysSpec => [](TypeOK /\ JobTypes)
  BY SysTypeInit, SysTypeStep, PTL DEF SysSpec

(* SysTypeOK holds throughout, under any use of the attributes: a handler  *)
(* only ever has steps to take that are within the panels' registers.      *)
THEOREM SysTypeCorrect == SysSpec => []SysTypeOK
<1>1. TypeOK /\ JobTypes => SysTypeOK
  <2> SUFFICES ASSUME TypeOK, JobTypes, NEW t \in Threads, NEW i \in DOMAIN job[t]
               PROVE  LET s == job[t][i] IN
                      \/ s.kind \in {"try", "must"} /\ s \in Write
                      \/ s.kind = "set" /\ s.field \in {"bist", "vid_mode", "gamma_val"}
                      \/ s.kind = "loop" /\ s.from \subseteq Panel /\ s.en \in BOOLEAN
                      \/ s.kind = "trigger" /\ s.to \subseteq Panel
    BY DEF SysTypeOK, JobTypes
  <2>1. job[t][i] \in HandlerSteps
    BY DEF JobTypes
  <2>2. {"R"} \subseteq Panel /\ All \subseteq Panel
    BY DEF All, Panel
  <2>3. job[t][i].kind = "loop" => job[t][i].from \subseteq Panel
    BY <2>1, <2>2, StepKinds
  <2> QED BY <2>1, <2>3, StepKinds
<1> QED BY SysTypeInductive, <1>1, PTL

-----------------------------------------------------------------------------
(* What a step does to what is to come.                                    *)

(* After a step that did what it says, the rest of the job ends the same.  *)
LEMMA EndsStep ==
  ASSUME NEW q \in Seq(HandlerSteps), q # << >>, NEW n \in 1 .. Len(q), NEW c, NEW d, NEW p, NEW reg,
         NEW v, d[p][reg] = IF Hits(q[1], p, reg) THEN q[1].val ELSE c[p][reg],
         Ends(c, q, n, p, reg, v)
  PROVE  Ends(d, Tail(q), n - 1, p, reg, v)
<1>1. Len(q) \in Nat /\ \A i \in 1 .. n - 1 : Tail(q)[i] = q[i + 1] /\ i + 1 \in 2 .. n
  BY HeadTailProperties
<1>2. ASSUME NEW i \in 1 .. n, Hits(q[i], p, reg), q[i].val = v,
             \A j \in i + 1 .. n : ~Hits(q[j], p, reg)
      PROVE  Ends(d, Tail(q), n - 1, p, reg, v)
  <2>1. CASE i = 1
    <3>1. \A j \in 1 .. n - 1 : ~Hits(Tail(q)[j], p, reg)
      BY <1>1, <1>2, <2>1
    <3> QED BY <1>2, <2>1, <3>1 DEF Ends
  <2>2. CASE i # 1
    <3>1. i - 1 \in 1 .. n - 1 /\ (i - 1) + 1 = i
      BY <2>2
    <3>2. Tail(q)[i - 1] = q[i]
      BY <1>1, <3>1
    <3>3. \A j \in (i - 1) + 1 .. n - 1 : ~Hits(Tail(q)[j], p, reg)
      BY <1>1, <1>2, <3>1
    <3> QED BY <1>2, <3>1, <3>2, <3>3 DEF Ends
  <2> QED BY <2>1, <2>2
<1>3. ASSUME \A j \in 1 .. n : ~Hits(q[j], p, reg), c[p][reg] = v
      PROVE  Ends(d, Tail(q), n - 1, p, reg, v)
  <2>1. \A j \in 1 .. n - 1 : ~Hits(Tail(q)[j], p, reg)
    BY <1>1, <1>3
  <2>2. 1 \in 1 .. n
    OBVIOUS
  <2> QED BY <1>3, <2>1, <2>2 DEF Ends
<1> QED BY <1>2, <1>3 DEF Ends

(* The same for an assignment, after which field f is y.                   *)
LEMMA LeftStep ==
  ASSUME NEW q \in Seq(HandlerSteps), q # << >>, NEW n \in 1 .. Len(q), NEW x, NEW y, NEW f, NEW v,
         y = IF Assigns(q[1], f) THEN q[1].val ELSE x,
         Left(x, q, n, f, v)
  PROVE  Left(y, Tail(q), n - 1, f, v)
<1>1. Len(q) \in Nat /\ \A i \in 1 .. n - 1 : Tail(q)[i] = q[i + 1] /\ i + 1 \in 2 .. n
  BY HeadTailProperties
<1>2. ASSUME NEW i \in 1 .. n, Assigns(q[i], f), q[i].val = v,
             \A j \in i + 1 .. n : ~Assigns(q[j], f)
      PROVE  Left(y, Tail(q), n - 1, f, v)
  <2>1. CASE i = 1
    <3>1. \A j \in 1 .. n - 1 : ~Assigns(Tail(q)[j], f)
      BY <1>1, <1>2, <2>1
    <3> QED BY <1>2, <2>1, <3>1 DEF Left
  <2>2. CASE i # 1
    <3>1. i - 1 \in 1 .. n - 1 /\ (i - 1) + 1 = i
      BY <2>2
    <3>2. Tail(q)[i - 1] = q[i]
      BY <1>1, <3>1
    <3>3. \A j \in (i - 1) + 1 .. n - 1 : ~Assigns(Tail(q)[j], f)
      BY <1>1, <1>2, <3>1
    <3> QED BY <1>2, <3>1, <3>2, <3>3 DEF Left
  <2> QED BY <2>1, <2>2
<1>3. ASSUME \A j \in 1 .. n : ~Assigns(q[j], f), x = v
      PROVE  Left(y, Tail(q), n - 1, f, v)
  <2>1. \A j \in 1 .. n - 1 : ~Assigns(Tail(q)[j], f)
    BY <1>1, <1>3
  <2>2. 1 \in 1 .. n
    OBVIOUS
  <2> QED BY <1>3, <2>1, <2>2 DEF Left
<1> QED BY <1>2, <1>3 DEF Left

(* Step s turns register files c, vid_mode vm and bist bt into c2, vm2 and *)
(* bt2.                                                                    *)
Does(s, c, vm, bt, c2, vm2, bt2) ==
  /\ \A p \in Panel, reg \in Stored : c2[p][reg] = IF Hits(s, p, reg) THEN s.val ELSE c[p][reg]
  /\ vm2 = IF Assigns(s, "vid_mode") THEN s.val ELSE vm
  /\ bt2 = IF Assigns(s, "bist") THEN s.val ELSE bt

(* Where a job may end.                                                    *)
LEMMA StopsForm ==
  ASSUME NEW q, NEW n
  PROVE  n \in Stops(q) <=> n \in 0 .. Len(q) /\ (n = Len(q) \/ q[n + 1].kind = "must")
  BY Zenon DEF Stops

(* A handler that has taken its next step is a handler that is in order.   *)
LEMMA JobStep ==
  ASSUME NEW q \in Seq(HandlerSteps), q # << >>, NEW c, NEW vm, NEW bt, NEW c2, NEW vm2, NEW bt2,
         Does(q[1], c, vm, bt, c2, vm2, bt2), JobOK(c, q, vm, bt)
  PROVE  /\ JobOK(c2, Tail(q), vm2, bt2)
         /\ Tail(q) = << >> => Settled(c2, Tail(q), 0, vm2, bt2)
<1> DEFINE T == Tail(q)
<1>1. /\ Len(q) \in Nat /\ Len(q) >= 1 /\ T \in Seq(HandlerSteps) /\ Len(T) = Len(q) - 1
      /\ \A i \in 1 .. Len(q) - 1 : T[i] = q[i + 1]
  BY HeadTailProperties
<1>0. T = Tail(q)
  OBVIOUS
<1> HIDE DEF T
<1>2. "VID_MODE" \in Stored /\ "PL_SYNC" \in Stored /\ "PL_SELF_TEST_CFG" \in Stored
  BY DEF Stored, Reg
<1>3. ASSUME NEW n \in 1 .. Len(q), NEW p \in Panel, NEW reg \in Stored, NEW v, Ends(c, q, n, p, reg, v)
      PROVE  Ends(c2, T, n - 1, p, reg, v)
  BY <1>0, <1>3, EndsStep DEF Does
<1>4. ASSUME NEW n \in 1 .. Len(q), Settled(c, q, n, vm, bt)
      PROVE  Settled(c2, T, n - 1, vm2, bt2)
  <2>1. ModeSettled(c2, T, n - 1, vm2)
    <3>1. PICK b \in BOOLEAN :
            /\ Left(vm, q, n, "vid_mode", b)
            /\ \A p \in Panel : Ends(c, q, n, p, "VID_MODE", ModeOf(b))
            /\ b => \A p \in Panel : \E w \in Value : Ends(c, q, n, p, "PL_SYNC", w) /\ Loading(w)
      BY <1>4 DEF Settled, ModeSettled
    <3>2. Left(vm2, T, n - 1, "vid_mode", b)
      BY <1>0, <3>1, LeftStep DEF Does
    <3>3. \A p \in Panel : Ends(c2, T, n - 1, p, "VID_MODE", ModeOf(b))
      BY <1>2, <1>3, <3>1
    <3>4. b => \A p \in Panel : \E w \in Value : Ends(c2, T, n - 1, p, "PL_SYNC", w) /\ Loading(w)
      BY <1>2, <1>3, <3>1
    <3> QED BY <3>2, <3>3, <3>4 DEF ModeSettled
  <2>2. TestSettled(c2, T, n - 1, bt2)
    <3>1. PICK b \in BOOLEAN :
            /\ Left(bt, q, n, "bist", b)
            /\ b => \E p \in Panel : Ends(c, q, n, p, "PL_SELF_TEST_CFG", SelfTestOn)
            /\ ~b => \A p \in Panel : Ends(c, q, n, p, "PL_SELF_TEST_CFG", 0)
      BY <1>4 DEF Settled, TestSettled
    <3>2. Left(bt2, T, n - 1, "bist", b)
      BY <1>0, <3>1, LeftStep DEF Does
    <3>3. b => \E p \in Panel : Ends(c2, T, n - 1, p, "PL_SELF_TEST_CFG", SelfTestOn)
      BY <1>2, <1>3, <3>1
    <3>4. ~b => \A p \in Panel : Ends(c2, T, n - 1, p, "PL_SELF_TEST_CFG", 0)
      BY <1>2, <1>3, <3>1
    <3> QED BY <3>2, <3>3, <3>4 DEF TestSettled
  <2> QED BY <2>1, <2>2 DEF Settled
<1>5. ASSUME NEW n \in Stops(T) PROVE Settled(c2, T, n, vm2, bt2)
  <2>1. n \in 0 .. Len(q) - 1 /\ n + 1 \in 1 .. Len(q) /\ (n + 1) - 1 = n
    <3>1. n \in 0 .. Len(T)
      BY StopsForm
    <3> QED BY <1>1, <3>1
  <2>2. n + 1 \in Stops(q)
    <3>1. CASE n = Len(T)
      <4>1. n + 1 = Len(q)
        BY <1>1, <3>1
      <4> QED BY <1>1, <4>1, StopsForm
    <3>2. CASE n # Len(T)
      <4>1. n + 1 \in 1 .. Len(q) - 1 /\ T[n + 1].kind = "must"
        <5>1. n \in 0 .. Len(T) /\ T[n + 1].kind = "must"
          BY <3>2, StopsForm
        <5> QED BY <1>1, <3>2, <5>1
      <4>2. q[(n + 1) + 1].kind = "must" /\ n + 1 \in 0 .. Len(q)
        BY <1>1, <4>1
      <4> QED BY <4>2, StopsForm
    <3> QED BY <3>1, <3>2
  <2>3. Settled(c, q, n + 1, vm, bt)
    BY <2>2 DEF JobOK
  <2>4. Settled(c2, T, (n + 1) - 1, vm2, bt2)
    BY <1>4, <2>1, <2>3
  <2> QED BY <2>1, <2>4
<1>6. ASSUME NEW i \in 1 .. Len(T), NEW p \in Panel, Hits(T[i], p, "DEMURA_SRAM")
      PROVE  Ends(c2, T, i - 1, p, "VID_MODE", CommandMode)
  <2>1. i \in 1 .. Len(q) /\ i + 1 \in 1 .. Len(q) /\ (i + 1) - 1 = i /\ T[i] = q[i + 1]
    BY <1>1
  <2>2. Ends(c, q, (i + 1) - 1, p, "VID_MODE", CommandMode)
    BY <1>6, <2>1 DEF JobOK
  <2> QED BY <1>2, <1>3, <2>1, <2>2
<1>7. ASSUME NEW i \in 1 .. Len(T), T[i].kind \in {"loop", "trigger"}
      PROVE  i = Len(T)
  <2>1. i + 1 \in 1 .. Len(q) /\ T[i] = q[i + 1]
    BY <1>1
  <2>2. q[i + 1].kind \in {"loop", "trigger"}
    BY <1>7, <2>1
  <2>3. i + 1 = Len(q)
    BY <2>1, <2>2 DEF JobOK
  <2> QED BY <1>1, <2>3
<1>8. JobOK(c2, T, vm2, bt2)
  BY <1>5, <1>6, <1>7 DEF JobOK
<1>9. T = << >> => 0 \in Stops(T)
  BY <1>1, StopsForm
<1> QED BY <1>0, <1>5, <1>8, <1>9

(* With nothing left to do, the panels and the context are as they are.    *)
LEMMA SettledNow ==
  ASSUME NEW c, NEW q, NEW r, NEW vm, NEW bt
  PROVE  Settled(c, q, 0, vm, bt) => Settled(c, r, 0, vm, bt)
<1>1. \A p, reg, v : Ends(c, q, 0, p, reg, v) <=> c[p][reg] = v
  BY DEF Ends
<1>2. \A p, reg, v : Ends(c, r, 0, p, reg, v) <=> c[p][reg] = v
  BY DEF Ends
<1>3. \A x, f, v : (Left(x, q, 0, f, v) <=> x = v) /\ (Left(x, r, 0, f, v) <=> x = v)
  BY DEF Left
<1> QED BY <1>1, <1>2, <1>3 DEF Settled, ModeSettled, TestSettled

-----------------------------------------------------------------------------
(* A handler that starts.                                                  *)

(* A step that does not take part in the mode.                             *)
Neutral(s) ==
  /\ s.kind = "set" => s.field \notin {"vid_mode", "bist"}
  /\ s.kind \in {"try", "must"} => s.reg \notin {"VID_MODE", "PL_SYNC", "PL_SELF_TEST_CFG"}

(* Steps that do not write a register leave what will be in it.            *)
LEMMA EndsKept ==
  ASSUME NEW q, NEW n \in Nat, NEW m \in Nat, n <= m, NEW c, NEW p, NEW reg, NEW v,
         Ends(c, q, n, p, reg, v), \A j \in n + 1 .. m : ~Hits(q[j], p, reg)
  PROVE  Ends(c, q, m, p, reg, v)
<1>1. CASE \E i \in 1 .. n : /\ Hits(q[i], p, reg) /\ q[i].val = v
                             /\ \A j \in i + 1 .. n : ~Hits(q[j], p, reg)
  <2>1. PICK i \in 1 .. n : /\ Hits(q[i], p, reg) /\ q[i].val = v
                            /\ \A j \in i + 1 .. n : ~Hits(q[j], p, reg)
    BY <1>1
  <2>2. i \in 1 .. m /\ \A j \in i + 1 .. m : j \in i + 1 .. n \/ j \in n + 1 .. m
    OBVIOUS
  <2>3. \A j \in i + 1 .. m : ~Hits(q[j], p, reg)
    BY <2>1, <2>2
  <2> QED BY <2>1, <2>2, <2>3 DEF Ends
<1>2. CASE (\A j \in 1 .. n : ~Hits(q[j], p, reg)) /\ c[p][reg] = v
  <2>1. \A j \in 1 .. m : j \in 1 .. n \/ j \in n + 1 .. m
    OBVIOUS
  <2> QED BY <1>2, <2>1 DEF Ends
<1> QED BY <1>1, <1>2 DEF Ends

(* The same for a field of the context.                                    *)
LEMMA LeftKept ==
  ASSUME NEW q, NEW n \in Nat, NEW m \in Nat, n <= m, NEW x, NEW f, NEW v,
         Left(x, q, n, f, v), \A j \in n + 1 .. m : ~Assigns(q[j], f)
  PROVE  Left(x, q, m, f, v)
<1>1. CASE \E i \in 1 .. n : /\ Assigns(q[i], f) /\ q[i].val = v
                             /\ \A j \in i + 1 .. n : ~Assigns(q[j], f)
  <2>1. PICK i \in 1 .. n : /\ Assigns(q[i], f) /\ q[i].val = v
                            /\ \A j \in i + 1 .. n : ~Assigns(q[j], f)
    BY <1>1
  <2>2. i \in 1 .. m /\ \A j \in i + 1 .. m : j \in i + 1 .. n \/ j \in n + 1 .. m
    OBVIOUS
  <2>3. \A j \in i + 1 .. m : ~Assigns(q[j], f)
    BY <2>1, <2>2
  <2> QED BY <2>1, <2>2, <2>3 DEF Left
<1>2. CASE (\A j \in 1 .. n : ~Assigns(q[j], f)) /\ x = v
  <2>1. \A j \in 1 .. m : j \in 1 .. n \/ j \in n + 1 .. m
    OBVIOUS
  <2> QED BY <1>2, <2>1 DEF Left
<1> QED BY <1>1, <1>2 DEF Left

(* Steps that do not set the test pattern leave it settled ...             *)
LEMMA TestKept ==
  ASSUME NEW q, NEW n \in Nat, NEW m \in Nat, n <= m, NEW c, NEW bt, TestSettled(c, q, n, bt),
         \A j \in n + 1 .. m : ~Assigns(q[j], "bist")
                               /\ \A p \in Panel : ~Hits(q[j], p, "PL_SELF_TEST_CFG")
  PROVE  TestSettled(c, q, m, bt)
<1>1. \A b : Left(bt, q, n, "bist", b) => Left(bt, q, m, "bist", b)
  BY LeftKept
<1>2. \A p \in Panel : \A v : Ends(c, q, n, p, "PL_SELF_TEST_CFG", v) => Ends(c, q, m, p, "PL_SELF_TEST_CFG", v)
  BY EndsKept
<1> QED BY <1>1, <1>2 DEF TestSettled

(* ... and steps that take no part in the mode leave all settled.          *)
LEMMA SettledKept ==
  ASSUME NEW q, NEW n \in Nat, NEW m \in Nat, n <= m, NEW c, NEW vm, NEW bt, Settled(c, q, n, vm, bt),
         \A j \in n + 1 .. m : Neutral(q[j])
  PROVE  Settled(c, q, m, vm, bt)
<1>1. ASSUME NEW j \in n + 1 .. m
      PROVE  /\ ~Assigns(q[j], "vid_mode") /\ ~Assigns(q[j], "bist")
             /\ \A p \in Panel : /\ ~Hits(q[j], p, "VID_MODE") /\ ~Hits(q[j], p, "PL_SYNC")
                                 /\ ~Hits(q[j], p, "PL_SELF_TEST_CFG")
  <2>1. Neutral(q[j])
    OBVIOUS
  <2> QED BY <2>1 DEF Neutral, Assigns, Hits
<1>2. TestSettled(c, q, m, bt)
  BY <1>1, TestKept DEF Settled
<1>3. \A b : Left(vm, q, n, "vid_mode", b) => Left(vm, q, m, "vid_mode", b)
  BY <1>1, LeftKept
<1>4. \A p \in Panel : \A v : Ends(c, q, n, p, "VID_MODE", v) => Ends(c, q, m, p, "VID_MODE", v)
  BY <1>1, EndsKept
<1>5. \A p \in Panel : \A v : Ends(c, q, n, p, "PL_SYNC", v) => Ends(c, q, m, p, "PL_SYNC", v)
  BY <1>1, EndsKept
<1>6. ModeSettled(c, q, m, vm)
  BY <1>3, <1>4, <1>5 DEF Settled, ModeSettled
<1> QED BY <1>2, <1>6 DEF Settled

(* A job of steps that take no part in the mode.                           *)
LEMMA NeutralJob ==
  ASSUME NEW q \in Seq(HandlerSteps), NEW c, NEW vm, NEW bt, Settled(c, q, 0, vm, bt),
         \A i \in 1 .. Len(q) : Neutral(q[i]),
         \A i \in 1 .. Len(q), p \in Panel : ~Hits(q[i], p, "DEMURA_SRAM"),
         \A i \in 1 .. Len(q) : q[i].kind \in {"loop", "trigger"} => i = Len(q)
  PROVE  JobOK(c, q, vm, bt)
<1>1. ASSUME NEW n \in Stops(q) PROVE Settled(c, q, n, vm, bt)
  <2>1. Len(q) \in Nat /\ n \in 0 .. Len(q)
    BY StopsForm
  <2>2. \A j \in 0 + 1 .. n : Neutral(q[j])
    BY <2>1
  <2> QED BY <2>1, <2>2, SettledKept
<1> QED BY <1>1 DEF JobOK

(* A switch to Video Mode after n steps.                                   *)
LEMMA VideoSettled ==
  ASSUME NEW q, NEW n \in Nat, NEW c, NEW vm, NEW bt, TestSettled(c, q, n, bt),
         q[n + 1] = Try(All, "VID_MODE", VideoMode), q[n + 2] = Try(All, "PL_SYNC", SyncAll),
         q[n + 3] = Set("vid_mode", TRUE)
  PROVE  Settled(c, q, n + 3, vm, bt)
<1>1. n + 1 .. n + 3 = {n + 1, n + 2, n + 3} /\ n + 2 .. n + 3 = {n + 2, n + 3} /\ n + 4 .. n + 3 = {}
      /\ n + 3 .. n + 3 = {n + 3} /\ n + 3 \in 1 .. n + 3
      /\ n + 3 \in Nat /\ (n + 1) + 1 = n + 2 /\ (n + 2) + 1 = n + 3 /\ (n + 3) + 1 = n + 4
  OBVIOUS
<1>2. /\ q[n + 1].kind = "try" /\ q[n + 1].to = Panel /\ q[n + 1].reg = "VID_MODE" /\ q[n + 1].val = VideoMode
      /\ q[n + 2].kind = "try" /\ q[n + 2].to = Panel /\ q[n + 2].reg = "PL_SYNC" /\ q[n + 2].val = SyncAll
      /\ q[n + 3].kind = "set" /\ q[n + 3].field = "vid_mode" /\ q[n + 3].val = TRUE
  BY DEF Try, Set, All
<1>3. TestSettled(c, q, n + 3, bt)
  <2>1. \A j \in n + 1 .. n + 3 : ~Assigns(q[j], "bist")
                                  /\ \A p \in Panel : ~Hits(q[j], p, "PL_SELF_TEST_CFG")
    BY <1>1, <1>2 DEF Assigns, Hits
  <2> QED BY <1>1, <2>1, TestKept
<1>4. Left(vm, q, n + 3, "vid_mode", TRUE)
  <2>1. Assigns(q[n + 3], "vid_mode") /\ \A j \in (n + 3) + 1 .. n + 3 : ~Assigns(q[j], "vid_mode")
    BY <1>1, <1>2 DEF Assigns
  <2> QED BY <1>1, <1>2, <2>1 DEF Left
<1>5. ASSUME NEW p \in Panel
      PROVE  Ends(c, q, n + 3, p, "VID_MODE", VideoMode) /\ Ends(c, q, n + 3, p, "PL_SYNC", SyncAll)
  <2>1. Hits(q[n + 1], p, "VID_MODE") /\ \A j \in (n + 1) + 1 .. n + 3 : ~Hits(q[j], p, "VID_MODE")
    BY <1>1, <1>2 DEF Hits
  <2>2. Hits(q[n + 2], p, "PL_SYNC") /\ \A j \in (n + 2) + 1 .. n + 3 : ~Hits(q[j], p, "PL_SYNC")
    BY <1>1, <1>2 DEF Hits
  <2>3. n + 1 \in 1 .. n + 3 /\ n + 2 \in 1 .. n + 3
    OBVIOUS
  <2> QED BY <1>2, <2>1, <2>2, <2>3 DEF Ends
<1>6. ModeSettled(c, q, n + 3, vm)
  <2>1. SyncAll \in Value /\ ModeOf(TRUE) = VideoMode
    BY SMT DEF SyncAll, Value, ModeOf
  <2> QED BY <1>4, <1>5, <2>1, DefaultsLoad DEF ModeSettled
<1> QED BY <1>3, <1>6 DEF Settled

(* A switch to Command Mode after n steps.                                 *)
LEMMA CommandSettled ==
  ASSUME NEW q, NEW n \in Nat, NEW c, NEW vm, NEW bt, TestSettled(c, q, n, bt),
         q[n + 1] = Try(All, "VID_MODE", CommandMode), q[n + 2] = Try(All, "PL_SYNC", SyncOnce),
         q[n + 3] = Set("vid_mode", FALSE)
  PROVE  /\ Settled(c, q, n + 3, vm, bt)
         /\ \A p \in Panel : Ends(c, q, n + 3, p, "VID_MODE", CommandMode)
<1>1. n + 1 .. n + 3 = {n + 1, n + 2, n + 3} /\ n + 2 .. n + 3 = {n + 2, n + 3} /\ n + 4 .. n + 3 = {}
      /\ n + 3 .. n + 3 = {n + 3} /\ n + 3 \in 1 .. n + 3
      /\ n + 3 \in Nat /\ (n + 1) + 1 = n + 2 /\ (n + 3) + 1 = n + 4
  OBVIOUS
<1>2. /\ q[n + 1].kind = "try" /\ q[n + 1].to = Panel /\ q[n + 1].reg = "VID_MODE" /\ q[n + 1].val = CommandMode
      /\ q[n + 2].kind = "try" /\ q[n + 2].to = Panel /\ q[n + 2].reg = "PL_SYNC"
      /\ q[n + 3].kind = "set" /\ q[n + 3].field = "vid_mode" /\ q[n + 3].val = FALSE
  BY DEF Try, Set, All
<1>3. TestSettled(c, q, n + 3, bt)
  <2>1. \A j \in n + 1 .. n + 3 : ~Assigns(q[j], "bist")
                                  /\ \A p \in Panel : ~Hits(q[j], p, "PL_SELF_TEST_CFG")
    BY <1>1, <1>2 DEF Assigns, Hits
  <2> QED BY <1>1, <2>1, TestKept
<1>4. Left(vm, q, n + 3, "vid_mode", FALSE)
  <2>1. Assigns(q[n + 3], "vid_mode") /\ \A j \in (n + 3) + 1 .. n + 3 : ~Assigns(q[j], "vid_mode")
    BY <1>1, <1>2 DEF Assigns
  <2> QED BY <1>1, <1>2, <2>1 DEF Left
<1>5. ASSUME NEW p \in Panel
      PROVE  Ends(c, q, n + 3, p, "VID_MODE", CommandMode)
  <2>1. Hits(q[n + 1], p, "VID_MODE") /\ \A j \in (n + 1) + 1 .. n + 3 : ~Hits(q[j], p, "VID_MODE")
    BY <1>1, <1>2 DEF Hits
  <2>2. n + 1 \in 1 .. n + 3
    OBVIOUS
  <2> QED BY <1>2, <2>1, <2>2 DEF Ends
<1>6. ModeSettled(c, q, n + 3, vm)
  BY <1>4, <1>5 DEF ModeSettled, ModeOf
<1> QED BY <1>3, <1>5, <1>6 DEF Settled

(* A job none of whose steps must succeed ends at its end.                 *)
LEMMA TriesToTheEnd ==
  ASSUME NEW q \in Seq(HandlerSteps), NEW c, NEW vm, NEW bt,
         \A i \in 1 .. Len(q) : q[i].kind \in {"try", "set"},
         \A i \in 1 .. Len(q), p \in Panel :
           Hits(q[i], p, "DEMURA_SRAM") => Ends(c, q, i - 1, p, "VID_MODE", CommandMode),
         Settled(c, q, Len(q), vm, bt)
  PROVE  JobOK(c, q, vm, bt)
<1>1. ASSUME NEW n \in Stops(q) PROVE n = Len(q)
  <2>1. Len(q) \in Nat /\ n \in 0 .. Len(q) /\ (n = Len(q) \/ q[n + 1].kind = "must")
    BY StopsForm
  <2>2. n # Len(q) => n + 1 \in 1 .. Len(q)
    BY <2>1
  <2> QED BY <2>1, <2>2
<1>2. \A i \in 1 .. Len(q) : q[i].kind \in {"loop", "trigger"} => i = Len(q)
  OBVIOUS
<1> QED BY <1>1, <1>2 DEF JobOK

(* Three sequences put together.                                           *)
LEMMA ThreeParts ==
  ASSUME NEW a \in Seq(HandlerSteps), NEW b \in Seq(HandlerSteps), NEW d \in Seq(HandlerSteps)
  PROVE  LET q == (a \o b) \o d IN
         /\ q \in Seq(HandlerSteps) /\ Len(q) = Len(a) + Len(b) + Len(d)
         /\ Len(a) \in Nat /\ Len(b) \in Nat /\ Len(d) \in Nat
         /\ \A i \in 1 .. Len(a) : q[i] = a[i]
         /\ \A i \in 1 .. Len(b) : q[Len(a) + i] = b[i]
         /\ \A i \in 1 .. Len(d) : q[Len(a) + Len(b) + i] = d[i]
  OBVIOUS

(* vid_mode_store.                                                         *)
LEMMA VidModeJob ==
  ASSUME NEW v \in BOOLEAN, NEW c, NEW vm, NEW bt, Settled(c, << >>, 0, vm, bt)
  PROVE  JobOK(c, VidModeStore(v), vm, bt)
<1> DEFINE q == VidModeStore(v)
<1>1. q \in Seq(HandlerSteps) /\ Len(q) = 3
  BY PartsTyped DEF VidModeStore
<1>2. /\ q[1] = Try(All, "VID_MODE", IF v THEN VideoMode ELSE CommandMode)
      /\ q[2] = Try(All, "PL_SYNC", IF v THEN SyncAll ELSE SyncOnce)
      /\ q[3] = Set("vid_mode", v)
  BY DEF VidModeStore, EnterVideo, EnterCommand
<1> HIDE DEF q
<1>3. TestSettled(c, q, 0, bt)
  BY SettledNow DEF Settled
<1>4. Settled(c, q, 3, vm, bt)
  <2>1. 0 + 1 = 1 /\ 0 + 2 = 2 /\ 0 + 3 = 3
    OBVIOUS
  <2>2. CASE v = TRUE
    <3>1. Settled(c, q, 0 + 3, vm, bt)
      BY <1>2, <1>3, <2>1, <2>2, VideoSettled
    <3> QED BY <2>1, <3>1
  <2>3. CASE v = FALSE
    <3>1. Settled(c, q, 0 + 3, vm, bt)
      BY <1>2, <1>3, <2>1, <2>3, CommandSettled
    <3> QED BY <2>1, <3>1
  <2> QED BY <2>2, <2>3
<1>5. 1 .. 3 = {1, 2, 3}
  OBVIOUS
<1>6. \A i \in 1 .. Len(q) : q[i].kind \in {"try", "set"}
  BY <1>1, <1>2, <1>5 DEF Try, Set
<1>7. \A i \in 1 .. Len(q), p \in Panel : ~Hits(q[i], p, "DEMURA_SRAM")
  BY <1>1, <1>2, <1>5 DEF Try, Set, Hits
<1>8. JobOK(c, q, vm, bt)
  BY <1>1, <1>4, <1>6, <1>7, TriesToTheEnd
<1> QED BY <1>8 DEF q

(* bist_store, if the last word about the test pattern of some panel p is  *)
(* to show it.                                                             *)
LEMMA BistOnJob ==
  ASSUME NEW steps \in Seq(HandlerSteps), NEW c, NEW vm, NEW bt,
         \A i \in 1 .. Len(steps) : steps[i].kind = "try" /\ steps[i].reg \notin {"VID_MODE", "DEMURA_SRAM"},
         NEW p \in Panel, NEW k \in 1 .. Len(steps),
         Hits(steps[k], p, "PL_SELF_TEST_CFG"), steps[k].val = SelfTestOn,
         \A j \in k + 1 .. Len(steps) : ~Hits(steps[j], p, "PL_SELF_TEST_CFG")
  PROVE  JobOK(c, BistOn(steps), vm, bt)
<1> DEFINE q == BistOn(steps)
           N == Len(steps)
           first == << Try(All, "VID_MODE", CommandMode), Try(All, "SETUP", 1), Try(All, "DISP_CTL", 1) >>
           last == << Set("bist", TRUE), Set("vid_mode", FALSE) >>
<1>1. first \in Seq(HandlerSteps) /\ last \in Seq(HandlerSteps) /\ Len(first) = 3 /\ Len(last) = 2
  <2>1. Set("bist", TRUE) \in HandlerSteps /\ Set("vid_mode", FALSE) \in HandlerSteps
    BY AssignmentForms
  <2> QED BY <2>1, HandlerWriteForms, StepTuples
<1>2. q = (first \o steps) \o last
  BY DEF BistOn
<1>3. /\ first[1] = Try(All, "VID_MODE", CommandMode) /\ first[2] = Try(All, "SETUP", 1)
      /\ first[3] = Try(All, "DISP_CTL", 1)
      /\ last[1] = Set("bist", TRUE) /\ last[2] = Set("vid_mode", FALSE)
  OBVIOUS
<1> HIDE DEF q, first, last
<1>4. /\ q \in Seq(HandlerSteps) /\ Len(q) = 3 + N + 2 /\ N \in Nat
      /\ \A i \in 1 .. 3 : q[i] = first[i]
      /\ \A i \in 1 .. N : q[3 + i] = steps[i]
      /\ \A i \in 1 .. 2 : q[3 + N + i] = last[i]
  <2>1. LET z == (first \o steps) \o last IN
        /\ z \in Seq(HandlerSteps) /\ Len(z) = Len(first) + Len(steps) + Len(last)
        /\ Len(steps) \in Nat
        /\ \A i \in 1 .. Len(first) : z[i] = first[i]
        /\ \A i \in 1 .. Len(steps) : z[Len(first) + i] = steps[i]
        /\ \A i \in 1 .. Len(last) : z[Len(first) + Len(steps) + i] = last[i]
    <3> HIDE DEF N
    <3>1. first \in Seq(HandlerSteps) /\ last \in Seq(HandlerSteps)
      BY <1>1
    <3> QED BY <3>1, ThreeParts
  <2> QED BY <1>1, <1>2, <2>1
<1> HIDE DEF N
<1>5. /\ q[1].kind = "try" /\ q[1].to = Panel /\ q[1].reg = "VID_MODE" /\ q[1].val = CommandMode
      /\ q[2].kind = "try" /\ q[2].reg = "SETUP" /\ q[3].kind = "try" /\ q[3].reg = "DISP_CTL"
      /\ q[N + 4].kind = "set" /\ q[N + 4].field = "bist" /\ q[N + 4].val = TRUE
      /\ q[N + 5].kind = "set" /\ q[N + 5].field = "vid_mode" /\ q[N + 5].val = FALSE
  <2>1. 3 + N + 1 = N + 4 /\ 3 + N + 2 = N + 5 /\ 1 \in 1 .. 2 /\ 2 \in 1 .. 2
        /\ 1 \in 1 .. 3 /\ 2 \in 1 .. 3 /\ 3 \in 1 .. 3
    BY <1>4
  <2>2. /\ q[1] = first[1] /\ q[2] = first[2] /\ q[3] = first[3]
        /\ q[N + 4] = last[1] /\ q[N + 5] = last[2]
    BY <1>4, <2>1
  <2> QED BY <1>3, <2>2 DEF Try, Set, All
<1>6. ASSUME NEW i \in 1 .. N + 5
      PROVE  \/ i \in {1, 2, 3, N + 4, N + 5}
             \/ /\ i \in 4 .. N + 3 /\ q[i] = steps[i - 3]
                /\ q[i].kind = "try" /\ q[i].reg \notin {"VID_MODE", "DEMURA_SRAM"}
  <2>1. \/ i \in {1, 2, 3, N + 4, N + 5}
        \/ i - 3 \in 1 .. N /\ 3 + (i - 3) = i /\ i \in 4 .. N + 3
    BY <1>4
  <2>2. i - 3 \in 1 .. N => q[3 + (i - 3)] = steps[i - 3]
    BY <1>4
  <2> QED BY <2>1, <2>2 DEF N
<1>7. Len(q) = N + 5 /\ N + 5 \in Nat
  BY <1>4
<1>8. \A i \in 1 .. Len(q) : q[i].kind \in {"try", "set"}
  BY <1>5, <1>6, <1>7
<1>9. \A i \in 1 .. Len(q), r \in Panel : ~Hits(q[i], r, "DEMURA_SRAM")
  BY <1>5, <1>6, <1>7 DEF Hits
<1>10. ModeSettled(c, q, N + 5, vm)
  <2>1. Left(vm, q, N + 5, "vid_mode", FALSE)
    <3>1. Assigns(q[N + 5], "vid_mode") /\ q[N + 5].val = FALSE
      BY <1>5 DEF Assigns
    <3>2. N + 5 \in 1 .. N + 5 /\ (N + 5) + 1 .. N + 5 = {}
      BY <1>4
    <3> QED BY <3>1, <3>2 DEF Left
  <2>2. ASSUME NEW r \in Panel PROVE Ends(c, q, N + 5, r, "VID_MODE", CommandMode)
    <3>1. Hits(q[1], r, "VID_MODE") /\ q[1].val = CommandMode
      BY <1>5 DEF Hits
    <3>2. \A j \in 1 + 1 .. N + 5 : j \in 1 .. N + 5 /\ j # 1
      BY <1>4
    <3>3. \A j \in 1 + 1 .. N + 5 : ~Hits(q[j], r, "VID_MODE")
      BY <1>5, <1>6, <3>2 DEF Hits
    <3>4. 1 \in 1 .. N + 5
      BY <1>4
    <3> QED BY <3>1, <3>3, <3>4 DEF Ends
  <2> QED BY <2>1, <2>2 DEF ModeSettled, ModeOf
<1>11. TestSettled(c, q, N + 5, bt)
  <2>1. Left(bt, q, N + 5, "bist", TRUE)
    <3>1. Assigns(q[N + 4], "bist") /\ q[N + 4].val = TRUE /\ ~Assigns(q[N + 5], "bist")
      BY <1>5 DEF Assigns
    <3>2. N + 4 \in 1 .. N + 5 /\ (N + 4) + 1 .. N + 5 = {N + 5}
      BY <1>4
    <3> QED BY <3>1, <3>2 DEF Left
  <2>2. Ends(c, q, N + 5, p, "PL_SELF_TEST_CFG", SelfTestOn)
    <3>1. k \in 1 .. N /\ q[3 + k] = steps[k] /\ 3 + k \in 1 .. N + 5
      BY <1>4 DEF N
    <3>2. ASSUME NEW j \in (3 + k) + 1 .. N + 5 PROVE ~Hits(q[j], p, "PL_SELF_TEST_CFG")
      <4>1. j \in 1 .. N + 5 /\ j \notin {1, 2, 3}
        BY <1>4, <3>1
      <4>2. CASE j \in {N + 4, N + 5}
        BY <1>5, <4>2 DEF Hits
      <4>3. CASE q[j] = steps[j - 3] /\ j \in 4 .. N + 3
        <5>1. j - 3 \in k + 1 .. N
          BY <1>4, <3>1, <4>3
        <5> QED BY <4>3, <5>1 DEF N
      <4> QED BY <1>6, <4>1, <4>2, <4>3
    <3> QED BY <3>1, <3>2 DEF Ends
  <2> QED BY <2>1, <2>2 DEF TestSettled
<1>12. JobOK(c, q, vm, bt)
  BY <1>4, <1>7, <1>8, <1>9, <1>10, <1>11, TriesToTheEnd DEF Settled
<1> QED BY <1>12 DEF q

(* bist_store for one colour: the other two panels are switched off.       *)
LEMMA BistColourJob ==
  ASSUME NEW x \in Panel, NEW c, NEW vm, NEW bt
  PROVE  JobOK(c, BistStore(x), vm, bt)
<1> DEFINE steps == (BistPanel(x, "R") \o BistPanel(x, "G")) \o BistPanel(x, "B")
<1>1. \A p \in Panel : BistPanel(x, p) \in Seq(HandlerSteps) /\ Len(BistPanel(x, p)) = 2
  BY PartsTyped
<1>2. ASSUME NEW p \in Panel
      PROVE  /\ BistPanel(x, p)[1].kind = "try" /\ BistPanel(x, p)[1].to = {p}
             /\ BistPanel(x, p)[1].reg = "PL_SELF_TEST_CFG"
             /\ p = x => BistPanel(x, p)[1].val = SelfTestOn
             /\ BistPanel(x, p)[2].kind = "try" /\ BistPanel(x, p)[2].to = {p}
             /\ BistPanel(x, p)[2].reg \in {"PL_SYNC", "DISP_CTL"}
  <2>1. CASE x = p
    BY <2>1 DEF BistPanel, Try
  <2>2. CASE x # p
    BY <2>2 DEF BistPanel, Try
  <2> QED BY <2>1, <2>2
<1>3. "R" \in Panel /\ "G" \in Panel /\ "B" \in Panel /\ x \in {"R", "G", "B"}
  BY DEF Panel
<1>4. /\ steps \in Seq(HandlerSteps) /\ Len(steps) = 6
      /\ steps[1] = BistPanel(x, "R")[1] /\ steps[2] = BistPanel(x, "R")[2]
      /\ steps[3] = BistPanel(x, "G")[1] /\ steps[4] = BistPanel(x, "G")[2]
      /\ steps[5] = BistPanel(x, "B")[1] /\ steps[6] = BistPanel(x, "B")[2]
  <2>1. ASSUME NEW a \in Seq(HandlerSteps), NEW b \in Seq(HandlerSteps), NEW d \in Seq(HandlerSteps),
               Len(a) = 2, Len(b) = 2, Len(d) = 2
        PROVE  LET z == (a \o b) \o d IN
               /\ z \in Seq(HandlerSteps) /\ Len(z) = 6
               /\ z[1] = a[1] /\ z[2] = a[2] /\ z[3] = b[1] /\ z[4] = b[2] /\ z[5] = d[1] /\ z[6] = d[2]
    <3> DEFINE z == (a \o b) \o d
    <3>1. /\ z \in Seq(HandlerSteps) /\ Len(z) = Len(a) + Len(b) + Len(d)
          /\ \A i \in 1 .. Len(a) : z[i] = a[i]
          /\ \A i \in 1 .. Len(b) : z[Len(a) + i] = b[i]
          /\ \A i \in 1 .. Len(d) : z[Len(a) + Len(b) + i] = d[i]
      BY ThreeParts
    <3> HIDE DEF z
    <3>2. 1 .. 2 = {1, 2}
      OBVIOUS
    <3>3. z \in Seq(HandlerSteps) /\ Len(z) = 6
      BY <2>1, <3>1
    <3>4. z[1] = a[1] /\ z[2] = a[2] /\ z[2 + 1] = b[1] /\ z[2 + 2] = b[2]
          /\ z[2 + 2 + 1] = d[1] /\ z[2 + 2 + 2] = d[2]
      BY <2>1, <3>1, <3>2
    <3>5. z[3] = b[1] /\ z[4] = b[2] /\ z[5] = d[1] /\ z[6] = d[2]
      BY <3>4
    <3> QED BY <3>3, <3>4, <3>5 DEF z
  <2>2. /\ BistPanel(x, "R") \in Seq(HandlerSteps) /\ Len(BistPanel(x, "R")) = 2
        /\ BistPanel(x, "G") \in Seq(HandlerSteps) /\ Len(BistPanel(x, "G")) = 2
        /\ BistPanel(x, "B") \in Seq(HandlerSteps) /\ Len(BistPanel(x, "B")) = 2
    BY <1>1, <1>3
  <2> QED BY <2>1, <2>2
<1>5. BistStore(x) = BistOn(steps)
  BY BistCases
<1> HIDE DEF steps
<1>6. 1 .. 6 = {1, 2, 3, 4, 5, 6}
  OBVIOUS
<1>7. \A i \in 1 .. 6 : steps[i].kind = "try" /\ steps[i].reg \notin {"VID_MODE", "DEMURA_SRAM"}
  BY <1>2, <1>3, <1>4, <1>6
<1>8. PICK k \in 1 .. 6 : /\ Hits(steps[k], x, "PL_SELF_TEST_CFG") /\ steps[k].val = SelfTestOn
                          /\ \A j \in 1 .. 6 : Hits(steps[j], x, "PL_SELF_TEST_CFG") => j = k
  <2>1. \A j \in 1 .. 6 : Hits(steps[j], x, "PL_SELF_TEST_CFG") =>
           (j = 1 /\ x = "R") \/ (j = 3 /\ x = "G") \/ (j = 5 /\ x = "B")
    BY <1>2, <1>3, <1>4, <1>6 DEF Hits
  <2>2. CASE x = "R"
    <3>1. Hits(steps[1], x, "PL_SELF_TEST_CFG") /\ steps[1].val = SelfTestOn
      BY <1>2, <1>3, <1>4, <2>2 DEF Hits
    <3> QED BY <1>6, <2>1, <2>2, <3>1
  <2>3. CASE x = "G"
    <3>1. Hits(steps[3], x, "PL_SELF_TEST_CFG") /\ steps[3].val = SelfTestOn
      BY <1>2, <1>3, <1>4, <2>3 DEF Hits
    <3> QED BY <1>6, <2>1, <2>3, <3>1
  <2>4. CASE x = "B"
    <3>1. Hits(steps[5], x, "PL_SELF_TEST_CFG") /\ steps[5].val = SelfTestOn
      BY <1>2, <1>3, <1>4, <2>4 DEF Hits
    <3> QED BY <1>6, <2>1, <2>4, <3>1
  <2> QED BY <1>3, <2>2, <2>3, <2>4
<1>9. \A j \in k + 1 .. Len(steps) : ~Hits(steps[j], x, "PL_SELF_TEST_CFG")
  BY <1>4, <1>8
<1>10. \A i \in 1 .. Len(steps) : steps[i].kind = "try" /\ steps[i].reg \notin {"VID_MODE", "DEMURA_SRAM"}
  BY <1>4, <1>7
<1>11. k \in 1 .. Len(steps)
  BY <1>4
<1> QED BY <1>4, <1>5, <1>8, <1>9, <1>10, <1>11, BistOnJob

(* bist_store for all panels.                                              *)
LEMMA BistWhiteJob ==
  ASSUME NEW c, NEW vm, NEW bt
  PROVE  JobOK(c, BistStore("w"), vm, bt)
<1> DEFINE steps == << Try(All, "PL_SELF_TEST_CFG", SelfTestOn), Try(All, "PL_SYNC", SyncAll) >>
<1>1. steps \in Seq(HandlerSteps) /\ Len(steps) = 2
  BY HandlerWriteForms, StepTuples
<1>2. /\ steps[1].kind = "try" /\ steps[1].to = Panel /\ steps[1].reg = "PL_SELF_TEST_CFG"
      /\ steps[1].val = SelfTestOn
      /\ steps[2].kind = "try" /\ steps[2].reg = "PL_SYNC"
  BY DEF Try, All
<1>3. BistStore("w") = BistOn(steps)
  BY BistCases
<1> HIDE DEF steps
<1>4. 1 .. 2 = {1, 2} /\ 1 + 1 .. 2 = {2}
  OBVIOUS
<1>5. "R" \in Panel
  BY DEF Panel
<1>6. \A i \in 1 .. Len(steps) : steps[i].kind = "try" /\ steps[i].reg \notin {"VID_MODE", "DEMURA_SRAM"}
  BY <1>1, <1>2, <1>4
<1>7. /\ 1 \in 1 .. Len(steps) /\ Hits(steps[1], "R", "PL_SELF_TEST_CFG")
      /\ \A j \in 1 + 1 .. Len(steps) : ~Hits(steps[j], "R", "PL_SELF_TEST_CFG")
  BY <1>1, <1>2, <1>4, <1>5 DEF Hits
<1> QED BY <1>1, <1>2, <1>3, <1>5, <1>6, <1>7, BistOnJob

(* bist_store back to Video Mode.                                          *)
LEMMA BistOffJob ==
  ASSUME NEW c, NEW vm, NEW bt
  PROVE  JobOK(c, BistStore("0"), vm, bt)
<1> DEFINE q == BistOff
<1>1. q \in Seq(HandlerSteps) /\ Len(q) = 7
  <2>1. ASSUME NEW a1 \in HandlerSteps, NEW a2 \in HandlerSteps, NEW a3 \in HandlerSteps,
               NEW a4 \in HandlerSteps, NEW a5 \in HandlerSteps, NEW a6 \in HandlerSteps,
               NEW a7 \in HandlerSteps
        PROVE  /\ << a1, a2, a3, a4, a5, a6, a7 >> \in Seq(HandlerSteps)
               /\ Len(<< a1, a2, a3, a4, a5, a6, a7 >>) = 7
    OBVIOUS
  <2>2. Set("bist", FALSE) \in HandlerSteps /\ Set("vid_mode", TRUE) \in HandlerSteps
    BY AssignmentForms
  <2> QED BY <2>1, <2>2, HandlerWriteForms DEF BistOff
<1>2. /\ q[1].kind = "try" /\ q[1].to = Panel /\ q[1].reg = "PL_SELF_TEST_CFG" /\ q[1].val = 0
      /\ q[2].kind = "try" /\ q[2].reg = "SETUP" /\ q[3].kind = "try" /\ q[3].reg = "DISP_CTL"
      /\ q[4].kind = "try" /\ q[4].to = Panel /\ q[4].reg = "VID_MODE" /\ q[4].val = VideoMode
      /\ q[5].kind = "try" /\ q[5].to = Panel /\ q[5].reg = "PL_SYNC" /\ q[5].val = SyncAll
      /\ q[6].kind = "set" /\ q[6].field = "bist" /\ q[6].val = FALSE
      /\ q[7].kind = "set" /\ q[7].field = "vid_mode" /\ q[7].val = TRUE
  BY DEF BistOff, Try, Set, All
<1> HIDE DEF q
<1>3. /\ 1 .. 7 = {1, 2, 3, 4, 5, 6, 7} /\ 2 .. 7 = {2, 3, 4, 5, 6, 7} /\ 5 .. 7 = {5, 6, 7}
      /\ 6 .. 7 = {6, 7} /\ 7 .. 7 = {7} /\ 8 .. 7 = {}
      /\ 1 + 1 = 2 /\ 4 + 1 = 5 /\ 5 + 1 = 6 /\ 6 + 1 = 7 /\ 7 + 1 = 8
  OBVIOUS
<1>4. \A i \in 1 .. Len(q) : q[i].kind \in {"try", "set"}
  BY <1>1, <1>2, <1>3
<1>5. \A i \in 1 .. Len(q), p \in Panel : ~Hits(q[i], p, "DEMURA_SRAM")
  BY <1>1, <1>2, <1>3 DEF Hits
<1>6. ModeSettled(c, q, 7, vm)
  <2>1. Left(vm, q, 7, "vid_mode", TRUE)
    BY <1>2, <1>3 DEF Left, Assigns
  <2>2. ASSUME NEW p \in Panel
        PROVE  Ends(c, q, 7, p, "VID_MODE", VideoMode) /\ Ends(c, q, 7, p, "PL_SYNC", SyncAll)
    <3>1. Hits(q[4], p, "VID_MODE") /\ \A j \in 4 + 1 .. 7 : ~Hits(q[j], p, "VID_MODE")
      BY <1>2, <1>3 DEF Hits
    <3>2. Hits(q[5], p, "PL_SYNC") /\ \A j \in 5 + 1 .. 7 : ~Hits(q[j], p, "PL_SYNC")
      BY <1>2, <1>3 DEF Hits
    <3> QED BY <1>2, <1>3, <3>1, <3>2 DEF Ends
  <2>3. SyncAll \in Value /\ ModeOf(TRUE) = VideoMode
    BY SMT DEF SyncAll, Value, ModeOf
  <2> QED BY <2>1, <2>2, <2>3, DefaultsLoad DEF ModeSettled
<1>7. TestSettled(c, q, 7, bt)
  <2>1. Left(bt, q, 7, "bist", FALSE)
    <3>1. Assigns(q[6], "bist") /\ ~Assigns(q[7], "bist")
      BY <1>2 DEF Assigns
    <3> QED BY <1>2, <1>3, <3>1 DEF Left
  <2>2. ASSUME NEW p \in Panel PROVE Ends(c, q, 7, p, "PL_SELF_TEST_CFG", 0)
    <3>1. Hits(q[1], p, "PL_SELF_TEST_CFG") /\ \A j \in 1 + 1 .. 7 : ~Hits(q[j], p, "PL_SELF_TEST_CFG")
      BY <1>2, <1>3 DEF Hits
    <3> QED BY <1>2, <1>3, <3>1 DEF Ends
  <2> QED BY <2>1, <2>2 DEF TestSettled
<1>8. JobOK(c, q, vm, bt)
  BY <1>1, <1>4, <1>5, <1>6, <1>7, TriesToTheEnd DEF Settled
<1> QED BY <1>8, BistCases DEF q

(* gamma_store, which may give up at any of its writes.                    *)
LEMMA GammaJob ==
  ASSUME NEW g \in {0, 10, 22}, NEW c, NEW vm, NEW bt, Settled(c, << >>, 0, vm, bt)
  PROVE  JobOK(c, GammaStore(g), vm, bt)
<1> DEFINE q == GammaStore(g)
<1>1. CASE g = 0
  <2>1. q = << Try(All, "GAM_CFG", 0), Set("gamma_val", g) >>
    BY <1>1 DEF GammaStore
  <2>2. q \in Seq(HandlerSteps) /\ Len(q) = 2
    BY <2>1, HandlerWriteForms, AssignmentForms, StepTuples
  <2>3. /\ q[1].kind = "try" /\ q[1].reg = "GAM_CFG"
        /\ q[2].kind = "set" /\ q[2].field = "gamma_val"
    BY <2>1 DEF Try, Set
  <2> HIDE DEF q
  <2>4. 1 .. 2 = {1, 2}
    OBVIOUS
  <2>5. \A i \in 1 .. Len(q) : Neutral(q[i]) /\ q[i].kind \notin {"loop", "trigger"}
                               /\ \A p \in Panel : ~Hits(q[i], p, "DEMURA_SRAM")
    BY <2>2, <2>3, <2>4 DEF Neutral, Hits
  <2>6. Settled(c, q, 0, vm, bt)
    BY SettledNow
  <2>7. JobOK(c, q, vm, bt)
    BY <2>2, <2>5, <2>6, NeutralJob
  <2> QED BY <2>7 DEF q
<1>2. CASE g # 0
  <2>1. q = GammaWrites(g) \o << Set("gamma_val", g) >>
    BY <1>2 DEF GammaStore
  <2>2. /\ GammaWrites(g) \in Seq(HandlerSteps) /\ Len(GammaWrites(g)) = 3
        /\ GammaWrites(g)[1] = Must(All, "GAMMA_LO", g) /\ GammaWrites(g)[2] = Must(All, "GAMMA_HI", g)
        /\ GammaWrites(g)[3] = Must(All, "GAM_CFG", GammaOn)
    <3>1. g \in {10, 22}
      BY <1>2
    <3>2. GammaWrites(g) \in Seq(HandlerSteps) /\ Len(GammaWrites(g)) = 3
      BY <3>1, PartsTyped
    <3> QED BY <3>2 DEF GammaWrites
  <2>3. q \in Seq(HandlerSteps) /\ Len(q) = 4
        /\ q[1] = GammaWrites(g)[1] /\ q[2] = GammaWrites(g)[2] /\ q[3] = GammaWrites(g)[3]
        /\ q[4] = Set("gamma_val", g)
    <3>1. ASSUME NEW a \in Seq(HandlerSteps), NEW s \in HandlerSteps, Len(a) = 3
          PROVE  LET z == a \o << s >> IN
                 /\ z \in Seq(HandlerSteps) /\ Len(z) = 4
                 /\ z[1] = a[1] /\ z[2] = a[2] /\ z[3] = a[3] /\ z[4] = s
      <4>1. a \o << s >> = Append(a, s)
        BY AppendIsConcat
      <4>2. 1 \in 1 .. 3 /\ 2 \in 1 .. 3 /\ 3 \in 1 .. 3 /\ 3 + 1 = 4
        OBVIOUS
      <4> DEFINE z == Append(a, s)
      <4>3. /\ z \in Seq(HandlerSteps) /\ Len(z) = Len(a) + 1
            /\ \A i \in 1 .. Len(a) : z[i] = a[i]
            /\ z[Len(a) + 1] = s
        BY AppendProperties
      <4> HIDE DEF z
      <4>4. Len(z) = 4 /\ z[1] = a[1] /\ z[2] = a[2] /\ z[3] = a[3] /\ z[4] = s
        BY <3>1, <4>2, <4>3
      <4> QED BY <4>1, <4>3, <4>4 DEF z
    <3>2. Set("gamma_val", g) \in HandlerSteps
      BY AssignmentForms
    <3> HIDE DEF q
    <3> QED BY <2>1, <2>2, <3>1, <3>2
  <2>4. /\ q[1].kind = "must" /\ q[1].reg = "GAMMA_LO" /\ q[2].kind = "must" /\ q[2].reg = "GAMMA_HI"
        /\ q[3].kind = "must" /\ q[3].reg = "GAM_CFG" /\ q[4].kind = "set" /\ q[4].field = "gamma_val"
    <3> HIDE DEF q
    <3> QED BY <2>2, <2>3 DEF Must, Set
  <2> HIDE DEF q
  <2>5. 1 .. 4 = {1, 2, 3, 4}
    OBVIOUS
  <2>6. \A i \in 1 .. Len(q) : Neutral(q[i]) /\ q[i].kind \notin {"loop", "trigger"}
                               /\ \A p \in Panel : ~Hits(q[i], p, "DEMURA_SRAM")
    BY <2>3, <2>4, <2>5 DEF Neutral, Hits
  <2>7. Settled(c, q, 0, vm, bt)
    BY SettledNow
  <2>8. JobOK(c, q, vm, bt)
    BY <2>3, <2>6, <2>7, NeutralJob
  <2> QED BY <2>8 DEF q
<1> QED BY <1>1, <1>2

(* refresh_loop_store and glb_scan_val_store, which begin with a read or   *)
(* come to one.                                                            *)
LEMMA ScanJobs ==
  ASSUME NEW c, NEW vm, NEW bt, Settled(c, << >>, 0, vm, bt)
  PROVE  /\ \A F \in {{"R"}, All}, en \in BOOLEAN : JobOK(c, << Loop(F, en) >>, vm, bt)
         /\ \A S \in {All} \cup {{p} : p \in Panel} : JobOK(c, GlbScanValStore(S), vm, bt)
<1>1. ASSUME NEW F \in {{"R"}, All}, NEW en \in BOOLEAN PROVE JobOK(c, << Loop(F, en) >>, vm, bt)
  <2> DEFINE q == << Loop(F, en) >>
  <2>1. q \in Seq(HandlerSteps) /\ Len(q) = 1 /\ q[1].kind = "loop"
    <3>1. Loop(F, en) \in HandlerSteps
      BY AssignmentForms
    <3> QED BY <3>1, StepTuples DEF Loop
  <2> HIDE DEF q
  <2>2. 1 .. 1 = {1}
    OBVIOUS
  <2>3. \A i \in 1 .. Len(q) : /\ Neutral(q[i]) /\ i = Len(q)
                               /\ \A p \in Panel : ~Hits(q[i], p, "DEMURA_SRAM")
    BY <2>1, <2>2 DEF Neutral, Hits
  <2>4. Settled(c, q, 0, vm, bt)
    BY SettledNow
  <2>5. JobOK(c, q, vm, bt)
    BY <2>1, <2>3, <2>4, NeutralJob
  <2> QED BY <2>5 DEF q
<1>2. ASSUME NEW S \in {All} \cup {{p} : p \in Panel} PROVE JobOK(c, GlbScanValStore(S), vm, bt)
  <2> DEFINE q == GlbScanValStore(S)
  <2>1. Try(S, "SETUP", 1) \in HandlerSteps /\ Trigger(S) \in HandlerSteps
    <3>1. S \in (SUBSET Panel) \ {{}}
      BY DEF All, Panel
    <3> QED BY <3>1, HandlerWriteForms, AssignmentForms
  <2>2. q \in Seq(HandlerSteps) /\ Len(q) = 2
    BY <2>1, StepTuples DEF GlbScanValStore
  <2>3. q[1].kind = "try" /\ q[1].reg = "SETUP" /\ q[2].kind = "trigger"
    BY DEF GlbScanValStore, Try, Trigger
  <2> HIDE DEF q
  <2>4. 1 .. 2 = {1, 2}
    OBVIOUS
  <2>5. \A i \in 1 .. Len(q) : /\ Neutral(q[i])
                               /\ q[i].kind \in {"loop", "trigger"} => i = Len(q)
                               /\ \A p \in Panel : ~Hits(q[i], p, "DEMURA_SRAM")
    BY <2>2, <2>3, <2>4 DEF Neutral, Hits
  <2>6. Settled(c, q, 0, vm, bt)
    BY SettledNow
  <2>7. JobOK(c, q, vm, bt)
    BY <2>2, <2>5, <2>6, NeutralJob
  <2> QED BY <2>7 DEF q
<1> QED BY <1>1, <1>2

(* test_demura_table_w_store, whose pattern meets Command Mode.            *)
LEMMA TestTableJob ==
  ASSUME NEW c, NEW vm, NEW bt, Settled(c, << >>, 0, vm, bt)
  PROVE  JobOK(c, TestDemuraTableStore, vm, bt)
<1> DEFINE q == TestDemuraTableStore
<1>1. q \in Seq(HandlerSteps) /\ Len(q) = 5
  <2>1. Set("vid_mode", FALSE) \in HandlerSteps
    BY AssignmentForms
  <2> QED BY <2>1, HandlerWriteForms, StepTuples DEF TestDemuraTableStore
<1>2. /\ q[1].kind = "try" /\ q[1].to = Panel /\ q[1].reg = "VID_MODE" /\ q[1].val = CommandMode
      /\ q[2].kind = "try" /\ q[2].reg = "PL_SYNC" /\ q[3].kind = "try" /\ q[3].reg = "DCS_EN"
      /\ q[4].kind = "set" /\ q[4].field = "vid_mode" /\ q[4].val = FALSE
      /\ q[5].kind = "try" /\ q[5].reg = "DEMURA_SRAM"
  BY DEF TestDemuraTableStore, Try, Set, All
<1> HIDE DEF q
<1>3. /\ 1 .. 5 = {1, 2, 3, 4, 5} /\ 2 .. 5 = {2, 3, 4, 5} /\ 2 .. 4 = {2, 3, 4} /\ 5 .. 5 = {5}
      /\ 1 + 1 = 2 /\ 4 + 1 = 5 /\ 0 + 1 = 1 /\ 5 - 1 = 4 /\ 1 .. 4 = {1, 2, 3, 4}
  OBVIOUS
<1>4. \A i \in 1 .. Len(q) : q[i].kind \in {"try", "set"}
  BY <1>1, <1>2, <1>3
<1>5. ASSUME NEW p \in Panel, NEW n \in {4, 5} PROVE Ends(c, q, n, p, "VID_MODE", CommandMode)
  <2>1. Hits(q[1], p, "VID_MODE") /\ \A j \in 1 + 1 .. n : ~Hits(q[j], p, "VID_MODE")
    BY <1>2, <1>3 DEF Hits
  <2> QED BY <1>2, <1>3, <2>1 DEF Ends
<1>6. \A i \in 1 .. Len(q), p \in Panel :
        Hits(q[i], p, "DEMURA_SRAM") => Ends(c, q, i - 1, p, "VID_MODE", CommandMode)
  <2>1. \A i \in 1 .. 5, p \in Panel : Hits(q[i], p, "DEMURA_SRAM") => i = 5
    BY <1>2, <1>3 DEF Hits
  <2> QED BY <1>1, <1>3, <1>5, <2>1
<1>7. ModeSettled(c, q, 5, vm)
  <2>1. Left(vm, q, 5, "vid_mode", FALSE)
    BY <1>2, <1>3 DEF Left, Assigns
  <2> QED BY <1>5, <2>1 DEF ModeSettled, ModeOf
<1>8. TestSettled(c, q, 5, bt)
  <2>1. TestSettled(c, q, 0, bt)
    BY SettledNow DEF Settled
  <2>2. \A j \in 0 + 1 .. 5 : ~Assigns(q[j], "bist") /\ \A p \in Panel : ~Hits(q[j], p, "PL_SELF_TEST_CFG")
    BY <1>2, <1>3 DEF Assigns, Hits
  <2> QED BY <2>1, <2>2, TestKept
<1>9. JobOK(c, q, vm, bt)
  BY <1>1, <1>4, <1>6, <1>7, <1>8, TriesToTheEnd DEF Settled
<1> QED BY <1>9 DEF q

(* The largest value; the provers are better at numbers by name.           *)
Top == 65535

(* What a register holds is a number, and so is all that is less.          *)
LEMMA ValueRange ==
  ASSUME NEW x \in Value
  PROVE  x \in Nat /\ \A i \in 1 .. x : i \in Value
<1>1. Value = 0 .. Top
  BY SMT DEF Value, Top
<1>2. Top \in Nat
  BY SMT DEF Top
<1> QED BY <1>1, <1>2

(* The blocks of one write lie within the table.                           *)
LEMMA TableRange ==
  ASSUME NEW off \in 0 .. TableChunks - 1, NEW n \in 1 .. TableChunks
  PROVE  LET d == Lesser(n, TableChunks - off) IN
         d \in Nat /\ off \in Nat /\ \A i \in 1 .. d : off + i \in Value
<1> DEFINE d == Lesser(n, TableChunks - off)
<1>1. TableChunks \in Nat /\ \A i \in 1 .. TableChunks : i \in Value
  <2>1. TableChunks \in Value
    BY SysfsAssumption
  <2>2. \A x \in Value : x \in Nat /\ \A i \in 1 .. x : i \in Value
    BY ValueRange
  <2> QED BY <2>1, <2>2
<1>2. d \in Nat /\ off \in Nat /\ d <= TableChunks - off
  BY <1>1 DEF Lesser
<1> HIDE DEF d
<1>3. \A i \in 1 .. d : off + i \in 1 .. TableChunks
  BY <1>1, <1>2
<1>4. \A i \in 1 .. d : off + i \in Value
  BY <1>1, <1>3
<1> QED BY <1>2, <1>4 DEF d

(* jbd4040_demura_table_write_channel, wherever it gives up.               *)
LEMMA TableJob ==
  ASSUME TypeOK, NEW x \in Panel, NEW off \in 0 .. TableChunks - 1, NEW n \in 1 .. TableChunks,
         Settled(chip, << >>, 0, vid_mode, bist)
  PROVE  JobOK(chip, DemuraTableWrite(x, off, n), vid_mode, bist)
<1> DEFINE q == DemuraTableWrite(x, off, n)
           d == Lesser(n, TableChunks - off)
           blocks == Blocks(x, off, d)
           first == IF vid_mode THEN EnterCommand ELSE << >>
           last  == IF off + d >= TableChunks THEN EnterVideo ELSE << >>
           k == Len(first)
           m == k + d
           e == m + Len(last)
<1>1. d \in Nat /\ off \in Nat /\ \A i \in 1 .. d : off + i \in Value
  BY TableRange
<1>2. /\ blocks \in Seq(HandlerSteps) /\ Len(blocks) = d
      /\ \A i \in 1 .. d : blocks[i] = Must({x}, "DEMURA_SRAM", off + i)
  <2> HIDE DEF d
  <2> QED BY <1>1, TableBlocks
<1>3. /\ first \in Seq(HandlerSteps) /\ last \in Seq(HandlerSteps)
      /\ vid_mode => Len(first) = 3 /\ first[1] = Try(All, "VID_MODE", CommandMode)
                     /\ first[2] = Try(All, "PL_SYNC", SyncOnce) /\ first[3] = Set("vid_mode", FALSE)
      /\ ~vid_mode => Len(first) = 0
      /\ \/ Len(last) = 0
         \/ /\ Len(last) = 3 /\ last[1] = Try(All, "VID_MODE", VideoMode)
            /\ last[2] = Try(All, "PL_SYNC", SyncAll) /\ last[3] = Set("vid_mode", TRUE)
  <2>1. /\ EnterCommand[1] = Try(All, "VID_MODE", CommandMode)
        /\ EnterCommand[2] = Try(All, "PL_SYNC", SyncOnce) /\ EnterCommand[3] = Set("vid_mode", FALSE)
        /\ EnterVideo[1] = Try(All, "VID_MODE", VideoMode)
        /\ EnterVideo[2] = Try(All, "PL_SYNC", SyncAll) /\ EnterVideo[3] = Set("vid_mode", TRUE)
    BY DEF EnterCommand, EnterVideo
  <2>2. << >> \in Seq(HandlerSteps) /\ Len(<< >>) = 0
    OBVIOUS
  <2>3. CASE vid_mode
    <3>1. first = EnterCommand
      BY <2>3
    <3> QED BY <2>1, <2>2, <2>3, <3>1, PartsTyped
  <2>4. CASE ~vid_mode
    <3>1. first = << >>
      BY <2>4
    <3> QED BY <2>1, <2>2, <2>4, <3>1, PartsTyped
  <2> QED BY <2>3, <2>4
<1>4. q = (first \o blocks) \o last
  BY DEF DemuraTableWrite, Blocks
<1> HIDE DEF q, d, blocks, first, last
<1>5. /\ q \in Seq(HandlerSteps) /\ Len(q) = e /\ k \in Nat /\ m \in Nat /\ e \in Nat /\ Len(last) \in Nat
      /\ \A i \in 1 .. k : q[i] = first[i]
      /\ \A i \in 1 .. d : q[k + i] = Must({x}, "DEMURA_SRAM", off + i)
      /\ \A i \in 1 .. Len(last) : q[m + i] = last[i]
  <2>1. LET z == (first \o blocks) \o last IN
        /\ z \in Seq(HandlerSteps) /\ Len(z) = Len(first) + Len(blocks) + Len(last)
        /\ Len(first) \in Nat /\ Len(blocks) \in Nat /\ Len(last) \in Nat
        /\ \A i \in 1 .. Len(first) : z[i] = first[i]
        /\ \A i \in 1 .. Len(blocks) : z[Len(first) + i] = blocks[i]
        /\ \A i \in 1 .. Len(last) : z[Len(first) + Len(blocks) + i] = last[i]
    <3> HIDE DEF k, m, e
    <3>1. first \in Seq(HandlerSteps) /\ last \in Seq(HandlerSteps) /\ blocks \in Seq(HandlerSteps)
      BY <1>2, <1>3
    <3> QED BY <3>1, ThreeParts
  <2>2. k \in Nat /\ m \in Nat /\ e \in Nat /\ Len(last) \in Nat
    BY <1>1, <2>1
  <2>3. /\ q \in Seq(HandlerSteps) /\ Len(q) = e
        /\ \A i \in 1 .. k : q[i] = first[i]
        /\ \A i \in 1 .. d : q[k + i] = blocks[i]
        /\ \A i \in 1 .. Len(last) : q[m + i] = last[i]
    BY <1>2, <1>4, <2>1
  <2> QED BY <1>2, <2>2, <2>3
<1>6. k = Len(first) /\ m = k + d /\ e = m + Len(last)
  OBVIOUS
<1> HIDE DEF k, m, e
<1>7. ASSUME NEW i \in k + 1 .. m
      PROVE  /\ q[i].kind = "must" /\ q[i].reg = "DEMURA_SRAM"
             /\ Neutral(q[i]) /\ \A p \in Panel : ~Hits(q[i], p, "VID_MODE")
  <2>1. i - k \in 1 .. d /\ k + (i - k) = i
    BY <1>1, <1>5, <1>6
  <2>2. q[i] = Must({x}, "DEMURA_SRAM", off + (i - k))
    BY <1>5, <2>1
  <2>3. q[i].kind = "must" /\ q[i].reg = "DEMURA_SRAM"
    BY <2>2 DEF Must
  <2> QED BY <2>3 DEF Neutral, Hits
<1>8. Settled(chip, q, k, vid_mode, bist) /\ \A p \in Panel : Ends(chip, q, k, p, "VID_MODE", CommandMode)
  <2>1. Settled(chip, q, 0, vid_mode, bist)
    BY SettledNow
  <2>2. CASE vid_mode
    <3>1. k = 3 /\ 1 .. 3 = {1, 2, 3}
      BY <1>3, <1>6, <2>2
    <3>2. /\ q[0 + 1] = Try(All, "VID_MODE", CommandMode) /\ q[0 + 2] = Try(All, "PL_SYNC", SyncOnce)
          /\ q[0 + 3] = Set("vid_mode", FALSE)
      <4>1. 1 \in 1 .. 3 /\ 2 \in 1 .. 3 /\ 3 \in 1 .. 3 /\ 0 + 1 = 1 /\ 0 + 2 = 2 /\ 0 + 3 = 3
        OBVIOUS
      <4>2. q[1] = first[1] /\ q[2] = first[2] /\ q[3] = first[3]
        BY <1>5, <3>1, <4>1
      <4> QED BY <1>3, <2>2, <4>1, <4>2
    <3>3. Settled(chip, q, 0 + 3, vid_mode, bist)
          /\ \A p \in Panel : Ends(chip, q, 0 + 3, p, "VID_MODE", CommandMode)
      BY <2>1, <3>2, CommandSettled DEF Settled
    <3> QED BY <3>1, <3>3
  <2>3. CASE ~vid_mode
    <3>1. k = 0 /\ vid_mode = FALSE
      BY <1>3, <1>6, <2>3 DEF TypeOK
    <3>2. PICK b \in BOOLEAN : /\ Left(vid_mode, q, 0, "vid_mode", b)
                               /\ \A p \in Panel : Ends(chip, q, 0, p, "VID_MODE", ModeOf(b))
      BY <2>1 DEF Settled, ModeSettled
    <3>3. b = FALSE
      BY <3>1, <3>2 DEF Left
    <3> QED BY <2>1, <3>1, <3>2, <3>3 DEF ModeOf
  <2> QED BY <2>2, <2>3
<1>9. ASSUME NEW i \in k .. m
      PROVE  /\ Settled(chip, q, i, vid_mode, bist)
             /\ \A p \in Panel : Ends(chip, q, i, p, "VID_MODE", CommandMode)
  <2>1. i \in Nat /\ k \in Nat /\ k <= i /\ \A j \in k + 1 .. i : j \in k + 1 .. m
    BY <1>5
  <2>2. Settled(chip, q, i, vid_mode, bist)
    BY <1>7, <1>8, <2>1, SettledKept
  <2>3. \A p \in Panel : Ends(chip, q, i, p, "VID_MODE", CommandMode)
    BY <1>7, <1>8, <2>1, EndsKept
  <2> QED BY <2>2, <2>3
<1>10. /\ Settled(chip, q, e, vid_mode, bist)
       /\ \A i \in m + 1 .. e : q[i].kind \in {"try", "set"} /\ \A p \in Panel : ~Hits(q[i], p, "DEMURA_SRAM")
  <2>1. m \in k .. m
    BY <1>1, <1>5, <1>6
  <2>2. CASE Len(last) = 0
    BY <1>5, <1>6, <1>9, <2>1, <2>2
  <2>3. CASE Len(last) # 0
    <3>1. /\ Len(last) = 3 /\ last[1] = Try(All, "VID_MODE", VideoMode)
          /\ last[2] = Try(All, "PL_SYNC", SyncAll) /\ last[3] = Set("vid_mode", TRUE)
      BY <1>3, <2>3
    <3>2. 1 .. 3 = {1, 2, 3} /\ e = m + 3 /\ m + 1 .. e = {m + 1, m + 2, m + 3}
      BY <1>5, <1>6, <3>1
    <3>3. /\ q[m + 1] = Try(All, "VID_MODE", VideoMode) /\ q[m + 2] = Try(All, "PL_SYNC", SyncAll)
          /\ q[m + 3] = Set("vid_mode", TRUE)
      BY <1>5, <3>1, <3>2
    <3>4. Settled(chip, q, m + 3, vid_mode, bist)
      BY <1>5, <1>9, <2>1, <3>3, VideoSettled DEF Settled
    <3>5. \A i \in m + 1 .. e : q[i].kind \in {"try", "set"} /\ \A p \in Panel : ~Hits(q[i], p, "DEMURA_SRAM")
      BY <3>2, <3>3 DEF Try, Set, Hits
    <3> QED BY <3>2, <3>4, <3>5
  <2> QED BY <2>2, <2>3
<1>11. ASSUME NEW i \in 1 .. k
       PROVE  q[i].kind \in {"try", "set"} /\ \A p \in Panel : ~Hits(q[i], p, "DEMURA_SRAM")
  <2>1. vid_mode /\ k = 3 /\ 1 .. 3 = {1, 2, 3}
    <3>1. k # 0 /\ 1 .. 3 = {1, 2, 3}
      OBVIOUS
    <3>2. vid_mode
      BY <1>3, <1>6, <3>1, Zenon
    <3>3. k = 3
      BY <1>3, <1>6, <3>2, Zenon
    <3> QED BY <3>1, <3>2, <3>3, Zenon
  <2>2. i \in {1, 2, 3} /\ q[i] = first[i]
    BY <1>5, <2>1
  <2> QED BY <1>3, <2>1, <2>2 DEF Try, Set, Hits
<1>12. ASSUME NEW i \in 1 .. e PROVE i \in 1 .. k \/ i \in k + 1 .. m \/ i \in m + 1 .. e
  BY <1>1, <1>5, <1>6
<1>13. ASSUME NEW i \in Stops(q) PROVE Settled(chip, q, i, vid_mode, bist)
  <2>1. i \in 0 .. e /\ (i = e \/ q[i + 1].kind = "must")
    BY <1>5, StopsForm
  <2>2. CASE i = e
    BY <1>10, <2>2
  <2>3. CASE i # e
    <3>1. i + 1 \in 1 .. e /\ q[i + 1].kind = "must"
      BY <1>5, <2>1, <2>3
    <3>2. i + 1 \in k + 1 .. m
      BY <1>10, <1>11, <1>12, <3>1
    <3>3. i \in k .. m
      BY <1>5, <2>1, <3>2
    <3> QED BY <1>9, <3>3
  <2> QED BY <2>2, <2>3
<1>14. ASSUME NEW i \in 1 .. e, NEW p \in Panel, Hits(q[i], p, "DEMURA_SRAM")
       PROVE  Ends(chip, q, i - 1, p, "VID_MODE", CommandMode)
  <2>1. i \in k + 1 .. m
    BY <1>10, <1>11, <1>12, <1>14
  <2>2. i - 1 \in k .. m
    BY <1>5, <2>1
  <2> QED BY <1>9, <2>2
<1>15. ASSUME NEW i \in 1 .. e PROVE q[i].kind \notin {"loop", "trigger"}
  BY <1>7, <1>10, <1>11, <1>12
<1>16. JobOK(chip, q, vid_mode, bist)
  BY <1>5, <1>13, <1>14, <1>15 DEF JobOK
<1> QED BY <1>16 DEF q

(* Every handler that starts on settled panels keeps them so.              *)
LEMMA StartJob ==
  ASSUME TypeOK, NEW r \in Requests, Settled(chip, << >>, 0, vid_mode, bist)
  PROVE  JobOK(chip, r, vid_mode, bist)
<1>1. \A en \in BOOLEAN : JobOK(chip, << Loop({"R"}, en) >>, vid_mode, bist)
  BY ScanJobs
<1>2. \A S \in {All} \cup {{p} : p \in Panel} : JobOK(chip, GlbScanValStore(S), vid_mode, bist)
  BY ScanJobs
<1> QED BY <1>1, <1>2, RequestCases, VidModeJob, BistColourJob, BistWhiteJob, BistOffJob, GammaJob,
           TestTableJob, TableJob

-----------------------------------------------------------------------------
(* Orderly use keeps the supplies' invariant and one handler at a time.    *)

(* What a handler leaves alone.                                            *)
LEMMA HandlerFrame ==
  ASSUME JobTypes, NEW t \in Threads, HandlerStep(t)
  PROVE  /\ UNCHANGED <<rail, dead, adap, prepared, enabled, pc, todo, ret, phase>>
         /\ job[t] # << >>
         /\ \A u \in Threads : u # t => job'[u] = job[u]
<1>1. CASE HandlerWrite(t)
  BY <1>1 DEF HandlerWrite, Step, ctxVars, drmVars, JobTypes
<1>2. CASE HandlerSet(t)
  BY <1>2 DEF HandlerSet, Step, hwVars, drmVars, JobTypes
<1>3. CASE RefreshLoopStore(t)
  BY <1>3 DEF RefreshLoopStore, Step, ctxVars, drmVars, JobTypes
<1>4. CASE TriggerSync(t)
  BY <1>4 DEF TriggerSync, Step, ctxVars, drmVars, JobTypes
<1> QED BY <1>1, <1>2, <1>3, <1>4 DEF HandlerStep

(* The invariant of the supplies does not mind the handlers.               *)
LEMMA SysIInvStep == IInv /\ JobTypes /\ [SysNext]_allVars => IInv'
<1> SUFFICES ASSUME IInv, JobTypes, [SysNext]_allVars PROVE IInv'
  OBVIOUS
<1>1. TypeOK'
  BY SysTypeStep DEF IInv
<1>2. CASE [Next]_vars
  BY <1>1, <1>2, RailStep, CheckStep, OrderStep DEF IInv
<1>3. ASSUME NEW t \in Threads, HandlerStep(t) PROVE IInv'
  BY <1>1, <1>3, HandlerFrame DEF IInv, RailInv, PreparedInv, CheckInv, OrderInv, Lit, Released, Powered
<1> QED BY <1>2, <1>3 DEF SysNext, DrmStep, StartHandler, allVars

(* A DRM callback neither starts nor goes on while a handler runs.         *)
LEMMA DrmAlone ==
  ASSUME Orderly, SerialInv, DrmStep
  PROVE  NoHandlerRuns /\ NoHandlerRuns'
<1>1. NoHandlerRuns
  <2>1. CASE pc = "idle"
    BY <2>1 DEF DrmStep, Orderly
  <2>2. CASE pc # "idle"
    BY <2>2 DEF SerialInv, NoHandlerRuns
  <2> QED BY <2>1, <2>2
<1> QED BY <1>1 DEF DrmStep, NoHandlerRuns

(* Every step of orderly use keeps one handler at a time.                  *)
LEMMA SerialStep == Orderly /\ JobTypes /\ SerialInv /\ [SysNext]_allVars => SerialInv'
<1> SUFFICES ASSUME Orderly, JobTypes, SerialInv, [SysNext]_allVars PROVE SerialInv'
  OBVIOUS
<1>1. CASE DrmStep
  BY <1>1, DrmAlone DEF SerialInv, NoHandlerRuns
<1>2. ASSUME NEW t \in Threads, StartHandler(t) PROVE SerialInv'
  <2>1. NoHandlerRuns /\ enabled /\ pc = "idle" /\ enabled' = enabled /\ pc' = pc
    BY <1>2 DEF StartHandler, MayWrite, Orderly, vars, ctxVars, drmVars
  <2>2. \A u \in Threads : u # t => job'[u] = << >>
    BY <1>2, <2>1 DEF StartHandler, NoHandlerRuns, JobTypes
  <2> QED BY <2>1, <2>2 DEF SerialInv
<1>3. ASSUME NEW t \in Threads, HandlerStep(t) PROVE SerialInv'
  <2>1. /\ enabled' = enabled /\ pc' = pc /\ job[t] # << >>
        /\ \A u \in Threads : u # t => job'[u] = job[u]
    BY <1>3, HandlerFrame
  <2>2. \A u \in Threads : u # t => job'[u] = << >>
    BY <2>1 DEF SerialInv
  <2> QED BY <2>1, <2>2 DEF SerialInv
<1>4. CASE UNCHANGED allVars
  BY <1>4 DEF SerialInv, allVars, vars, sysVars, ctxVars, drmVars
<1> QED BY <1>1, <1>2, <1>3, <1>4 DEF SysNext

-----------------------------------------------------------------------------
(* The handlers keep the context and the panels in agreement.              *)

(* While a handler runs every panel answers.                               *)
LEMMA PanelsAnswer ==
  ASSUME Orderly, IInv, enabled
  PROVE  dead = {} /\ (pc = "idle" => \A S \in SUBSET Panel : S # {} => Acks(S))
<1>1. prepared /\ pc \in {"idle", "disable"}
  BY DEF IInv, OrderInv, Orderly
<1>2. Lit
  BY <1>1 DEF Lit
<1>3. Up(rail) /\ dead = {}
  BY <1>2 DEF Up, IInv, RailInv, CheckInv, Powered, Released
<1> QED BY <1>3 DEF Acks

(* The write that a read of REG_PL_SYNC leads to.                          *)
LEMMA SyncJob ==
  ASSUME NEW S \in SUBSET Panel, S # {}, NEW v \in Value, NEW c, NEW vm, NEW bt,
         \A p \in Panel : c[p]["PL_SYNC"] \in Value,
         (\A p \in Panel : Loading(c[p]["PL_SYNC"])) => Loading(v),
         Settled(c, << >>, 0, vm, bt)
  PROVE  JobOK(c, << Try(S, "PL_SYNC", v) >>, vm, bt)
<1> DEFINE q == << Try(S, "PL_SYNC", v) >>
<1>1. q \in Seq(HandlerSteps) /\ Len(q) = 1
  <2>1. Try(S, "PL_SYNC", v) \in HandlerSteps
    <3>1. "PL_SYNC" \in Reg
      BY DEF Reg
    <3>2. Try(S, "PL_SYNC", v) \in Write /\ Try(S, "PL_SYNC", v).kind = "try" /\ Try(S, "PL_SYNC", v).to = S
      BY <3>1 DEF Try, Write
    <3> QED BY <3>2 DEF HandlerWrites, HandlerSteps
  <2> QED BY <2>1
<1>2. q[1].kind = "try" /\ q[1].to = S /\ q[1].reg = "PL_SYNC" /\ q[1].val = v
  BY DEF Try
<1> HIDE DEF q
<1>3. 1 .. 1 = {1} /\ 0 + 1 = 1 /\ 1 + 1 .. 1 = {} /\ 1 \in Nat /\ 0 \in Nat
  OBVIOUS
<1>4. Settled(c, q, 0, vm, bt)
  BY SettledNow
<1>5. TestSettled(c, q, 1, bt)
  <2>1. \A j \in 0 + 1 .. 1 : ~Assigns(q[j], "bist") /\ \A p \in Panel : ~Hits(q[j], p, "PL_SELF_TEST_CFG")
    BY <1>2, <1>3 DEF Assigns, Hits
  <2> QED BY <1>3, <1>4, <2>1, TestKept DEF Settled
<1>6. ModeSettled(c, q, 1, vm)
  <2>1. PICK b \in BOOLEAN :
          /\ Left(vm, q, 0, "vid_mode", b)
          /\ \A p \in Panel : Ends(c, q, 0, p, "VID_MODE", ModeOf(b))
          /\ b => \A p \in Panel : \E w \in Value : Ends(c, q, 0, p, "PL_SYNC", w) /\ Loading(w)
    BY <1>4 DEF Settled, ModeSettled
  <2>2. Left(vm, q, 1, "vid_mode", b)
    <3>1. \A j \in 0 + 1 .. 1 : ~Assigns(q[j], "vid_mode")
      BY <1>2, <1>3 DEF Assigns
    <3> QED BY <1>3, <2>1, <3>1, LeftKept
  <2>3. \A p \in Panel : Ends(c, q, 1, p, "VID_MODE", ModeOf(b))
    <3>1. ASSUME NEW p \in Panel, NEW w, Ends(c, q, 0, p, "VID_MODE", w)
          PROVE  Ends(c, q, 1, p, "VID_MODE", w)
      <4>1. \A j \in 0 + 1 .. 1 : ~Hits(q[j], p, "VID_MODE")
        BY <1>2, <1>3 DEF Hits
      <4>2. 0 <= 1
        OBVIOUS
      <4> QED BY <1>3, <3>1, <4>1, <4>2, EndsKept
    <3> QED BY <2>1, <3>1
  <2>4. ASSUME b, NEW p \in Panel PROVE \E w \in Value : Ends(c, q, 1, p, "PL_SYNC", w) /\ Loading(w)
    <3>1. \A r \in Panel : Loading(c[r]["PL_SYNC"])
      BY <2>1, <2>4 DEF Ends
    <3>2. CASE p \in S
      <4>1. Hits(q[1], p, "PL_SYNC") /\ q[1].val = v
        BY <1>2, <3>2 DEF Hits
      <4>2. Ends(c, q, 1, p, "PL_SYNC", v)
        BY <1>3, <4>1 DEF Ends
      <4> QED BY <3>1, <4>2
    <3>3. CASE p \notin S
      <4>1. ~Hits(q[1], p, "PL_SYNC")
        BY <1>2, <3>3 DEF Hits
      <4>2. Ends(c, q, 1, p, "PL_SYNC", c[p]["PL_SYNC"])
        BY <1>3, <4>1 DEF Ends
      <4> QED BY <3>1, <4>2
    <3> QED BY <3>2, <3>3
  <2> QED BY <2>2, <2>3, <2>4 DEF ModeSettled
<1>7. JobOK(c, q, vm, bt)
  <2>1. \A i \in 1 .. Len(q) : q[i].kind \in {"try", "set"}
    BY <1>1, <1>2, <1>3
  <2>2. \A i \in 1 .. Len(q), p \in Panel : ~Hits(q[i], p, "DEMURA_SRAM")
    BY <1>1, <1>2, <1>3 DEF Hits
  <2> QED BY <1>1, <1>5, <1>6, <2>1, <2>2, TriesToTheEnd DEF Settled
<1> QED BY <1>7 DEF q

(* A handler that took a step keeps AgreeInv if its job stays in order.    *)
LEMMA AgreeAfter ==
  ASSUME JobTypes, SerialInv, NEW t \in Threads, HandlerStep(t),
         JobOK(chip', job'[t], vid_mode', bist'),
         job'[t] = << >> => Settled(chip', << >>, 0, vid_mode', bist')
  PROVE  AgreeInv'
<1>1. /\ pc' = pc /\ pc = "idle" /\ job[t] # << >>
      /\ \A u \in Threads : u # t => job'[u] = job[u]
  BY HandlerFrame DEF SerialInv
<1>2. \A u \in Threads : job'[u] # << >> => u = t
  BY <1>1 DEF SerialInv
<1>3. NoHandlerRuns' => Settled(chip', << >>, 0, vid_mode', bist')
  BY DEF NoHandlerRuns
<1> QED BY <1>1, <1>2, <1>3 DEF AgreeInv, EnableLabels

(* A register write.                                                       *)
LEMMA AgreeWrite ==
  ASSUME Orderly, IInv, JobTypes, SerialInv, AgreeInv, NEW t \in Threads, HandlerWrite(t)
  PROVE  AgreeInv'
<1> DEFINE q == job[t]
           w == q[1]
<1>1. q \in Seq(HandlerSteps) /\ q # << >> /\ Head(q) = w /\ w \in Write /\ w.to # {} /\ w.kind \in {"try", "must"}
  BY HeadOfJob, StepKinds DEF HandlerWrite, Step, JobTypes
<1>2. HandlerStep(t) /\ enabled /\ pc = "idle" /\ UNCHANGED <<vid_mode, bist, dead>>
  BY <1>1 DEF HandlerStep, HandlerWrite, SerialInv, ctxVars
<1>3. dead = {} /\ Acks(w.to)
  <2>1. w.to \in SUBSET Panel /\ w.to # {}
    BY <1>1 DEF Write
  <2> QED BY <1>2, <2>1, PanelsAnswer
<1>4. CASE blind'
  BY <1>4 DEF AgreeInv
<1>5. CASE ~blind' /\ Ack(w) /\ job' = [job EXCEPT ![t] = Tail(@)] /\ UNCHANGED blind
  <2>1. JobOK(chip, q, vid_mode, bist)
    BY <1>1, <1>2, <1>5 DEF AgreeInv
  <2>2. Does(w, chip, vid_mode, bist, chip', vid_mode', bist')
    <3>1. \A p \in Panel, reg \in Stored : chip'[p][reg] = IF Hits(w, p, reg) THEN w.val ELSE chip[p][reg]
      BY <1>1, <1>3, <1>5 DEF Ack, Written, Hits, IInv, TypeOK
    <3>2. ~Assigns(w, "vid_mode") /\ ~Assigns(w, "bist")
      BY <1>1 DEF Assigns
    <3> QED BY <1>2, <3>1, <3>2 DEF Does
  <2>3. job'[t] = Tail(q)
    BY <1>5 DEF JobTypes
  <2>4. /\ JobOK(chip', Tail(q), vid_mode', bist')
        /\ Tail(q) = << >> => Settled(chip', Tail(q), 0, vid_mode', bist')
    BY <1>1, <2>1, <2>2, JobStep
  <2>5. job'[t] = << >> => Settled(chip', << >>, 0, vid_mode', bist')
    BY <2>3, <2>4
  <2> QED BY <1>2, <2>3, <2>4, <2>5, AgreeAfter
<1>6. CASE /\ ~blind' /\ Nack(w.to) /\ blind' = (blind \/ w.kind = "try")
           /\ job' = [job EXCEPT ![t] = IF w.kind = "must" THEN << >> ELSE Tail(@)]
  <2>1. w.kind = "must" /\ ~blind
    BY <1>1, <1>6
  <2>2. chip' = chip /\ job'[t] = << >>
    BY <1>6, <2>1 DEF Nack, JobTypes
  <2>3. JobOK(chip, q, vid_mode, bist)
    BY <1>1, <1>2, <2>1 DEF AgreeInv
  <2>4. 0 \in Stops(q)
    <3>1. Len(q) \in Nat /\ q[0 + 1] = w
      BY <1>1
    <3> QED BY <2>1, <3>1, StopsForm
  <2>5. Settled(chip, << >>, 0, vid_mode, bist)
    <3>1. Settled(chip, q, 0, vid_mode, bist)
      BY <2>3, <2>4 DEF JobOK
    <3> QED BY <3>1, SettledNow
  <2>6. JobOK(chip, << >>, vid_mode, bist)
    <3>1. << >> \in Seq(HandlerSteps) /\ 1 .. Len(<< >>) = {}
      OBVIOUS
    <3> QED BY <2>5, <3>1, NeutralJob
  <2> QED BY <1>2, <2>2, <2>5, <2>6, AgreeAfter
<1> QED BY <1>1, <1>4, <1>5, <1>6 DEF HandlerWrite

(* An assignment.                                                          *)
LEMMA AgreeSet ==
  ASSUME Orderly, IInv, JobTypes, SerialInv, AgreeInv, NEW t \in Threads, HandlerSet(t)
  PROVE  AgreeInv'
<1> DEFINE q == job[t]
           s == q[1]
<1>1. q \in Seq(HandlerSteps) /\ q # << >> /\ Head(q) = s /\ s.kind = "set"
  BY HeadOfJob DEF HandlerSet, Step, JobTypes
<1>2. HandlerStep(t) /\ enabled /\ pc = "idle" /\ chip' = chip /\ blind' = blind
  BY <1>1 DEF HandlerStep, HandlerSet, SerialInv, hwVars
<1>3. CASE blind
  BY <1>2, <1>3 DEF AgreeInv
<1>4. CASE ~blind
  <2>1. JobOK(chip, q, vid_mode, bist)
    BY <1>1, <1>2, <1>4 DEF AgreeInv
  <2>2. Does(s, chip, vid_mode, bist, chip', vid_mode', bist')
    BY <1>1, <1>2 DEF Does, Hits, Assigns, HandlerSet
  <2>3. job'[t] = Tail(q)
    BY DEF HandlerSet, JobTypes
  <2>4. /\ JobOK(chip', Tail(q), vid_mode', bist')
        /\ Tail(q) = << >> => Settled(chip', Tail(q), 0, vid_mode', bist')
    BY <1>1, <2>1, <2>2, JobStep
  <2>5. job'[t] = << >> => Settled(chip', << >>, 0, vid_mode', bist')
    BY <2>3, <2>4
  <2> QED BY <1>2, <2>3, <2>4, <2>5, AgreeAfter
<1> QED BY <1>3, <1>4

(* Every panel keeps taking frames.                                        *)
AllLoad == \A p \in Panel : Loading(chip[p]["PL_SYNC"])

(* A read of REG_PL_SYNC: what is written back loads if what the panels    *)
(* hold does.                                                              *)
LEMMA ReadLoads ==
  ASSUME TypeOK, JobTypes, NEW t \in Threads, RefreshLoopStore(t) \/ TriggerSync(t)
  PROVE  \/ \E S \in (SUBSET Panel) \ {{}}, v \in Value :
              /\ job' = [job EXCEPT ![t] = << Try(S, "PL_SYNC", v) >>]
              /\ AllLoad => Loading(v)
         \/ \E en \in BOOLEAN : job' = [job EXCEPT ![t] = << Loop(All, en) >>]
<1>1. \A p \in Panel : chip[p]["PL_SYNC"] \in Value
  BY DEF TypeOK, Stored, Reg
<1>2. \A S \in SUBSET Panel : \A v \in SyncOf(S) : v \in Value /\ (AllLoad => Loading(v))
  BY <1>1 DEF SyncOf, AllLoad
<1>3. /\ All \in (SUBSET Panel) \ {{}} /\ {"R"} \in SUBSET Panel
      /\ 15 \in Value /\ 11 \in Value /\ SyncAll \in Value
  BY SMT DEF All, Panel, Value, SyncAll
<1>4. CASE RefreshLoopStore(t)
  <2>1. \A v \in Value, en \in BOOLEAN :
          Looping(v, en) \in Value /\ (Loading(v) => Loading(Looping(v, en)))
    BY BitsKept DEF Looping
  <2>2. PICK F \in {{"R"}, All}, en \in BOOLEAN :
          \/ \E v \in SyncOf(F) : job' = [job EXCEPT ![t] = << Try(All, "PL_SYNC", Looping(v, en)) >>]
          \/ job' = [job EXCEPT ![t] = << Try(All, "PL_SYNC", Looping(IF en THEN 15 ELSE 11, en)) >>]
          \/ job' = [job EXCEPT ![t] = << Loop(All, en) >>]
    BY <1>4, LoopOutcomes
  <2>3. (IF en THEN 15 ELSE 11) \in Value /\ Loading(IF en THEN 15 ELSE 11)
    BY <1>3, DefaultsLoad
  <2>4. \/ \E v \in Value : /\ job' = [job EXCEPT ![t] = << Try(All, "PL_SYNC", Looping(v, en)) >>]
                            /\ AllLoad => Loading(v)
        \/ job' = [job EXCEPT ![t] = << Loop(All, en) >>]
    BY <1>2, <1>3, <2>2, <2>3
  <2> DEFINE Goal == \E S \in (SUBSET Panel) \ {{}}, w \in Value :
                       /\ job' = [job EXCEPT ![t] = << Try(S, "PL_SYNC", w) >>]
                       /\ AllLoad => Loading(w)
  <2>5. ASSUME NEW v \in Value, job' = [job EXCEPT ![t] = << Try(All, "PL_SYNC", Looping(v, en)) >>],
               AllLoad => Loading(v)
        PROVE  Goal
    <3>1. PICK w \in Value : w = Looping(v, en) /\ (Loading(v) => Loading(w))
      BY <2>1
    <3>2. job' = [job EXCEPT ![t] = << Try(All, "PL_SYNC", w) >>] /\ (AllLoad => Loading(w))
      BY <2>5, <3>1
    <3> QED BY <1>3, <3>2
  <2> HIDE DEF Goal
  <2>6. Goal \/ job' = [job EXCEPT ![t] = << Loop(All, en) >>]
    BY <2>4, <2>5
  <2> QED BY <2>6 DEF Goal
<1>5. CASE TriggerSync(t)
  <2> DEFINE S == Head(job[t]).to
  <2>1. S \in (SUBSET Panel) \ {{}}
    BY <1>5, HeadOfJob, StepKinds DEF TriggerSync, Step
  <2>2. \/ \E v \in SyncOf(S) :
             job' = [job EXCEPT ![t] = << Try(S, "PL_SYNC", WithBit(IF v = 0 THEN SyncAll ELSE v, 0)) >>]
        \/ job' = [job EXCEPT ![t] = << Try(S, "PL_SYNC", WithBit(SyncAll, 0)) >>]
    BY <1>5 DEF TriggerSync
  <2> HIDE DEF S
  <2>3. \A v \in Value : WithBit(v, 0) \in Value /\ (Loading(v) => Loading(WithBit(v, 0)))
    BY BitsKept
  <2>4. PICK v \in Value : job' = [job EXCEPT ![t] = << Try(S, "PL_SYNC", WithBit(v, 0)) >>]
                           /\ (AllLoad => Loading(v))
    BY <1>2, <1>3, <2>1, <2>2, DefaultsLoad
  <2> QED BY <2>1, <2>3, <2>4
<1> QED BY <1>4, <1>5

(* Such a read, which is the last step of its handler.                     *)
LEMMA AgreeRead ==
  ASSUME Orderly, IInv, JobTypes, SerialInv, AgreeInv, NEW t \in Threads,
         RefreshLoopStore(t) \/ TriggerSync(t)
  PROVE  AgreeInv'
<1> DEFINE q == job[t]
<1>1. q \in Seq(HandlerSteps) /\ q # << >> /\ Head(q) = q[1] /\ q[1].kind \in {"loop", "trigger"}
  BY HeadOfJob DEF RefreshLoopStore, TriggerSync, Step, JobTypes
<1>2. HandlerStep(t) /\ UNCHANGED <<chip, vid_mode, bist, blind>> /\ enabled /\ pc = "idle"
  BY <1>1 DEF HandlerStep, RefreshLoopStore, TriggerSync, Nack, SerialInv, ctxVars
<1>3. CASE blind
  BY <1>2, <1>3 DEF AgreeInv
<1>4. CASE ~blind
  <2>1. JobOK(chip, q, vid_mode, bist)
    BY <1>1, <1>2, <1>4 DEF AgreeInv
  <2>2. Settled(chip, << >>, 0, vid_mode, bist)
    <3>1. Does(q[1], chip, vid_mode, bist, chip, vid_mode, bist)
      BY <1>1 DEF Does, Hits, Assigns
    <3>2. Tail(q) = << >> => Settled(chip, Tail(q), 0, vid_mode, bist)
      BY <1>1, <2>1, <3>1, JobStep
    <3>3. Tail(q) = << >>
      <4>1. 1 \in 1 .. Len(q) /\ Len(q) \in Nat
        BY <1>1
      <4>2. Len(q) = 1
        BY <1>1, <2>1, <4>1 DEF JobOK
      <4> DEFINE T == Tail(q)
      <4>3. T \in Seq(HandlerSteps) /\ Len(T) = Len(q) - 1
        BY <1>1, HeadTailProperties
      <4> HIDE DEF T
      <4>4. Len(T) = 0
        BY <4>2, <4>3
      <4>5. T = << >>
        BY <4>3, <4>4, EmptySeq
      <4> QED BY <4>5 DEF T
    <3> QED BY <3>2, <3>3
  <2>3. PICK r : job' = [job EXCEPT ![t] = r] /\ r # << >> /\ JobOK(chip, r, vid_mode, bist)
    <3>1. CASE \E S \in (SUBSET Panel) \ {{}}, v \in Value :
                 /\ job' = [job EXCEPT ![t] = << Try(S, "PL_SYNC", v) >>]
                 /\ AllLoad => Loading(v)
      <4>1. PICK S \in (SUBSET Panel) \ {{}}, v \in Value :
              /\ job' = [job EXCEPT ![t] = << Try(S, "PL_SYNC", v) >>]
              /\ AllLoad => Loading(v)
        BY <3>1
      <4>2. \A p \in Panel : chip[p]["PL_SYNC"] \in Value
        BY DEF IInv, TypeOK, Stored, Reg
      <4>3. JobOK(chip, << Try(S, "PL_SYNC", v) >>, vid_mode, bist)
        BY <2>2, <4>1, <4>2, SyncJob DEF AllLoad
      <4> QED BY <4>1, <4>3
    <3>2. CASE \E en \in BOOLEAN : job' = [job EXCEPT ![t] = << Loop(All, en) >>]
      BY <2>2, <3>2, ScanJobs
    <3> QED BY <3>1, <3>2, ReadLoads DEF IInv
  <2>4. job'[t] = r /\ job'[t] # << >>
    BY <2>3 DEF JobTypes
  <2> QED BY <1>2, <2>3, <2>4, AgreeAfter
<1> QED BY <1>3, <1>4

(* A handler that starts.                                                  *)
LEMMA AgreeStart ==
  ASSUME Orderly, TypeOK, JobTypes, SerialInv, AgreeInv, NEW t \in Threads, StartHandler(t)
  PROVE  AgreeInv'
<1>1. /\ UNCHANGED <<chip, vid_mode, bist, dead, todo, pc, enabled, blind>>
      /\ NoHandlerRuns /\ enabled /\ pc = "idle"
  BY DEF StartHandler, MayWrite, Orderly, vars, hwVars, ctxVars, drmVars
<1>2. CASE blind
  BY <1>1, <1>2 DEF AgreeInv
<1>3. CASE ~blind
  <2>1. Settled(chip, << >>, 0, vid_mode, bist)
    BY <1>1, <1>3 DEF AgreeInv
  <2>2. PICK r \in Requests : job' = [job EXCEPT ![t] = r]
    BY DEF StartHandler
  <2>3. JobOK(chip, r, vid_mode, bist)
    BY <2>1, StartJob
  <2>4. job'[t] = r /\ \A u \in Threads : u # t => job'[u] = << >>
    BY <1>1, <2>2 DEF JobTypes, NoHandlerRuns
  <2>5. \A u \in Threads : job'[u] # << >> => JobOK(chip', job'[u], vid_mode', bist')
    BY <1>1, <2>3, <2>4
  <2> QED BY <1>1, <2>1, <2>5 DEF AgreeInv, EnableLabels
<1> QED BY <1>2, <1>3

(* Both blocks of jbd4040_enable try every write and end with a sync.      *)
LEMMA EnableSync ==
  ASSUME NEW be \in BOOLEAN
  PROVE  LET q == EnableWrites(be) IN
         Tries(q) /\ Keeps(q, "PL_SYNC", SyncAll) /\ ~Spares(q, "PL_SYNC")
<1> USE DEF Try, Keeps, Spares, Tries
<1>1. CASE be
  BY <1>1 DEF EnableWrites
<1>2. CASE ~be
  BY <1>2 DEF EnableWrites
<1> QED BY <1>1, <1>2

(* A DRM callback is called.                                               *)
LEMMA AgreeCalls ==
  ASSUME TypeOK, AgreeInv, Calls, NoHandlerRuns, NoHandlerRuns', blind' = blind, job' = job
  PROVE  AgreeInv'
<1>1. /\ UNCHANGED <<chip, dead, enabled, vid_mode, bist>> /\ pc = "idle"
      /\ pc' \notin EnableLabels \/ EnableCall
  BY DEF Calls, PrepareCall, UnprepareCall, DisableCall, EnableCall, Call, hwVars, ctxVars, EnableLabels
<1>2. CASE pc' \notin EnableLabels
  BY <1>1, <1>2 DEF AgreeInv, EnableLabels, NoHandlerRuns
<1>3. CASE pc' \in EnableLabels
  <2>1. EnableCall /\ pc # pc'
    BY <1>1, <1>3 DEF EnableLabels
  <2>2. /\ pc' = IF bist_enable THEN "enable_bist" ELSE "enable_video"
        /\ todo' = EnableWrites(bist_enable) /\ bist_enable \in BOOLEAN
    BY <2>1 DEF EnableCall, TypeOK
  <2>3. ToAll(todo') /\ Tries(todo') /\ Due("PL_SYNC", SyncAll)'
    BY <2>2, EnableBlocks, EnableSync DEF Due
  <2>4. pc' = "enable_bist" => Due("VID_MODE", CommandMode)' /\ Due("PL_SELF_TEST_CFG", SelfTestOn)'
    BY <2>2, EnableBlocks DEF Due
  <2>5. pc' = "enable_video" => Due("VID_MODE", VideoMode)' /\ Due("PL_SELF_TEST_CFG", 0)'
    BY <2>2, EnableBlocks DEF Due
  <2> QED BY <1>3, <2>3, <2>4, <2>5 DEF AgreeInv, EnableLabels
<1> QED BY <1>2, <1>3

(* A write of a DRM callback.                                              *)
LEMMA AgreeBlockWrite ==
  ASSUME IInv, AgreeInv, BlockWrite,
         ~blind' => ~blind /\ ~(faults' # faults /\ Head(todo).kind = "try")
  PROVE  AgreeInv'
<1>1. pc' = pc /\ dead' = dead /\ todo # << >> /\ pc \in BlockLabels
  BY DEF BlockWrite
<1>2. "PL_SYNC" \in Stored /\ "VID_MODE" \in Stored /\ "PL_SELF_TEST_CFG" \in Stored
  BY DEF Stored, Reg
<1>3. CASE pc \notin EnableLabels
  BY <1>1, <1>3 DEF AgreeInv, EnableLabels, BlockLabels
<1>4. CASE pc \in EnableLabels
  <2> SUFFICES ASSUME ~blind' PROVE AgreeInv'
    BY DEF AgreeInv
  <2>1. /\ ToAll(todo) /\ Tries(todo) /\ ~blind
        /\ Head(todo).to = All /\ Head(todo).kind = "try"
    BY <1>1, <1>4, HeadTailProperties DEF AgreeInv, ToAll, Tries, IInv, TypeOK
  <2>2. Up(rail) /\ dead = {}
    <3>1. Lit
      BY <1>4 DEF Lit, IInv, PreparedInv
    <3> QED BY <3>1 DEF Up, IInv, RailInv, CheckInv, Powered, Released
  <2>3. ~Nack(Head(todo).to)
    <3>1. Acks(Head(todo).to)
      BY <2>1, <2>2 DEF Acks, All, Panel
    <3>2. faults + 1 # faults
      BY DEF IInv, TypeOK
    <3> QED BY <2>1, <3>1, <3>2 DEF Nack
  <2>4. Ack(Head(todo)) /\ todo' = Tail(todo)
    BY <2>3 DEF BlockWrite
  <2>5. /\ Due("PL_SYNC", SyncAll)'
        /\ pc = "enable_bist" => Due("VID_MODE", CommandMode)' /\ Due("PL_SELF_TEST_CFG", SelfTestOn)'
        /\ pc = "enable_video" => Due("VID_MODE", VideoMode)' /\ Due("PL_SELF_TEST_CFG", 0)'
    BY <1>1, <1>2, <1>4, <2>1, <2>4, DueAfterAck DEF AgreeInv, IInv
  <2>6. ToAll(todo)' /\ Tries(todo)'
    BY <1>1, <2>1, <2>4, HeadTailProperties DEF ToAll, Tries, IInv, TypeOK
  <2> QED BY <1>1, <1>4, <2>5, <2>6 DEF AgreeInv, EnableLabels
<1> QED BY <1>3, <1>4

(* The end of jbd4040_enable.                                              *)
LEMMA AgreeEnabled ==
  ASSUME IInv, AgreeInv, EnableDone, NoHandlerRuns', blind' => blind, ~blind' => ~blind
  PROVE  AgreeInv'
<1> SUFFICES ASSUME ~blind' PROVE AgreeInv'
  BY DEF AgreeInv
<1>1. chip' = chip /\ todo = << >> /\ pc' = "idle" /\ pc \in EnableLabels
  BY DEF EnableDone, Goto, hwVars, EnableLabels
<1>2. dead = {}
  <2>1. Lit
    BY <1>1 DEF Lit, IInv, PreparedInv
  <2> QED BY <2>1 DEF IInv, CheckInv
<1>3. \A reg, v : Due(reg, v) => \A p \in Panel : chip[p][reg] = v
  BY <1>1, <1>2, DueAtEnd DEF Holds
<1>4. \A c, p, reg, v : Ends(c, << >>, 0, p, reg, v) <=> c[p][reg] = v
  BY DEF Ends
<1>5. \A x, f : Left(x, << >>, 0, f, x)
  BY DEF Left
<1>6. \A p \in Panel : chip[p]["PL_SYNC"] = SyncAll
  BY <1>1, <1>3 DEF AgreeInv
<1>7. SyncAll \in Value /\ Loading(SyncAll) /\ "R" \in Panel
  BY SMT, DefaultsLoad DEF SyncAll, Value, Panel
<1>8. CASE pc = "enable_bist"
  <2>1. bist' = TRUE /\ vid_mode' = FALSE
    BY <1>8 DEF EnableDone, Goto
  <2>2. \A p \in Panel : chip[p]["VID_MODE"] = CommandMode /\ chip[p]["PL_SELF_TEST_CFG"] = SelfTestOn
    BY <1>3, <1>8 DEF AgreeInv
  <2>3. ModeSettled(chip, << >>, 0, FALSE)
    BY <1>4, <1>5, <2>2 DEF ModeSettled, ModeOf
  <2>4. TestSettled(chip, << >>, 0, TRUE)
    BY <1>4, <1>5, <1>7, <2>2 DEF TestSettled
  <2> QED BY <1>1, <2>1, <2>3, <2>4 DEF AgreeInv, EnableLabels, Settled, NoHandlerRuns
<1>9. CASE pc = "enable_video"
  <2>1. bist' = FALSE /\ vid_mode' = TRUE
    BY <1>9 DEF EnableDone, Goto
  <2>2. \A p \in Panel : chip[p]["VID_MODE"] = VideoMode /\ chip[p]["PL_SELF_TEST_CFG"] = 0
    BY <1>3, <1>9 DEF AgreeInv
  <2>3. ModeSettled(chip, << >>, 0, TRUE)
    BY <1>4, <1>5, <1>6, <1>7, <2>2 DEF ModeSettled, ModeOf
  <2>4. TestSettled(chip, << >>, 0, FALSE)
    BY <1>4, <1>5, <2>2 DEF TestSettled
  <2> QED BY <1>1, <2>1, <2>3, <2>4 DEF AgreeInv, EnableLabels, Settled, NoHandlerRuns
<1> QED BY <1>1, <1>8, <1>9 DEF EnableLabels

(* A step of the DRM thread.                                               *)
LEMMA AgreeDrm ==
  ASSUME Orderly, IInv, JobTypes, SerialInv, AgreeInv, DrmStep
  PROVE  AgreeInv'
<1>1. NoHandlerRuns /\ NoHandlerRuns' /\ job' = job
  BY DrmAlone DEF DrmStep
<1>2. ~blind' => ~blind /\ ~(faults' # faults /\ todo # << >> /\ Head(todo).kind = "try")
  <2>1. blind' = (blind \/ (faults' # faults /\ todo # << >> /\ Head(todo).kind = "try"))
    BY DEF DrmStep
  <2> QED BY <2>1, Zenon
<1> USE DEF Goto, EnableLabels
<1>3. pc' \notin EnableLabels /\ (pc' = "idle" => ~enabled') => AgreeInv'
  BY DEF AgreeInv
<1>4. CASE Calls
  <2>1. faults' = faults
    BY <1>4 DEF Calls, PrepareCall, UnprepareCall, DisableCall, EnableCall, hwVars
  <2>2. blind' = blind
    BY <2>1 DEF DrmStep, JobTypes
  <2> QED BY <1>1, <1>4, <2>2, AgreeCalls DEF IInv
<1>5. CASE PrepareRails \/ ErrPowerOff \/ UnprepareRails \/ PrepareEmit
  <2>1. pc # "idle" /\ pc # "disable" /\ enabled' = enabled /\ pc' \notin EnableLabels
    BY <1>5 DEF PrepareRails, ErrPowerOff, UnprepareRails, PrepareEmit, SetLine, ctxVars
  <2> QED BY <1>3, <2>1 DEF IInv, OrderInv, Orderly
<1>6. CASE PrepareRun \/ InitBlockEnd \/ CheckPanelStatus
  BY <1>3, <1>6 DEF PrepareRun, InitBlockEnd, CheckPanelStatus, Check
<1>7. CASE BlockWrite
  <2>1. todo # << >>
    BY <1>7 DEF BlockWrite
  <2> QED BY <1>2, <1>7, <2>1, AgreeBlockWrite
<1>8. CASE PrepareDone \/ UnprepareDone
  <2>1. pc # "idle" /\ pc # "disable" /\ enabled' = enabled /\ pc' = "idle"
    BY <1>8 DEF PrepareDone, UnprepareDone
  <2> QED BY <1>3, <2>1 DEF IInv, OrderInv, Orderly
<1>9. CASE EnableDone
  <2>1. faults' = faults
    BY <1>9 DEF EnableDone, hwVars
  <2>2. blind' = blind
    BY <2>1 DEF DrmStep, JobTypes
  <2> QED BY <1>1, <1>9, <2>2, AgreeEnabled
<1>10. CASE DisableDone
  BY <1>3, <1>10 DEF DisableDone
<1>11. CASE SetParam
  <2>1. UNCHANGED <<chip, dead, todo, pc, enabled, vid_mode, bist>>
    BY <1>11 DEF SetParam, ctxVars, drmVars
  <2> QED BY <1>1, <1>2, <2>1 DEF AgreeInv, NoHandlerRuns, Due, Keeps, Spares, Holds
<1> QED
  BY <1>4, <1>5, <1>6, <1>7, <1>8, <1>9, <1>10, <1>11 DEF DrmStep, Next, Running

(* Every step keeps AgreeInv.                                              *)
LEMMA AgreeStep ==
  Orderly /\ IInv /\ JobTypes /\ SerialInv /\ AgreeInv /\ [SysNext]_allVars => AgreeInv'
<1> SUFFICES ASSUME Orderly, IInv, JobTypes, SerialInv, AgreeInv, [SysNext]_allVars
             PROVE  AgreeInv'
  OBVIOUS
<1>1. CASE UNCHANGED allVars
  <2>1. UNCHANGED <<chip, dead, todo, pc, enabled, vid_mode, bist, job, blind>>
    BY <1>1 DEF allVars, vars, sysVars, hwVars, ctxVars, drmVars
  <2> QED BY <2>1 DEF AgreeInv, NoHandlerRuns, Due, Keeps, Spares, Holds
<1> QED
  BY <1>1, AgreeDrm, AgreeStart, AgreeWrite, AgreeSet, AgreeRead DEF SysNext, HandlerStep, IInv

-----------------------------------------------------------------------------
(* The theorems about orderly use.                                         *)

(* The invariants together.                                                *)
LEMMA OrderlyInductive ==
  ASSUME Orderly
  PROVE  SysSpec => [](IInv /\ JobTypes /\ SerialInv /\ AgreeInv)
<1>1. SysInit => IInv /\ JobTypes /\ SerialInv /\ AgreeInv
  <2>1. SysInit => JobTypes /\ IInv
    BY SysTypeInit, InductiveInit DEF SysInit
  <2> QED BY <2>1 DEF SysInit, Init, SerialInv, AgreeInv, EnableLabels
<1>2. IInv /\ JobTypes /\ SerialInv /\ AgreeInv /\ [SysNext]_allVars
        => IInv' /\ JobTypes' /\ SerialInv' /\ AgreeInv'
  BY SysTypeStep, SysIInvStep, SerialStep, AgreeStep DEF IInv
<1> QED BY <1>1, <1>2, PTL DEF SysSpec

(* "Writing the Demura SRAM must happen in Command Mode": with orderly use *)
(* no block of a table is written to a panel in another mode, as long as   *)
(* no failed mode write has been ignored.                                  *)
THEOREM SramWriteInCommandModeCorrect ==
  ASSUME Orderly
  PROVE  SysSpec => []SramWriteInCommandMode
<1>1. IInv /\ JobTypes /\ SerialInv /\ AgreeInv => SramWriteInCommandMode
  <2> SUFFICES ASSUME JobTypes, SerialInv, AgreeInv, NEW t \in Threads, job[t] # << >>,
                      Head(job[t]).kind \in {"try", "must"}, ~blind,
                      Head(job[t]).reg = "DEMURA_SRAM", NEW p \in Head(job[t]).to \ dead
               PROVE  chip[p]["VID_MODE"] = CommandMode
    BY DEF SramWriteInCommandMode
  <2> DEFINE q == job[t]
  <2>1. q \in Seq(HandlerSteps) /\ Head(q) = q[1] /\ q[1] \in Write
    BY HeadOfJob, StepKinds DEF JobTypes
  <2>2. JobOK(chip, q, vid_mode, bist)
    BY DEF AgreeInv, SerialInv
  <2>3. p \in Panel /\ Hits(q[1], p, "DEMURA_SRAM")
    BY <2>1 DEF Hits, Write
  <2>4. 1 \in 1 .. Len(q) /\ 1 - 1 = 0
    BY <2>1
  <2>5. Ends(chip, q, 0, p, "VID_MODE", CommandMode)
    BY <2>2, <2>3, <2>4 DEF JobOK
  <2> QED BY <2>5 DEF Ends
<1> QED BY OrderlyInductive, <1>1, PTL

(* Between handlers the context knows the mode and the test pattern of the *)
(* panels, also after a table write that gave up half way, as long as no   *)
(* failed write has been ignored.                                          *)
THEOREM ContextAgreesCorrect ==
  ASSUME Orderly
  PROVE  SysSpec => []ContextAgrees
<1>1. IInv /\ JobTypes /\ SerialInv /\ AgreeInv => ContextAgrees
  <2> SUFFICES ASSUME IInv, AgreeInv, Quiet /\ enabled /\ ~blind
               PROVE  /\ \A p \in Panel : (chip[p]["VID_MODE"] = VideoMode) = vid_mode
                      /\ (\E p \in Panel : chip[p]["PL_SELF_TEST_CFG"] = SelfTestOn) = bist
    BY DEF ContextAgrees
  <2>1. Settled(chip, << >>, 0, vid_mode, bist)
    BY DEF AgreeInv, Quiet
  <2>2. VideoMode # CommandMode /\ SelfTestOn # 0 /\ vid_mode \in BOOLEAN /\ bist \in BOOLEAN
    BY DEF VideoMode, CommandMode, SelfTestOn, IInv, TypeOK
  <2>3. ASSUME NEW p \in Panel PROVE (chip[p]["VID_MODE"] = VideoMode) = vid_mode
    <3>1. chip[p]["VID_MODE"] = ModeOf(vid_mode)
      BY <2>1 DEF Settled, ModeSettled, Left, Ends
    <3>2. CASE vid_mode = TRUE
      BY <3>1, <3>2 DEF ModeOf
    <3>3. CASE vid_mode = FALSE
      BY <2>2, <3>1, <3>3 DEF ModeOf
    <3> QED BY <2>2, <3>2, <3>3
  <2>4. (\E p \in Panel : chip[p]["PL_SELF_TEST_CFG"] = SelfTestOn) = bist
    <3>1. /\ bist => \E p \in Panel : chip[p]["PL_SELF_TEST_CFG"] = SelfTestOn
          /\ ~bist => \A p \in Panel : chip[p]["PL_SELF_TEST_CFG"] = 0
      BY <2>1 DEF Settled, TestSettled, Left, Ends
    <3>2. CASE bist = TRUE
      BY <3>1, <3>2
    <3>3. CASE bist = FALSE
      BY <2>2, <3>1, <3>3
    <3> QED BY <2>2, <3>2, <3>3
  <2> QED BY <2>3, <2>4
<1> QED BY OrderlyInductive, <1>1, PTL

(* A panel that is in Video Mode between handlers keeps taking frames,     *)
(* whatever the scan and refresh attributes did to REG_PL_SYNC before.     *)
THEOREM VideoKeepsLoadingCorrect ==
  ASSUME Orderly
  PROVE  SysSpec => []VideoKeepsLoading
<1>1. IInv /\ JobTypes /\ SerialInv /\ AgreeInv => VideoKeepsLoading
  <2> SUFFICES ASSUME AgreeInv, Quiet /\ enabled /\ ~blind, NEW p \in Panel,
                      chip[p]["VID_MODE"] = VideoMode
               PROVE  Loading(chip[p]["PL_SYNC"])
    BY DEF VideoKeepsLoading, Loading
  <2>1. ModeSettled(chip, << >>, 0, vid_mode)
    BY DEF AgreeInv, Quiet, Settled
  <2>2. PICK b \in BOOLEAN :
          /\ chip[p]["VID_MODE"] = ModeOf(b)
          /\ b => \E w \in Value : chip[p]["PL_SYNC"] = w /\ Loading(w)
    BY <2>1 DEF ModeSettled, Ends
  <2>3. b = TRUE
    BY <2>2 DEF ModeOf, VideoMode, CommandMode
  <2> QED BY <2>2, <2>3
<1> QED BY OrderlyInductive, <1>1, PTL

-----------------------------------------------------------------------------
(* The supplies under any use of the attributes.                           *)

(* The invariant of the supplies holds whoever writes attributes when.     *)
LEMMA SuppliesInductive == SysSpec => [](IInv /\ JobTypes)
<1>1. SysInit => IInv /\ JobTypes
  BY SysTypeInit, InductiveInit DEF SysInit
<1>2. IInv /\ JobTypes /\ [SysNext]_allVars => IInv' /\ JobTypes'
  BY SysTypeStep, SysIInvStep DEF IInv
<1> QED BY <1>1, <1>2, PTL DEF SysSpec

(* Attribute handlers, which take no lock and ask for nothing, cannot      *)
(* bring AVEE onto panels without supply, RESET or an answer, ...          *)
THEOREM SysEmitOnlyWhenCheckedCorrect == SysSpec => []EmitOnlyWhenChecked
<1>1. IInv => EmitOnlyWhenChecked
  BY DEF IInv, RailInv, CheckInv, EmitOnlyWhenChecked, Lit, Released, Powered
<1> QED BY SuppliesInductive, <1>1, PTL

(* ... nor make a callback return with half of the supplies on, ...        *)
THEOREM SysReturnsAllOrNothingCorrect == SysSpec => []ReturnsAllOrNothing
<1>1. IInv => ReturnsAllOrNothing
  BY DEF IInv, RailInv, ReturnsAllOrNothing, Lit, Released, Powered
<1> QED BY SuppliesInductive, <1>1, PTL

(* ... nor disturb the order of the supplies: the driver with its          *)
(* attributes implements PanelPower as the callbacks alone do.             *)
THEOREM SysPowerSequenceCorrect == SysSpec => PowerSequence
<1>1. SysInit => Power!PInit
  BY DEF SysInit, Init, Power!PInit, Level, Line
<1>2. IInv /\ IInv' /\ JobTypes /\ [SysNext]_allVars => [Power!PNext]_(Power!pvars)
  <2> SUFFICES ASSUME IInv, IInv', JobTypes, [SysNext]_allVars
               PROVE  [Power!PNext]_(Power!pvars)
    OBVIOUS
  <2>1. CASE [Next]_vars
    BY <2>1, PowerStep
  <2>2. ASSUME NEW t \in Threads, HandlerStep(t) PROVE [Power!PNext]_(Power!pvars)
    <3>1. rail' = rail /\ dead' = dead /\ prepared' = prepared
      BY <2>2, HandlerFrame
    <3> QED BY <3>1 DEF Level, Power!pvars
  <2> QED BY <2>1, <2>2 DEF SysNext, DrmStep, StartHandler, allVars
<1> QED BY SuppliesInductive, <1>1, <1>2, PTL DEF SysSpec, PowerSequence, Power!PSpec

=============================================================================
