---------------------- MODULE PanelJbd4040InitProofs -----------------------
(***************************************************************************)
(* Proofs about what the register writes of prepare and enable leave in    *)
(* the JBD4040 panels: no lost transfer goes unnoticed before AVEE is on,  *)
(* and the context agrees with the panels after an enable.                 *)
(***************************************************************************)
EXTENDS PanelJbd4040Proofs

-----------------------------------------------------------------------------
(* The invariant: what the panels that work hold, or will once the writes  *)
(* left in the block have been made.                                       *)

Holds(reg, v)    == \A p \in Panel \ dead : chip[p][reg] = v
Spares(q, reg)   == \A i \in 1 .. Len(q) : q[i].reg # reg
Keeps(q, reg, v) == \A i \in 1 .. Len(q) : q[i].reg = reg => q[i].to = All /\ q[i].val = v
Due(reg, v)      == Keeps(todo, reg, v) /\ (Spares(todo, reg) => Holds(reg, v))
Latches(q)       == \A i \in 1 .. Len(q) : q[i].kind = "latch"
ToAll(q)         == \A i \in 1 .. Len(q) : q[i].to = All

InitLabels  == {"init", "init_mode", "init_sync"}
CheckLabels == {"chk_id0", "chk_id1", "chk_r", "chk_g", "chk_b", "prep_emit", "prep_done"}

(* While ret is 0, jbd4040_init_registers loses nothing that it accounts   *)
(* for, and what comes after its blocks writes other registers.            *)
InitInv ==
  /\ pc \in InitLabels => Latches(todo)
  /\ pc \in InitLabels /\ ~ret => Due("SETUP", 1) /\ Due("DISP_CTL", 1)
  /\ pc = "init_sync" /\ ~ret => Due("PL_SYNC", SyncAll)
  /\ pc \in {"gamma", "flip"} =>
       Spares(todo, "SETUP") /\ Spares(todo, "DISP_CTL") /\ Spares(todo, "PL_SYNC")
  /\ (pc \in {"gamma", "flip"} /\ ~ret) \/ pc \in CheckLabels =>
       Holds("SETUP", 1) /\ Holds("DISP_CTL", 1) /\ Holds("PL_SYNC", SyncAll)

(* What enable has done so far, if no transfer has failed.                 *)
ModeInv ==
  CallerOrdered /\ faults = 0 =>
    /\ pc \in EnableLabels => ToAll(todo) /\ Due("DISP_CTL", 1)
    /\ pc = "enable_bist" => Due("VID_MODE", CommandMode) /\ Due("PL_SELF_TEST_CFG", SelfTestOn)
    /\ pc = "enable_video" => Due("VID_MODE", VideoMode) /\ Due("PL_SELF_TEST_CFG", 0)
    /\ pc = "idle" /\ enabled =>
         /\ Holds("DISP_CTL", 1)
         /\ Holds("VID_MODE", IF vid_mode THEN VideoMode ELSE CommandMode)
         /\ Holds("PL_SELF_TEST_CFG", IF bist THEN SelfTestOn ELSE 0)

-----------------------------------------------------------------------------
(* The writes of a block.                                                  *)

(* A write that is acknowledged leaves what was due due.                   *)
LEMMA DueAfterAck ==
  ASSUME TypeOK, NEW reg \in Stored, NEW v, Due(reg, v),
         todo # << >>, Ack(Head(todo)), todo' = Tail(todo), dead' = dead
  PROVE  Due(reg, v)'
<1> DEFINE w == Head(todo)
<1>1. /\ w = todo[1] /\ w \in Write
      /\ Len(todo) \in Nat /\ Len(todo) >= 1 /\ Len(todo') = Len(todo) - 1
      /\ \A i \in 1 .. Len(todo') : todo'[i] = todo[i + 1] /\ i + 1 \in 1 .. Len(todo)
  BY HeadTailProperties DEF TypeOK
<1>2. Keeps(todo, reg, v)'
  BY <1>1 DEF Due, Keeps
<1>3. ASSUME Spares(todo, reg)' PROVE Holds(reg, v)'
  <2>1. \A p \in Panel \ dead : chip'[p][reg] = IF p \in w.to /\ w.reg = reg THEN w.val ELSE chip[p][reg]
    BY <1>1 DEF Ack, Written, TypeOK, Write
  <2>2. CASE w.reg = reg
    BY <1>1, <2>1, <2>2 DEF Due, Keeps, Holds, All
  <2>3. CASE w.reg # reg
    <3>1. ASSUME NEW i \in 1 .. Len(todo) PROVE todo[i].reg # reg
      <4>1. CASE i = 1
        BY <1>1, <2>3, <4>1
      <4>2. CASE i # 1
        <5>1. i - 1 \in 1 .. Len(todo') /\ (i - 1) + 1 = i
          BY <1>1, <4>2
        <5> QED BY <1>1, <1>3, <5>1 DEF Spares
      <4> QED BY <4>1, <4>2
    <3>2. Spares(todo, reg)
      BY <3>1 DEF Spares
    <3> QED BY <2>1, <2>3, <3>2 DEF Due, Holds
  <2> QED BY <2>2, <2>3
<1> QED BY <1>2, <1>3 DEF Due

(* A block that spares a register leaves it as it is, whatever fails.      *)
LEMMA SparedStays ==
  ASSUME TypeOK, NEW reg \in Stored, NEW v, Spares(todo, reg), BlockWrite
  PROVE  Spares(todo, reg)' /\ (Holds(reg, v) => Holds(reg, v)')
<1> DEFINE w == Head(todo)
<1>1. /\ w = todo[1] /\ w \in Write
      /\ Len(todo) \in Nat /\ Len(todo) >= 1 /\ Len(Tail(todo)) = Len(todo) - 1
      /\ \A i \in 1 .. Len(Tail(todo)) : Tail(todo)[i] = todo[i + 1] /\ i + 1 \in 1 .. Len(todo)
  BY HeadTailProperties DEF BlockWrite, TypeOK
<1>2. todo' = Tail(todo) \/ todo' = << >>
  BY DEF BlockWrite
<1>3. Spares(todo, reg)'
  BY <1>1, <1>2 DEF Spares
<1>4. w.reg # reg /\ dead' = dead
  BY <1>1 DEF Spares, BlockWrite
<1>5. \A p \in Panel \ dead : chip'[p][reg] = chip[p][reg]
  <2>1. CASE Ack(w)
    BY <1>1, <1>4, <2>1 DEF Ack, Written, TypeOK, Write
  <2>2. CASE Nack(w.to)
    BY <2>2 DEF Nack
  <2> QED BY <2>1, <2>2 DEF BlockWrite
<1> QED BY <1>3, <1>4, <1>5 DEF Holds

(* At the end of a block everything due is there.                          *)
LEMMA DueAtEnd ==
  ASSUME NEW reg, NEW v, todo = << >>, Due(reg, v)
  PROVE  Holds(reg, v)
  BY DEF Due, Spares

(* The blocks of jbd4040_init_registers, as far as InitInv is about them.  *)
LEMMA InitBlocks ==
  ASSUME NEW be \in BOOLEAN
  PROVE  /\ Latches(InitWrites) /\ Latches(ModeWrites(be)) /\ Latches(SyncWrites(be))
         /\ \A q \in {InitWrites, ModeWrites(be), SyncWrites(be)} :
              Keeps(q, "SETUP", 1) /\ Keeps(q, "DISP_CTL", 1)
         /\ ~Spares(InitWrites, "SETUP") /\ ~Spares(InitWrites, "DISP_CTL")
         /\ Keeps(SyncWrites(be), "PL_SYNC", SyncAll) /\ ~Spares(SyncWrites(be), "PL_SYNC")
         /\ \A q \in {GammaWrites(22), FlipWrites} :
              Spares(q, "SETUP") /\ Spares(q, "DISP_CTL") /\ Spares(q, "PL_SYNC")
<1> USE DEF Latch, Must, Try, Keeps, Spares, Latches
<1>1. /\ Latches(InitWrites) /\ Keeps(InitWrites, "SETUP", 1) /\ Keeps(InitWrites, "DISP_CTL", 1)
      /\ ~Spares(InitWrites, "SETUP") /\ ~Spares(InitWrites, "DISP_CTL")
  BY DEF InitWrites
<1>2. /\ Latches(ModeWrites(be))
      /\ Keeps(ModeWrites(be), "SETUP", 1) /\ Keeps(ModeWrites(be), "DISP_CTL", 1)
  BY DEF ModeWrites
<1>3. /\ Latches(SyncWrites(be))
      /\ Keeps(SyncWrites(be), "SETUP", 1) /\ Keeps(SyncWrites(be), "DISP_CTL", 1)
      /\ Keeps(SyncWrites(be), "PL_SYNC", SyncAll) /\ ~Spares(SyncWrites(be), "PL_SYNC")
  BY DEF SyncWrites
<1>4. \A q \in {GammaWrites(22), FlipWrites} :
        Spares(q, "SETUP") /\ Spares(q, "DISP_CTL") /\ Spares(q, "PL_SYNC")
  BY DEF GammaWrites, FlipWrites
<1> QED BY <1>1, <1>2, <1>3, <1>4

(* Both blocks of jbd4040_enable set all of the mode.                      *)
LEMMA EnableBlocks ==
  ASSUME NEW be \in BOOLEAN
  PROVE  LET q == EnableWrites(be) IN
         /\ ToAll(q)
         /\ Keeps(q, "DISP_CTL", 1) /\ ~Spares(q, "DISP_CTL")
         /\ Keeps(q, "VID_MODE", IF be THEN CommandMode ELSE VideoMode) /\ ~Spares(q, "VID_MODE")
         /\ Keeps(q, "PL_SELF_TEST_CFG", IF be THEN SelfTestOn ELSE 0)
         /\ ~Spares(q, "PL_SELF_TEST_CFG")
<1> USE DEF Try, Keeps, Spares, ToAll
<1>1. CASE be
  BY <1>1 DEF EnableWrites
<1>2. CASE ~be
  BY <1>2 DEF EnableWrites
<1> QED BY <1>1, <1>2

-----------------------------------------------------------------------------
(* The initialisation.                                                     *)

(* One write of jbd4040_init_registers.                                    *)
LEMMA InitWrite == TypeOK /\ PreparedInv /\ InitInv /\ BlockWrite => InitInv'
<1> SUFFICES ASSUME TypeOK, PreparedInv, InitInv, BlockWrite PROVE InitInv'
  OBVIOUS
<1>1. pc' = pc /\ dead' = dead /\ todo # << >>
  BY DEF BlockWrite
<1>2. "SETUP" \in Stored /\ "DISP_CTL" \in Stored /\ "PL_SYNC" \in Stored
  BY DEF Stored, Reg
<1>3. CASE pc \in InitLabels
  <2>1. Head(todo).kind = "latch"
    BY <1>1, <1>3, HeadTailProperties DEF InitInv, Latches, TypeOK
  <2>2. todo' = Tail(todo) /\ (~ret' => ~ret /\ Ack(Head(todo)))
    <3>1. CASE Ack(Head(todo)) /\ todo' = Tail(todo) /\ ret' = ret
      BY <3>1
    <3>2. CASE todo' = Tail(todo) /\ ret' = TRUE
      BY <3>2
    <3>3. Head(todo).kind # "must" /\ (ret \/ Head(todo).kind = "latch") = TRUE
      BY <2>1
    <3> QED BY <3>1, <3>2, <3>3 DEF BlockWrite
  <2>3. Latches(todo)'
    BY <1>1, <1>3, <2>2, HeadTailProperties DEF InitInv, Latches, TypeOK
  <2>4. ~ret' => Due("SETUP", 1)' /\ Due("DISP_CTL", 1)'
    BY <1>1, <1>2, <1>3, <2>2, DueAfterAck DEF InitInv
  <2>5. ~ret' /\ pc = "init_sync" => Due("PL_SYNC", SyncAll)'
    BY <1>1, <1>2, <1>3, <2>2, DueAfterAck DEF InitInv
  <2> QED BY <1>1, <1>3, <2>3, <2>4, <2>5 DEF InitInv, InitLabels, CheckLabels
<1>4. CASE pc \in {"gamma", "flip"}
  <2>1. ~ret' => ~ret
    BY DEF BlockWrite, TypeOK
  <2>2. /\ Spares(todo, "SETUP")' /\ Spares(todo, "DISP_CTL")' /\ Spares(todo, "PL_SYNC")'
        /\ Holds("SETUP", 1) => Holds("SETUP", 1)'
        /\ Holds("DISP_CTL", 1) => Holds("DISP_CTL", 1)'
        /\ Holds("PL_SYNC", SyncAll) => Holds("PL_SYNC", SyncAll)'
    BY <1>2, <1>4, SparedStays DEF InitInv
  <2> QED BY <1>1, <1>4, <2>1, <2>2 DEF InitInv, InitLabels, CheckLabels
<1>5. CASE pc \in EnableLabels \cup {"disable"}
  BY <1>1, <1>5 DEF InitInv, InitLabels, CheckLabels, EnableLabels
<1> QED BY <1>3, <1>4, <1>5 DEF BlockWrite, BlockLabels, InitLabels

(* The end of a block, and the beginning of the next.                      *)
LEMMA InitNextBlock == TypeOK /\ InitInv /\ InitBlockEnd => InitInv'
<1> SUFFICES ASSUME TypeOK, InitInv, InitBlockEnd PROVE InitInv'
  OBVIOUS
<1> USE DEF InitInv, InitLabels, CheckLabels, Goto
<1>1. /\ chip' = chip /\ dead' = dead /\ ret' = ret /\ bist_enable \in BOOLEAN /\ todo = << >>
      /\ \A reg, v : Holds(reg, v) => Holds(reg, v)'
  BY DEF InitBlockEnd, hwVars, TypeOK, Holds
<1>2. \A reg, v : Due(reg, v) => Holds(reg, v)
  BY <1>1, DueAtEnd
<1>3. CASE pc = "init"
  <2>1. pc' = "init_mode" /\ todo' = ModeWrites(bist_enable)
    BY <1>3 DEF InitBlockEnd
  <2> QED BY <1>1, <1>2, <1>3, <2>1, InitBlocks DEF Due
<1>4. CASE pc = "init_mode"
  <2>1. pc' = "init_sync" /\ todo' = SyncWrites(bist_enable)
    BY <1>4 DEF InitBlockEnd
  <2> QED BY <1>1, <1>2, <1>4, <2>1, InitBlocks DEF Due
<1>5. CASE pc = "init_sync"
  <2>1. pc' = "gamma" /\ todo' = GammaWrites(22)
    BY <1>5 DEF InitBlockEnd
  <2> QED BY <1>1, <1>2, <1>5, <2>1, InitBlocks
<1>6. CASE pc = "gamma"
  <2>1. pc' = "flip" /\ todo' = FlipWrites
    BY <1>6 DEF InitBlockEnd
  <2> QED BY <1>1, <1>6, <2>1, InitBlocks
<1>7. CASE pc = "flip"
  <2>1. pc' = IF ret THEN "err_avee" ELSE "chk_id0"
    BY <1>7 DEF InitBlockEnd
  <2> QED BY <1>1, <1>7, <2>1
<1> QED BY <1>3, <1>4, <1>5, <1>6, <1>7 DEF InitBlockEnd

(* Every step keeps InitInv.                                               *)
LEMMA InitStep == TypeOK /\ RailInv /\ PreparedInv /\ InitInv /\ [Next]_vars => InitInv'
<1> SUFFICES ASSUME TypeOK, RailInv, PreparedInv, InitInv, [Next]_vars PROVE InitInv'
  OBVIOUS
<1> USE DEF hwVars, ctxVars, drmVars, Goto
<1>0. pc' \notin InitLabels \cup {"gamma", "flip"} \cup CheckLabels => InitInv'
  BY DEF InitInv, InitLabels
<1>1. CASE Calls
  BY <1>0, <1>1 DEF Calls, PrepareCall, EnableCall, DisableCall, UnprepareCall, Call,
     InitLabels, CheckLabels
<1>2. CASE PrepareRails \/ ErrPowerOff \/ UnprepareRails
  BY <1>0, <1>2 DEF PrepareRails, ErrPowerOff, UnprepareRails, SetLine, InitLabels, CheckLabels
<1>3. CASE PrepareRun
  <2>1. pc' = "init" /\ todo' = InitWrites
    BY <1>3 DEF PrepareRun
  <2>2. Latches(todo') /\ Due("SETUP", 1)' /\ Due("DISP_CTL", 1)'
    BY <2>1, InitBlocks DEF Due
  <2> QED BY <2>1, <2>2 DEF InitInv, InitLabels, CheckLabels
<1>4. CASE BlockWrite
  BY <1>4, InitWrite
<1>5. CASE InitBlockEnd
  BY <1>5, InitNextBlock
<1>6. CASE CheckPanelStatus
  <2>1. pc \in CheckLabels /\ pc' \in CheckLabels \cup {"err_avee"}
    BY <1>6 DEF CheckPanelStatus, Check, CheckLabels
  <2>2. chip' = chip /\ dead' = dead
    BY <1>6 DEF CheckPanelStatus, Check, Nack
  <2> QED BY <2>1, <2>2 DEF InitInv, Holds, InitLabels, CheckLabels
<1>7. CASE PrepareEmit
  <2>1. Up(rail')
    BY <1>7 DEF PrepareEmit, SetLine, Up, RailInv, Powered, Released, TypeOK, Line
  <2>2. pc = "prep_emit" /\ pc' = "prep_done" /\ chip' = chip /\ dead' = dead
    BY <1>7, <2>1 DEF PrepareEmit, SetLine
  <2> QED BY <2>2 DEF InitInv, Holds, InitLabels, CheckLabels
<1>8. CASE PrepareDone \/ EnableDone \/ DisableDone \/ UnprepareDone
  BY <1>0, <1>8 DEF PrepareDone, EnableDone, DisableDone, UnprepareDone, InitLabels, CheckLabels
<1>9. CASE SetParam \/ UNCHANGED vars
  <2>1. pc' = pc /\ chip' = chip /\ dead' = dead /\ todo' = todo /\ ret' = ret
    BY <1>9 DEF SetParam, vars
  <2> QED BY <2>1 DEF InitInv, Due, Keeps, Spares, Latches, Holds
<1> QED
  BY <1>1, <1>2, <1>3, <1>4, <1>5, <1>6, <1>7, <1>8, <1>9 DEF Next, Calls, Running

-----------------------------------------------------------------------------
(* The mode.                                                               *)

(* While the panel is prepared and nothing fails, every write of enable    *)
(* is acknowledged.                                                        *)
LEMMA EnableWriteAcked ==
  ASSUME TypeOK, RailInv, PreparedInv, CheckInv, BlockWrite, pc \in EnableLabels, faults' = 0,
         Head(todo).to = All
  PROVE  Ack(Head(todo)) /\ todo' = Tail(todo)
<1>1. Lit
  BY DEF Lit, PreparedInv
<1>2. Up(rail) /\ dead = {}
  BY <1>1 DEF Up, RailInv, CheckInv, Powered, Released
<1>3. ~Nack(Head(todo).to)
  <2>1. Acks(Head(todo).to)
    BY <1>2 DEF Acks, All, Panel
  <2>2. faults + 1 # 0
    BY DEF TypeOK
  <2> QED BY <2>1, <2>2 DEF Nack
<1> QED BY <1>3 DEF BlockWrite

(* One write of enable.                                                    *)
LEMMA ModeWrite ==
  TypeOK /\ RailInv /\ PreparedInv /\ CheckInv /\ OrderInv /\ ModeInv /\ BlockWrite => ModeInv'
<1> SUFFICES ASSUME TypeOK, RailInv, PreparedInv, CheckInv, OrderInv, ModeInv, BlockWrite,
                    CallerOrdered, faults' = 0
             PROVE  ModeInv'
  BY DEF ModeInv
<1>1. pc' = pc /\ dead' = dead /\ todo # << >>
  BY DEF BlockWrite
<1>2. "DISP_CTL" \in Stored /\ "VID_MODE" \in Stored /\ "PL_SELF_TEST_CFG" \in Stored
  BY DEF Stored, Reg
<1>3. CASE pc \in EnableLabels
  <2>1. faults = 0
    BY DEF BlockWrite, Ack, Nack, TypeOK
  <2>2. Ack(Head(todo)) /\ todo' = Tail(todo)
    <3>1. Head(todo).to = All
      BY <1>1, <1>3, <2>1, HeadTailProperties DEF ModeInv, ToAll, TypeOK
    <3> QED BY <1>3, <3>1, EnableWriteAcked
  <2>3. /\ Due("DISP_CTL", 1)'
        /\ pc = "enable_bist" => Due("VID_MODE", CommandMode)' /\ Due("PL_SELF_TEST_CFG", SelfTestOn)'
        /\ pc = "enable_video" => Due("VID_MODE", VideoMode)' /\ Due("PL_SELF_TEST_CFG", 0)'
    BY <1>1, <1>2, <1>3, <2>1, <2>2, DueAfterAck DEF ModeInv
  <2>4. ToAll(todo)'
    BY <1>1, <1>3, <2>1, <2>2, HeadTailProperties DEF ModeInv, ToAll, TypeOK
  <2> QED BY <1>1, <1>3, <2>3, <2>4 DEF ModeInv, EnableLabels
<1>4. CASE pc \notin EnableLabels
  BY <1>1, <1>4 DEF ModeInv, EnableLabels, BlockWrite, BlockLabels
<1> QED BY <1>3, <1>4

(* An enable that ends has set the mode that the context then names.       *)
LEMMA ModeAtEnd ==
  ASSUME TypeOK, ModeInv, EnableDone, CallerOrdered, faults' = 0
  PROVE  ModeInv'
<1>1. /\ chip' = chip /\ dead' = dead /\ faults = 0 /\ todo = << >> /\ pc' = "idle"
      /\ \A reg, v : Holds(reg, v) => Holds(reg, v)'
  BY DEF EnableDone, Goto, hwVars, Holds
<1>2. \A reg, v : Due(reg, v) => Holds(reg, v)
  BY <1>1, DueAtEnd
<1>3. CASE pc = "enable_bist"
  <2>1. bist' = TRUE /\ vid_mode' = FALSE
    BY <1>3 DEF EnableDone, Goto
  <2>2. Holds("DISP_CTL", 1) /\ Holds("VID_MODE", CommandMode) /\ Holds("PL_SELF_TEST_CFG", SelfTestOn)
    BY <1>1, <1>2, <1>3 DEF ModeInv, EnableLabels
  <2> QED BY <1>1, <2>1, <2>2 DEF ModeInv, EnableLabels
<1>4. CASE pc = "enable_video"
  <2>1. bist' = FALSE /\ vid_mode' = TRUE
    BY <1>4 DEF EnableDone, Goto
  <2>2. Holds("DISP_CTL", 1) /\ Holds("VID_MODE", VideoMode) /\ Holds("PL_SELF_TEST_CFG", 0)
    BY <1>1, <1>2, <1>4 DEF ModeInv, EnableLabels
  <2> QED BY <1>1, <2>1, <2>2 DEF ModeInv, EnableLabels
<1> QED BY <1>3, <1>4 DEF EnableDone, Goto

(* Every step keeps ModeInv.                                               *)
LEMMA ModeStep ==
  TypeOK /\ RailInv /\ PreparedInv /\ CheckInv /\ OrderInv /\ ModeInv /\ [Next]_vars => ModeInv'
<1> SUFFICES ASSUME TypeOK, RailInv, PreparedInv, CheckInv, OrderInv, ModeInv, [Next]_vars,
                    CallerOrdered, faults' = 0
             PROVE  ModeInv'
  BY DEF ModeInv
<1> USE DEF hwVars, ctxVars, drmVars, Goto, EnableLabels
<1>0. pc' \notin EnableLabels /\ (pc' = "idle" => ~enabled') => ModeInv'
  BY DEF ModeInv
<1>1. CASE PrepareCall \/ UnprepareCall \/ DisableCall
  <2>1. /\ chip' = chip /\ dead' = dead /\ pc = "idle" /\ pc' \notin EnableLabels /\ faults = 0
        /\ enabled' = enabled /\ vid_mode' = vid_mode /\ bist' = bist
    BY <1>1 DEF PrepareCall, UnprepareCall, DisableCall, Call
  <2> QED BY <2>1 DEF ModeInv, Holds
<1>2. CASE EnableCall
  <2>1. CASE pc' = "idle"
    <3>1. /\ chip' = chip /\ dead' = dead /\ pc = "idle" /\ faults = 0
          /\ enabled' = enabled /\ vid_mode' = vid_mode /\ bist' = bist
      BY <1>2 DEF EnableCall, Call
    <3> QED BY <2>1, <3>1 DEF ModeInv, Holds
  <2>2. CASE pc' # "idle"
    <3>1. /\ pc' = IF bist_enable THEN "enable_bist" ELSE "enable_video"
          /\ todo' = EnableWrites(bist_enable) /\ bist_enable \in BOOLEAN
      BY <1>2, <2>2 DEF EnableCall, Call, TypeOK
    <3> QED BY <3>1, EnableBlocks DEF ModeInv, Due
  <2> QED BY <2>1, <2>2
<1>3. CASE PrepareRails \/ ErrPowerOff \/ UnprepareRails \/ PrepareEmit
  <2>1. pc # "idle" /\ pc # "disable" /\ enabled' = enabled /\ pc' \notin EnableLabels
    BY <1>3 DEF PrepareRails, ErrPowerOff, UnprepareRails, PrepareEmit, SetLine
  <2> QED BY <1>0, <2>1 DEF OrderInv
<1>4. CASE PrepareRun \/ InitBlockEnd \/ CheckPanelStatus
  BY <1>0, <1>4 DEF PrepareRun, InitBlockEnd, CheckPanelStatus, Check
<1>5. CASE BlockWrite
  BY <1>5, ModeWrite
<1>6. CASE PrepareDone \/ UnprepareDone
  <2>1. pc # "idle" /\ pc # "disable" /\ enabled' = enabled /\ pc' = "idle"
    BY <1>6 DEF PrepareDone, UnprepareDone
  <2> QED BY <1>0, <2>1 DEF OrderInv
<1>7. CASE EnableDone
  BY <1>7, ModeAtEnd
<1>8. CASE DisableDone
  BY <1>0, <1>8 DEF DisableDone
<1>9. CASE SetParam \/ UNCHANGED vars
  <2>1. /\ pc' = pc /\ chip' = chip /\ dead' = dead /\ todo' = todo /\ faults' = faults
        /\ enabled' = enabled /\ vid_mode' = vid_mode /\ bist' = bist
    BY <1>9 DEF SetParam, vars
  <2> QED BY <2>1 DEF ModeInv, Due, Keeps, Spares, ToAll, Holds
<1> QED
  BY <1>1, <1>2, <1>3, <1>4, <1>5, <1>6, <1>7, <1>8, <1>9 DEF Next, Calls, Running

-----------------------------------------------------------------------------
(* The theorems.                                                           *)

(* Both invariants hold together with the one of the supplies.             *)
LEMMA WritesInductive == Spec => [](IInv /\ InitInv /\ ModeInv)
<1>1. Init => InitInv /\ ModeInv
  BY DEF Init, InitInv, ModeInv, InitLabels, CheckLabels, EnableLabels
<1>2. IInv /\ InitInv /\ ModeInv /\ [Next]_vars => InitInv' /\ ModeInv'
  BY InitStep, ModeStep DEF IInv
<1> QED BY Inductive, <1>1, <1>2, PTL DEF Spec

(* When AVEE has been switched on, every panel has got every register that *)
(* jbd4040_init_registers accounts for.                                    *)
THEOREM EmitOnInitialisedPanelsCorrect == Spec => []EmitOnInitialisedPanels
<1>1. IInv /\ InitInv => EmitOnInitialisedPanels
  <2> SUFFICES ASSUME IInv, InitInv, pc = "prep_done" PROVE EmitOnInitialisedPanels
    BY DEF EmitOnInitialisedPanels
  <2>1. dead = {}
    BY DEF IInv, CheckInv, Lit
  <2> QED BY <2>1 DEF InitInv, CheckLabels, Holds, EmitOnInitialisedPanels
<1> QED BY WritesInductive, <1>1, PTL

(* After an enable by an ordered caller without lost transfers the context *)
(* names the mode that the panels are in.                                  *)
THEOREM EnabledAgreesCorrect == Spec => []EnabledAgrees
<1>1. IInv /\ ModeInv => EnabledAgrees
  <2> SUFFICES ASSUME IInv, ModeInv, CallerOrdered /\ enabled /\ pc = "idle" /\ faults = 0
               PROVE  EnabledAgrees
    BY DEF EnabledAgrees
  <2>1. dead = {}
    <3>1. prepared /\ Lit
      BY DEF IInv, OrderInv, Lit
    <3> QED BY <3>1 DEF IInv, CheckInv
  <2>2. vid_mode \in BOOLEAN /\ bist \in BOOLEAN
    BY DEF IInv, TypeOK
  <2>3. \A p \in Panel :
          /\ chip[p]["DISP_CTL"] = 1
          /\ chip[p]["VID_MODE"] = (IF vid_mode THEN VideoMode ELSE CommandMode)
          /\ chip[p]["PL_SELF_TEST_CFG"] = (IF bist THEN SelfTestOn ELSE 0)
    BY <2>1 DEF ModeInv, Holds
  <2>4. VideoMode # CommandMode /\ SelfTestOn # 0
    BY DEF VideoMode, CommandMode, SelfTestOn
  <2>5. ASSUME NEW p \in Panel
        PROVE  /\ (chip[p]["VID_MODE"] = VideoMode) = vid_mode
               /\ (chip[p]["PL_SELF_TEST_CFG"] = SelfTestOn) = bist
    <3>1. (chip[p]["VID_MODE"] = VideoMode) = vid_mode
      <4>1. CASE vid_mode = TRUE
        BY <2>3, <4>1
      <4>2. CASE vid_mode = FALSE
        BY <2>3, <2>4, <4>2
      <4> QED BY <2>2, <4>1, <4>2
    <3>2. (chip[p]["PL_SELF_TEST_CFG"] = SelfTestOn) = bist
      <4>1. CASE bist = TRUE
        BY <2>3, <4>1
      <4>2. CASE bist = FALSE
        BY <2>3, <2>4, <4>2
      <4> QED BY <2>2, <4>1, <4>2
    <3> QED BY <3>1, <3>2
  <2> QED BY <2>3, <2>5 DEF EnabledAgrees
<1> QED BY WritesInductive, <1>1, PTL
=============================================================================
