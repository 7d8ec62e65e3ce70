------------------------ MODULE PanelJbd4040Proofs -------------------------
(***************************************************************************)
(* Proofs about the DRM callbacks of the JBD4040 panel, for every bound on *)
(* the transfer failures, every order of calls and any use of the module   *)
(* parameter.                                                              *)
(***************************************************************************)
EXTENDS PanelJbd4040, TLAPS, SequenceTheorems

-----------------------------------------------------------------------------
(* Register writes.                                                        *)

(* Short tuples are sequences.                                             *)
LEMMA Tuples ==
  ASSUME NEW T, NEW a \in T, NEW b \in T, NEW c \in T, NEW d \in T, NEW e \in T
  PROVE  /\ <<a>> \in Seq(T) /\ <<a, b>> \in Seq(T) /\ <<a, b, c>> \in Seq(T)
         /\ <<a, b, c, d>> \in Seq(T) /\ <<a, b, c, d, e>> \in Seq(T)
  OBVIOUS

(* The values the callbacks write.                                         *)
WrittenValues == {VideoMode, CommandMode, SyncAll, LoadOnly, SelfTestOn, GammaOn, 0, 1, 2, 3, 22}

(* Every way of writing one of these values is a well-formed write.        *)
LEMMA WriteForms ==
  ASSUME NEW S \in SUBSET Panel, NEW r \in Reg, NEW v \in WrittenValues
  PROVE  Try(S, r, v) \in Write /\ Must(S, r, v) \in Write /\ Latch(S, r, v) \in Write
  BY DEF Try, Must, Latch, Write, Value, WrittenValues, VideoMode, CommandMode, SyncAll,
         LoadOnly, SelfTestOn, GammaOn

(* Every block of the callbacks is a sequence of well-formed writes.       *)
LEMMA BlocksTyped ==
  ASSUME NEW be \in BOOLEAN
  PROVE  /\ InitWrites \in Seq(Write)
         /\ ModeWrites(be) \in Seq(Write)
         /\ SyncWrites(be) \in Seq(Write)
         /\ GammaWrites(22) \in Seq(Write)
         /\ FlipWrites \in Seq(Write)
         /\ EnableWrites(be) \in Seq(Write)
         /\ DisableWrites \in Seq(Write)
<1>0. /\ \A r \in Reg, v \in WrittenValues : 
           Try(All, r, v) \in Write /\ Must(All, r, v) \in Write /\ Latch(All, r, v) \in Write
      /\ \A p \in Panel, r \in Reg, v \in WrittenValues : Try({p}, r, v) \in Write
  BY WriteForms DEF All
<1>1. InitWrites \in Seq(Write)
  <2>1. /\ Latch(All, "SETUP", 1) \in Write /\ Latch(All, "DISP_CTL", 1) \in Write
        /\ Latch(All, "PL_SYNC", LoadOnly) \in Write /\ Latch(All, "DCS_EN", 0) \in Write
    BY <1>0 DEF Reg, WrittenValues
  <2> QED BY <2>1, Tuples DEF InitWrites
<1>2. ModeWrites(be) \in Seq(Write)
  <2>1. /\ Latch(All, "VID_MODE", VideoMode) \in Write /\ Latch(All, "VID_MODE", CommandMode) \in Write 
        /\ Latch(All, "SETUP", 1) \in Write
    BY <1>0 DEF Reg, WrittenValues
  <2> QED BY <2>1, Tuples DEF ModeWrites
<1>3. SyncWrites(be) \in Seq(Write)
  <2>1. Latch(All, "PL_SELF_TEST_CFG", SelfTestOn) \in Write /\ Latch(All, "PL_SYNC", SyncAll) \in Write
    BY <1>0 DEF Reg, WrittenValues
  <2> QED BY <2>1, Tuples DEF SyncWrites
<1>4. GammaWrites(22) \in Seq(Write)
  <2>1. /\ Must(All, "GAMMA_LO", 22) \in Write /\ Must(All, "GAMMA_HI", 22) \in Write
        /\ Must(All, "GAM_CFG", GammaOn) \in Write
    BY <1>0 DEF Reg, WrittenValues
  <2> QED BY <2>1, Tuples DEF GammaWrites
<1>5. FlipWrites \in Seq(Write)
  <2>1. /\ Try({"R"}, "IMG_FLIP", 3) \in Write /\ Try({"G"}, "IMG_FLIP", 2) \in Write
        /\ Try({"B"}, "IMG_FLIP", 3) \in Write
    BY <1>0 DEF Panel, Reg, WrittenValues
  <2> QED BY <2>1, Tuples DEF FlipWrites
<1>6. EnableWrites(be) \in Seq(Write)
  <2>1. /\ Try(All, "DISP_CTL", 1) \in Write /\ Try(All, "SETUP", 1) \in Write
        /\ Try(All, "PL_SYNC", SyncAll) \in Write 
    BY <1>0 DEF Reg, WrittenValues
  <2>2. /\ Try(All, "VID_MODE", CommandMode) \in Write /\ Try(All, "VID_MODE", VideoMode) \in Write
        /\ Try(All, "PL_SELF_TEST_CFG", SelfTestOn) \in Write
        /\ Try(All, "PL_SELF_TEST_CFG", 0) \in Write
    BY <1>0 DEF Reg, WrittenValues
  <2>3. CASE be
    BY <2>1, <2>2, <2>3, Tuples DEF EnableWrites
  <2>4. CASE ~be
    BY <2>1, <2>2, <2>4, Tuples DEF EnableWrites
  <2> QED BY <2>3, <2>4
<1>7. DisableWrites \in Seq(Write)
  <2>1. Try(All, "DISP_CTL", 0) \in Write
    BY <1>0 DEF Reg, WrittenValues
  <2> QED BY <2>1, Tuples DEF DisableWrites
<1> QED BY <1>1, <1>2, <1>3, <1>4, <1>5, <1>6, <1>7

RegisterFile == [Panel -> [Stored -> Value]]

(* A write leaves register files register files.                           *)
LEMMA WrittenTyped ==
  ASSUME NEW c \in RegisterFile, NEW w \in Write, NEW live \in SUBSET Panel
  PROVE  Written(c, w, live) \in RegisterFile
  BY DEF Written, RegisterFile, Write

(* A reset leaves register files register files.                           *)
LEMMA ResetTyped == ResetChip \in RegisterFile
  BY DEF ResetChip, RegisterFile, Value

-----------------------------------------------------------------------------
(* Type correctness.                                                       *)

(* A GPIO step keeps the types.                                            *)
LEMMA SetLineTyped ==
  ASSUME TypeOK, NEW a, NEW line \in Line, NEW val \in {0, 1}, NEW b \in Labels,
         SetLine(a, line, val, b)
  PROVE  TypeOK'
<1>1. chip' \in RegisterFile
  BY ResetTyped DEF SetLine, TypeOK, RegisterFile
<1>2. rail' \in [Line -> {0, 1}] /\ pc' \in Labels
  BY DEF SetLine, Goto, TypeOK
<1> QED
  BY <1>1, <1>2 DEF SetLine, Goto, TypeOK, RegisterFile, ctxVars

(* A status read keeps the types.                                          *)
LEMMA CheckTyped ==
  ASSUME TypeOK, NEW a, NEW S \in SUBSET Panel, NEW b \in Labels, Check(a, S, b)
  PROVE  TypeOK'
<1>1. faults' \in 0 .. MaxFaults /\ chip' = chip
  BY FaultsAssumption DEF Check, Nack, TypeOK
<1>2. pc' \in Labels
  BY DEF Check, Goto, Labels, PrepareLabels
<1> QED
  BY <1>1, <1>2 DEF Check, TypeOK, ctxVars

(* A register write of a block keeps the types.                            *)
LEMMA BlockWriteTyped ==
  ASSUME TypeOK, BlockWrite
  PROVE  TypeOK'
<1> DEFINE w == Head(todo)
<1>1. w \in Write /\ Tail(todo) \in Seq(Write) /\ << >> \in Seq(Write)
  BY HeadTailProperties DEF BlockWrite, TypeOK
<1>2. CASE Ack(w) /\ todo' = Tail(todo) /\ UNCHANGED ret
  <2>1. chip' \in RegisterFile
    BY <1>1, <1>2, WrittenTyped DEF Ack, TypeOK, RegisterFile
  <2> QED
    BY <1>1, <1>2, <2>1 DEF BlockWrite, Ack, TypeOK, RegisterFile, ctxVars
<1>3. CASE /\ Nack(w.to)
           /\ todo' = IF w.kind = "must" THEN << >> ELSE Tail(todo)
           /\ ret' = (ret \/ w.kind = "latch")
  <2>1. faults' \in 0 .. MaxFaults /\ chip' = chip
    BY <1>3, FaultsAssumption DEF Nack, TypeOK
  <2>2. ret' \in BOOLEAN /\ todo' \in Seq(Write)
    BY <1>1, <1>3 DEF TypeOK
  <2> QED
    BY <2>1, <2>2 DEF BlockWrite, TypeOK, ctxVars
<1> QED
  BY <1>2, <1>3 DEF BlockWrite

(* Every step keeps the types.                                             *)
LEMMA TypeStep == TypeOK /\ [Next]_vars => TypeOK'
<1> SUFFICES ASSUME TypeOK, [Next]_vars PROVE TypeOK'
  OBVIOUS
<1> USE DEF hwVars, ctxVars, drmVars
<1>0. \A f \in Phase : After[f] \in Phase
  BY DEF Phase, After
<1>1. CASE PrepareCall
  BY <1>0, <1>1 DEF PrepareCall, Call, TypeOK, Labels, PrepareLabels, Phase
<1>2. CASE PrepareRails
  BY <1>2, SetLineTyped DEF PrepareRails, Line, Labels, PrepareLabels
<1>3. CASE PrepareRun
  BY <1>3, BlocksTyped DEF PrepareRun, Goto, TypeOK, Line, Labels, PrepareLabels
<1>4. CASE BlockWrite
  BY <1>4, BlockWriteTyped
<1>5. CASE InitBlockEnd
  <2>1. todo' \in Seq(Write)
    BY <1>5, BlocksTyped DEF InitBlockEnd, TypeOK
  <2>2. pc' \in Labels
    BY <1>5 DEF InitBlockEnd, Goto, Labels, PrepareLabels
  <2> QED
    BY <1>5, <2>1, <2>2 DEF InitBlockEnd, TypeOK
<1>6. CASE CheckPanelStatus
  BY <1>6, CheckTyped DEF CheckPanelStatus, All, Panel, Labels, PrepareLabels
<1>7. CASE PrepareEmit
  BY <1>7, SetLineTyped DEF PrepareEmit, Line, Labels, PrepareLabels
<1>8. CASE PrepareDone
  BY <1>8 DEF PrepareDone, Goto, TypeOK, Labels
<1>9. CASE ErrPowerOff
  BY <1>9, SetLineTyped DEF ErrPowerOff, Line, Labels, PrepareLabels
<1>10. CASE EnableCall
  BY <1>0, <1>10, BlocksTyped
     DEF EnableCall, Call, TypeOK, Labels, EnableLabels, Phase
<1>11. CASE EnableDone
  BY <1>11 DEF EnableDone, Goto, TypeOK, Labels
<1>12. CASE DisableCall
  BY <1>0, <1>12, BlocksTyped DEF DisableCall, Call, TypeOK, Labels, Phase
<1>13. CASE DisableDone
  BY <1>13 DEF DisableDone, Goto, TypeOK, Labels
<1>14. CASE UnprepareCall
  BY <1>0, <1>14 DEF UnprepareCall, Call, TypeOK, Labels, UnprepareLabels, Phase
<1>15. CASE UnprepareRails
  BY <1>15, SetLineTyped DEF UnprepareRails, Line, Labels, UnprepareLabels
<1>16. CASE UnprepareDone
  BY <1>16 DEF UnprepareDone, Goto, TypeOK, Labels
<1>17. CASE SetParam
  BY <1>17 DEF SetParam, TypeOK
<1>18. CASE UNCHANGED vars
  BY <1>18 DEF vars, TypeOK
<1> QED
  BY <1>1, <1>2, <1>3, <1>4, <1>5, <1>6, <1>7, <1>8, <1>9, <1>10, <1>11, <1>12,
     <1>13, <1>14, <1>15, <1>16, <1>17, <1>18 DEF Next, Calls, Running

(* The driver starts well-typed.                                           *)
LEMMA TypeInit == Init => TypeOK
<1> SUFFICES ASSUME Init PROVE TypeOK
  OBVIOUS
<1>1. rail \in [Line -> {0, 1}] /\ chip \in [Panel -> [Stored -> Value]]
  BY ResetTyped DEF Init, RegisterFile
<1>2. faults \in 0 .. MaxFaults /\ todo \in Seq(Write)
  BY FaultsAssumption DEF Init
<1> QED
  BY <1>1, <1>2 DEF Init, TypeOK, Labels, Phase

(* TypeOK holds throughout: register files, context and control stay       *)
(* within their types whatever transfers fail.                             *)
THEOREM TypeCorrect == Spec => []TypeOK
  BY TypeInit, TypeStep, PTL DEF Spec

-----------------------------------------------------------------------------
(* The supplies.                                                           *)

(* A GPIO step changes one line and moves on; prepared stays.              *)
LEMMA RailStep == TypeOK /\ RailInv /\ PreparedInv /\ [Next]_vars => RailInv' /\ PreparedInv'
<1> SUFFICES ASSUME TypeOK, RailInv, PreparedInv, [Next]_vars
             PROVE  RailInv' /\ PreparedInv'
  OBVIOUS
<1> USE DEF hwVars, ctxVars, drmVars, RailInv, PreparedInv, Lit, Released, Powered,
            EnableLabels, PrepareLabels, UnprepareLabels, Goto
<1>1. CASE PrepareCall
  BY <1>1 DEF PrepareCall, Call
<1>2. CASE PrepareRails
  BY <1>2 DEF PrepareRails, SetLine, TypeOK, Line
<1>3. CASE PrepareRun
  BY <1>3 DEF PrepareRun, TypeOK, Line
<1>4. CASE BlockWrite
  BY <1>4 DEF BlockWrite
<1>5. CASE InitBlockEnd
  BY <1>5 DEF InitBlockEnd
<1>6. CASE CheckPanelStatus
  BY <1>6 DEF CheckPanelStatus, Check
<1>7. CASE PrepareEmit
  BY <1>7 DEF PrepareEmit, SetLine, TypeOK, Line
<1>8. CASE PrepareDone
  BY <1>8 DEF PrepareDone
<1>9. CASE ErrPowerOff
  BY <1>9 DEF ErrPowerOff, SetLine, TypeOK, Line
<1>10. CASE EnableCall
  BY <1>10 DEF EnableCall, Call
<1>11. CASE EnableDone
  BY <1>11 DEF EnableDone
<1>12. CASE DisableCall
  BY <1>12 DEF DisableCall, Call
<1>13. CASE DisableDone
  BY <1>13 DEF DisableDone
<1>14. CASE UnprepareCall
  BY <1>14 DEF UnprepareCall, Call
<1>15. CASE UnprepareRails
  BY <1>15 DEF UnprepareRails, SetLine, TypeOK, Line
<1>16. CASE UnprepareDone
  BY <1>16 DEF UnprepareDone
<1>17. CASE SetParam
  BY <1>17 DEF SetParam
<1>18. CASE UNCHANGED vars
  BY <1>18 DEF vars
<1> QED
  BY <1>1, <1>2, <1>3, <1>4, <1>5, <1>6, <1>7, <1>8, <1>9, <1>10, <1>11, <1>12,
     <1>13, <1>14, <1>15, <1>16, <1>17, <1>18 DEF Next, Calls, Running

-----------------------------------------------------------------------------
(* What the status reads have shown.                                       *)

(* A colour's own address answers only if that panel is not dead, so each  *)
(* status read that succeeds adds one panel to those known to work.        *)
LEMMA CheckStep == TypeOK /\ PreparedInv /\ CheckInv /\ [Next]_vars => CheckInv'
<1> SUFFICES ASSUME TypeOK, PreparedInv, CheckInv, [Next]_vars
             PROVE  CheckInv'
  OBVIOUS
<1> USE DEF hwVars, ctxVars, drmVars, CheckInv, PreparedInv, Lit,
            EnableLabels, PrepareLabels, UnprepareLabels, Goto
<1>1. CASE PrepareCall
  BY <1>1 DEF PrepareCall, Call
<1>2. CASE PrepareRails
  BY <1>2 DEF PrepareRails, SetLine
<1>3. CASE PrepareRun
  BY <1>3 DEF PrepareRun
<1>4. CASE BlockWrite
  BY <1>4 DEF BlockWrite
<1>5. CASE InitBlockEnd
  BY <1>5 DEF InitBlockEnd
<1>6. CASE CheckPanelStatus
  <2>1. dead' = dead /\ prepared' = prepared
    BY <1>6 DEF CheckPanelStatus, Check
  <2>2. /\ pc' = "chk_g" => "R" \notin dead
        /\ pc' = "chk_b" => pc = "chk_g" /\ "G" \notin dead
        /\ pc' = "prep_emit" => pc = "chk_b" /\ "B" \notin dead
        /\ pc' \in {"chk_id1", "chk_r", "chk_g", "chk_b", "prep_emit", "err_avee"}
    BY <1>6 DEF CheckPanelStatus, Check, Acks
  <2> QED
    BY <1>6, <2>1, <2>2 DEF CheckPanelStatus, Check
<1>7. CASE PrepareEmit
  BY <1>7 DEF PrepareEmit, SetLine, TypeOK, Panel
<1>8. CASE PrepareDone
  BY <1>8 DEF PrepareDone
<1>9. CASE ErrPowerOff
  BY <1>9 DEF ErrPowerOff, SetLine
<1>10. CASE EnableCall
  BY <1>10 DEF EnableCall, Call
<1>11. CASE EnableDone
  BY <1>11 DEF EnableDone
<1>12. CASE DisableCall
  BY <1>12 DEF DisableCall, Call
<1>13. CASE DisableDone
  BY <1>13 DEF DisableDone
<1>14. CASE UnprepareCall
  BY <1>14 DEF UnprepareCall, Call
<1>15. CASE UnprepareRails
  BY <1>15 DEF UnprepareRails, SetLine
<1>16. CASE UnprepareDone
  BY <1>16 DEF UnprepareDone
<1>17. CASE SetParam
  BY <1>17 DEF SetParam
<1>18. CASE UNCHANGED vars
  BY <1>18 DEF vars
<1> QED
  BY <1>1, <1>2, <1>3, <1>4, <1>5, <1>6, <1>7, <1>8, <1>9, <1>10, <1>11, <1>12,
     <1>13, <1>14, <1>15, <1>16, <1>17, <1>18 DEF Next, Calls, Running

-----------------------------------------------------------------------------
(* The order of the calls.                                                 *)

(* With an ordered caller, an enable that finds the panel prepared is the  *)
(* only way to become enabled, and the disable that follows ends it.       *)
LEMMA OrderStep == PreparedInv /\ OrderInv /\ [Next]_vars => OrderInv'
<1> SUFFICES ASSUME PreparedInv, OrderInv, [Next]_vars
             PROVE  OrderInv'
  OBVIOUS
<1> USE DEF hwVars, ctxVars, drmVars, OrderInv, PreparedInv,
            EnableLabels, PrepareLabels, UnprepareLabels, Goto, After
<1>1. CASE PrepareCall
  BY <1>1 DEF PrepareCall, Call
<1>2. CASE PrepareRails
  BY <1>2 DEF PrepareRails, SetLine
<1>3. CASE PrepareRun
  BY <1>3 DEF PrepareRun
<1>4. CASE BlockWrite
  BY <1>4 DEF BlockWrite
<1>5. CASE InitBlockEnd
  BY <1>5 DEF InitBlockEnd
<1>6. CASE CheckPanelStatus
  BY <1>6 DEF CheckPanelStatus, Check
<1>7. CASE PrepareEmit
  BY <1>7 DEF PrepareEmit, SetLine
<1>8. CASE PrepareDone
  BY <1>8 DEF PrepareDone
<1>9. CASE ErrPowerOff
  BY <1>9 DEF ErrPowerOff, SetLine
<1>10. CASE EnableCall
  BY <1>10 DEF EnableCall, Call
<1>11. CASE EnableDone
  BY <1>11 DEF EnableDone
<1>12. CASE DisableCall
  BY <1>12 DEF DisableCall, Call
<1>13. CASE DisableDone
  BY <1>13 DEF DisableDone
<1>14. CASE UnprepareCall
  BY <1>14 DEF UnprepareCall, Call
<1>15. CASE UnprepareRails
  BY <1>15 DEF UnprepareRails, SetLine
<1>16. CASE UnprepareDone
  BY <1>16 DEF UnprepareDone
<1>17. CASE SetParam
  BY <1>17 DEF SetParam
<1>18. CASE UNCHANGED vars
  BY <1>18 DEF vars
<1> QED
  BY <1>1, <1>2, <1>3, <1>4, <1>5, <1>6, <1>7, <1>8, <1>9, <1>10, <1>11, <1>12,
     <1>13, <1>14, <1>15, <1>16, <1>17, <1>18 DEF Next, Calls, Running

-----------------------------------------------------------------------------
(* The theorems.                                                           *)

(* The invariant holds at the start: everything is off, nothing is known.  *)
LEMMA InductiveInit == Init => IInv
<1> SUFFICES ASSUME Init PROVE IInv
  OBVIOUS
<1>1. TypeOK
  BY TypeInit
<1>2. RailInv /\ PreparedInv /\ CheckInv /\ OrderInv
  BY DEF Init, RailInv, PreparedInv, CheckInv, OrderInv, Lit, Released, Powered, Line,
         EnableLabels, PrepareLabels, UnprepareLabels
<1> QED
  BY <1>1, <1>2 DEF IInv

(* The inductive invariant.                                                *)
LEMMA Inductive == Spec => []IInv
<1>1. IInv /\ [Next]_vars => IInv'
  BY TypeStep, RailStep, CheckStep, OrderStep DEF IInv
<1> QED
  BY InductiveInit, <1>1, PTL DEF Spec

(* AVEE is on only over panels that have AVDD, are out of RESET and have   *)
(* all answered the status reads, in the middle of a callback as well.     *)
THEOREM EmitOnlyWhenCheckedCorrect == Spec => []EmitOnlyWhenChecked
<1>1. IInv => EmitOnlyWhenChecked
  BY DEF IInv, RailInv, CheckInv, EmitOnlyWhenChecked, Lit, Released, Powered
<1> QED
  BY Inductive, <1>1, PTL

(* Every callback returns with all supplies on and prepared, or with both  *)
(* switched supplies off and not prepared.                                 *)
THEOREM ReturnsAllOrNothingCorrect == Spec => []ReturnsAllOrNothing
<1>1. IInv => ReturnsAllOrNothing
  BY DEF IInv, RailInv, ReturnsAllOrNothing, Lit, Released, Powered
<1> QED
  BY Inductive, <1>1, PTL

(* An ordered caller never sees an enabled display without its supplies.   *)
THEOREM EnabledOnlyLitCorrect == Spec => []EnabledOnlyLit
<1>1. IInv => EnabledOnlyLit
  BY DEF IInv, RailInv, OrderInv, EnabledOnlyLit, Lit
<1> QED
  BY Inductive, <1>1, PTL

-----------------------------------------------------------------------------
(* The callbacks implement PanelPower.                                     *)

(* The level of the supplies as a function of the control point.           *)
ControlLevel == IF Lit THEN 3 ELSE IF Released THEN 2 ELSE IF Powered THEN 1 ELSE 0

(* From one control point to the next the level moves by one at most, up   *)
(* to 3 only with every panel working; prepared changes only at 3 and 0.   *)
LEMMA ControlStep ==
  ASSUME TypeOK, PreparedInv, CheckInv, [Next]_vars
  PROVE  /\ dead' = dead
         /\ \/ ControlLevel' = ControlLevel /\ prepared' = prepared
            \/ /\ ControlLevel' = ControlLevel + 1 /\ prepared' = prepared
               /\ ControlLevel < 3 /\ (ControlLevel = 2 => dead = {})
            \/ /\ ControlLevel' = ControlLevel - 1 /\ prepared' = prepared
               /\ ControlLevel > 0
            \/ ControlLevel = 3 /\ ControlLevel' = 3 /\ ~prepared /\ prepared' = TRUE
            \/ ControlLevel = 0 /\ ControlLevel' = 0 /\ prepared /\ prepared' = FALSE
<1> USE DEF hwVars, ctxVars, drmVars, PreparedInv, CheckInv, ControlLevel, Lit, Released,
            Powered, EnableLabels, PrepareLabels, UnprepareLabels, Goto
<1>1. CASE PrepareCall
  BY <1>1 DEF PrepareCall, Call
<1>2. CASE PrepareRails
  BY <1>2 DEF PrepareRails, SetLine
<1>3. CASE PrepareRun
  BY <1>3 DEF PrepareRun
<1>4. CASE BlockWrite
  BY <1>4 DEF BlockWrite
<1>5. CASE InitBlockEnd
  BY <1>5 DEF InitBlockEnd
<1>6. CASE CheckPanelStatus
  BY <1>6 DEF CheckPanelStatus, Check
<1>7. CASE PrepareEmit
  BY <1>7 DEF PrepareEmit, SetLine, TypeOK, Panel
<1>8. CASE PrepareDone
  BY <1>8 DEF PrepareDone
<1>9. CASE ErrPowerOff
  BY <1>9 DEF ErrPowerOff, SetLine
<1>10. CASE EnableCall
  BY <1>10 DEF EnableCall, Call
<1>11. CASE EnableDone
  BY <1>11 DEF EnableDone
<1>12. CASE DisableCall
  BY <1>12 DEF DisableCall, Call
<1>13. CASE DisableDone
  BY <1>13 DEF DisableDone
<1>14. CASE UnprepareCall
  BY <1>14 DEF UnprepareCall, Call
<1>15. CASE UnprepareRails
  BY <1>15 DEF UnprepareRails, SetLine
<1>16. CASE UnprepareDone
  BY <1>16 DEF UnprepareDone
<1>17. CASE SetParam
  BY <1>17 DEF SetParam
<1>18. CASE UNCHANGED vars
  BY <1>18 DEF vars
<1> QED
  BY <1>1, <1>2, <1>3, <1>4, <1>5, <1>6, <1>7, <1>8, <1>9, <1>10, <1>11, <1>12,
     <1>13, <1>14, <1>15, <1>16, <1>17, <1>18 DEF Next, Calls, Running

(* A step of the callbacks is a step of PanelPower, or none.               *)
LEMMA PowerStep == IInv /\ IInv' /\ [Next]_vars => [Power!PNext]_(Power!pvars)
<1> SUFFICES ASSUME IInv, IInv', [Next]_vars
             PROVE  [Power!PNext]_(Power!pvars)
  OBVIOUS
<1>1. Level = ControlLevel /\ Level' = ControlLevel'
  BY DEF IInv, RailInv, Level, ControlLevel, Released, Powered
<1>2. Level \in 0 .. 3
  BY DEF Level
<1>3. /\ dead' = dead
      /\ \/ Level' = Level /\ prepared' = prepared
         \/ /\ Level' = Level + 1 /\ prepared' = prepared
            /\ Level < 3 /\ (Level = 2 => dead = {})
         \/ Level' = Level - 1 /\ prepared' = prepared /\ Level > 0
         \/ Level = 3 /\ Level' = 3 /\ ~prepared /\ prepared' = TRUE
         \/ Level = 0 /\ Level' = 0 /\ prepared /\ prepared' = FALSE
  BY <1>1, ControlStep DEF IInv
<1> QED
  BY <1>2, <1>3 DEF Power!PNext, Power!Raise, Power!Lower, Power!Report, Power!Withdraw,
     Power!pvars

(* The supplies follow PanelPower: one level at a time in both directions, *)
(* AVEE last on and first off, prepared reported only with everything on   *)
(* and withdrawn only with everything off.                                 *)
THEOREM PowerSequenceCorrect == Spec => PowerSequence
<1>1. Init => Power!PInit
  BY DEF Init, Power!PInit, Level, Line
<1> QED
  BY Inductive, PowerStep, <1>1, PTL DEF Spec, PowerSequence, Power!PSpec
=============================================================================
