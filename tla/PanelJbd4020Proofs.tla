------------------------ MODULE PanelJbd4020Proofs -------------------------
(***************************************************************************)
(* Proofs about the JBD4020 panel drivers, for every bound on the lost     *)
(* transfers, the polls and the references, over any number of probes and  *)
(* removes.                                                                *)
(***************************************************************************)
EXTENDS PanelJbd4020, TLAPS, FiniteSetTheorems

-----------------------------------------------------------------------------
(* The inductive invariant, in parts.                                      *)

(* While probe or remove is at these points AVEE is off, VDDI and AVDD are *)
(* on, or the driver has all three lines.                                  *)
DarkPc    == {"avdd", "avee", "power", "power2", "status", "valid", "free", "free2", "init",
              "wait", "avee_en", "down_avdd", "down_vddi"}
PoweredPc == {"status", "valid", "init", "wait", "avee_en", "readcfg", "config", "attach",
              "bound", "down_avee"}
HeldPc    == {"power", "power2", "status", "valid", "free", "free2", "init", "wait",
              "avee_en", "readcfg", "config", "attach"}
AtRest    == pc \in {"unbound", "vddi"}

(* What user space has set does not count.  AVEE of the driver stays on at *)
(* rest only when a right driver has kept all lines.                       *)
LineInv ==
  /\ pc \in DarkPc => level["avee"] = 0 \/ "avee" \in driven
  /\ pc \in PoweredPc => \A l \in {"vddi", "avdd"} \ driven : level[l] = 1
  /\ pc = "power2" => level["vddi"] = 1
  /\ pc \in HeldPc => \A l \in Line : own[l] = "driver"
  /\ pc \in {"avdd", "avee"} => own["vddi"] = "driver"
  /\ pc = "avee" => own["avdd"] = "driver"
  /\ AtRest /\ level["avee"] = 1 /\ "avee" \notin driven =>
       side = "right" /\ Powered /\ \A l \in Line : own[l] = "driver"
  /\ AtRest /\ side = "left" => \A l \in Line : own[l] # "driver"
  /\ \A l \in Line : own[l] = "driver" => l \notin driven

(* The driver has its reference from probe on; polls stop in time.         *)
CountInv ==
  /\ pc # "unbound" => refs > 0
  /\ pc \in {"wait", "readcfg"} => polls < MaxPolls

(* As long as nothing has failed, the valid panels work and have got every *)
(* part so far; after reg_init they have all parts.                        *)
TableInv ==
  /\ pc \in {"init", "wait"} /\ ~ err /\ part > 1 =>
       \A p \in Valid : p \in alive /\ stage[p] = part - 1
  /\ pc \in {"avee_en", "readcfg", "config", "attach"} \/ (pc = "bound" /\ Untouched) =>
       \A p \in Valid : p \in alive /\ stage[p] = Parts
  /\ level["avee"] = 1 /\ driven = {} => \A p \in Valid : stage[p] = Parts
  /\ pc \in {"init", "wait", "avee_en", "readcfg", "config", "attach", "bound"} /\ side = "right"
       => Valid # {}

NeededSettings == {"lum", "cur", "voflip", "vooffset"}

(* What default_config has done so far.                                    *)
ConfigInv ==
  /\ pc = "config" /\ side = "right" /\ ~ err =>
       \A p \in Valid \ waiting : NeededSettings \subseteq set[p]
  /\ (pc = "attach" \/ (pc = "bound" /\ Untouched)) /\ side = "right" =>
       \A p \in Valid : NeededSettings \subseteq set[p]

IInv == JbdTypeOK /\ LineInv /\ CountInv /\ TableInv /\ ConfigInv

-----------------------------------------------------------------------------
(* Transfers.                                                              *)

(* Finite sets, and those that are not empty, have the expected size.      *)
LEMMA PanelSets ==
  ASSUME NEW S \in SUBSET Panel
  PROVE  /\ Cardinality(S) \in Nat
         /\ S # {} => Cardinality(S) > 0
<1>1. IsFiniteSet(Panel)
  <2>1. IsFiniteSet({"R"}) /\ IsFiniteSet({"R"} \cup {"G"})
    BY FS_EmptySet, FS_Singleton, FS_AddElement
  <2>2. IsFiniteSet(({"R"} \cup {"G"}) \cup {"B"})
    BY <2>1, FS_AddElement
  <2>3. Panel = ({"R"} \cup {"G"}) \cup {"B"}
    BY DEF Panel
  <2> QED BY <2>2, <2>3
<1>2. IsFiniteSet(S)
  BY <1>1, FS_Subset
<1>3. Cardinality(S) \in Nat
  BY <1>2, FS_CardinalityType
<1>4. Cardinality(S) = 0 <=> S = {}
  BY <1>2, FS_EmptySet
<1> QED BY <1>3, <1>4

(* So do sets of transfers.                                                *)
LEMMA TransferSets ==
  ASSUME NEW S \in SUBSET Transfer
  PROVE  Cardinality(S) \in Nat
<1>1. IsFiniteSet({"lum"}) 
  BY FS_Singleton
<1>2. IsFiniteSet({"lum"} \cup {"cur"})
  BY <1>1, FS_AddElement
<1>3. IsFiniteSet(({"lum"} \cup {"cur"}) \cup {"flip"})
  BY <1>2, FS_AddElement
<1>4. IsFiniteSet((({"lum"} \cup {"cur"}) \cup {"flip"}) \cup {"voflip"})
  BY <1>3, FS_AddElement
<1>5. IsFiniteSet(((({"lum"} \cup {"cur"}) \cup {"flip"}) \cup {"voflip"}) \cup {"offset"})
  BY <1>4, FS_AddElement
<1>6. IsFiniteSet((((({"lum"} \cup {"cur"}) \cup {"flip"}) \cup {"voflip"}) \cup {"offset"}) \cup {"vooffset"})
  BY <1>5, FS_AddElement
<1>7. Settings = ((((({"lum"} \cup {"cur"}) \cup {"flip"}) \cup {"voflip"}) \cup {"offset"}) \cup {"vooffset"})
  BY DEF Settings
<1>8. IsFiniteSet(((Settings \cup {"readflip"}) \cup {"readvo"}) \cup {"readvo2"})
  <2>1. IsFiniteSet(Settings)
    BY <1>6, <1>7
  <2>2. IsFiniteSet(Settings \cup {"readflip"})
    BY <2>1, FS_AddElement
  <2>3. IsFiniteSet((Settings \cup {"readflip"}) \cup {"readvo"})
    BY <2>2, FS_AddElement
  <2> QED BY <2>3, FS_AddElement
<1>9. Transfer = ((Settings \cup {"readflip"}) \cup {"readvo"}) \cup {"readvo2"}
  BY DEF Transfer
<1>10. IsFiniteSet(S)
  BY <1>8, <1>9, FS_Subset
<1> QED BY <1>10, FS_CardinalityType

(* Lost transfers stay within their bound, never become fewer, and are     *)
(* counted when a working panel loses one.                                 *)
LEMMA LosingCounts ==
  ASSUME JbdTypeOK, NEW to \in SUBSET Panel, NEW lost \in SUBSET Panel, Losing(to, lost)
  PROVE  /\ faults' \in 0..MaxFaults /\ faults' >= faults
         /\ Powered /\ lost \cap alive # {} => faults' > faults
         /\ lost = {} => to \subseteq alive
<1> DEFINE more == IF Powered THEN Cardinality(lost \cap alive) ELSE 0
<1>1. Cardinality(lost \cap alive) \in Nat
      /\ (lost \cap alive # {} => Cardinality(lost \cap alive) > 0)
  BY PanelSets
<1>2. more \in Nat /\ (Powered /\ lost \cap alive # {} => more > 0)
  BY <1>1
<1>3. faults + more <= MaxFaults /\ faults' = faults + more /\ to \ alive \subseteq lost
  BY DEF Losing
<1>4. faults \in 0..MaxFaults /\ MaxFaults \in Nat
  BY BoundsAssumption DEF JbdTypeOK
<1> HIDE DEF more
<1> QED BY <1>2, <1>3, <1>4

(* The panel whose turn it is, is one of those that wait.                  *)
LEMMA FirstWaits ==
  ASSUME NEW S \in SUBSET Panel, S # {}
  PROVE  First(S) \in S
  BY DEF First, Panel

-----------------------------------------------------------------------------
(* Lines.                                                                  *)

(* A line that is driven changes the registers at most to nothing.         *)
LEMMA DriveTypes ==
  ASSUME JbdTypeOK, NEW l \in Line, NEW v \in {0, 1}, Drive(l, v)
  PROVE  /\ level' \in [Line -> {0, 1}] /\ alive' = alive
         /\ stage' \in [Panel -> 0..Parts] /\ set' \in [Panel -> SUBSET Settings]
  BY DEF JbdTypeOK, Drive, Parts

(* The same for the driver, whose levels are its own.                      *)
LEMMA SetLineTypes ==
  ASSUME JbdTypeOK, NEW l \in Line, NEW v \in {0, 1}, SetLine(l, v)
  PROVE  /\ level' \in [Line -> {0, 1}] /\ alive' = alive /\ driven' \in SUBSET Line
         /\ stage' \in [Panel -> 0..Parts] /\ set' \in [Panel -> SUBSET Settings]
  BY DriveTypes DEF JbdTypeOK, SetLine

(* User space takes or returns a line, or sets the level of one it has.    *)
LEMMA UserCases ==
  ASSUME JbdTypeOK, UserLine
  PROVE  /\ UNCHANGED <<side, pc, refs, alive, status, part, waiting, polls, err, cfg, prepared,
                        enabled, faults>>
         /\ \/ UNCHANGED <<level, driven, stage, set>>
            \/ \E l \in Line : /\ own[l] = "user" /\ driven' = driven \cup {l}
                              /\ \E v \in {0, 1} : Drive(l, v)
  BY DEF UserLine, lines, panels, cfg, Unused, Drive

-----------------------------------------------------------------------------
(* Type correctness.                                                       *)

(* Every step keeps the types.                                             *)
LEMMA TypeStep == JbdTypeOK /\ CountInv /\ [Next]_vars => JbdTypeOK'
<1> SUFFICES ASSUME JbdTypeOK, CountInv, [Next]_vars PROVE JbdTypeOK'
  OBVIOUS
<1> USE BoundsAssumption
<1> USE DEF JbdTypeOK, ProbePc, DownPc, Unused, panels, lines, cfg, Parts
<1>1. CASE ProbeCall
  <2>1. refs' \in 0..MaxRefs
    BY <1>1 DEF ProbeCall
  <2> QED BY <1>1, <2>1 DEF ProbeCall
<1>2. CASE GpioGet
  <2>1. \A l \in Line : AfterLine[l] \in ProbePc
    BY DEF AfterLine, Line
  <2>2. /\ level' \in [Line -> {0, 1}] /\ alive' = alive /\ driven' \in SUBSET Line
        /\ stage' \in [Panel -> 0..Parts] /\ set' \in [Panel -> SUBSET Settings]
    BY <1>2, SetLineTypes DEF GpioGet
  <2>3. own' \in [Line -> {"driver", "user", "nobody"}] /\ pc' \in ProbePc \cup {"unbound"}
    BY <1>2, <2>1 DEF GpioGet, ProbeFails, Release
  <2> QED BY <1>2, <2>2, <2>3 DEF GpioGet
<1>3. CASE PowerEn
  <2>1. /\ level' \in [Line -> {0, 1}] /\ alive' = alive /\ driven' \in SUBSET Line
        /\ stage' \in [Panel -> 0..Parts] /\ set' \in [Panel -> SUBSET Settings]
    BY <1>3, SetLineTypes DEF PowerEn, Line
  <2>2. own' \in [Line -> {"driver", "user", "nobody"}] /\ pc' \in ProbePc \cup DownPc \cup {"unbound"}
    BY <1>3 DEF PowerEn
  <2> QED BY <1>3, <2>1, <2>2 DEF PowerEn
<1>4. CASE GetPanelStatus
  <2>1. faults' \in 0..MaxFaults
    BY <1>4, LosingCounts DEF GetPanelStatus, Valid
  <2> QED BY <1>4, <2>1 DEF GetPanelStatus
<1>5. CASE CheckValid
  BY <1>5 DEF CheckValid
<1>6. CASE PowerFree
  <2>1. /\ level' \in [Line -> {0, 1}] /\ alive' = alive /\ driven' \in SUBSET Line
        /\ stage' \in [Panel -> 0..Parts] /\ set' \in [Panel -> SUBSET Settings]
    BY <1>6, SetLineTypes DEF PowerFree, Line
  <2>2. own' \in [Line -> {"driver", "user", "nobody"}] /\ pc' \in ProbePc \cup DownPc \cup {"unbound"}
    BY <1>6 DEF PowerFree, Release, ProbeFails
  <2> QED BY <1>6, <2>1, <2>2 DEF PowerFree
<1>7. CASE RegListWrite
  <2>1. faults' \in 0..MaxFaults
    BY <1>7, LosingCounts DEF RegListWrite, Valid
  <2>2. part \in 1..Parts /\ part' \in 1..(Parts + 1)
    BY <1>7 DEF RegListWrite
  <2>3. stage' \in [Panel -> 0..Parts] /\ set' \in [Panel -> SUBSET Settings]
    BY <1>7, <2>2 DEF RegListWrite, Deliver
  <2>4. waiting' \in SUBSET Panel /\ polls' \in 0..MaxPolls /\ pc' \in ProbePc /\ err' \in BOOLEAN
    BY <1>7 DEF RegListWrite, Valid
  <2> QED BY <1>7, <2>1, <2>2, <2>3, <2>4 DEF RegListWrite
<1>8. CASE WaitPoll
  <2>1. {First(waiting)} \in SUBSET Panel
    BY <1>8, FirstWaits DEF WaitPoll
  <2>2. faults' \in 0..MaxFaults
    <3>1. PICK lost \in SUBSET {First(waiting)} : Losing({First(waiting)}, lost)
      BY <1>8 DEF WaitPoll
    <3>2. lost \in SUBSET Panel
      BY <2>1, <3>1
    <3> QED BY <2>1, <3>1, <3>2, LosingCounts
  <2>3. polls' \in 0..MaxPolls
    BY <1>8 DEF WaitPoll, CountInv
  <2>4. own' \in [Line -> {"driver", "user", "nobody"}] /\ pc' \in ProbePc \cup {"unbound"}
    BY <1>8 DEF WaitPoll, ProbeFails, Release
  <2>5. waiting' \in SUBSET Panel /\ err' \in BOOLEAN
    BY <1>8 DEF WaitPoll
  <2> QED BY <1>8, <2>2, <2>3, <2>4, <2>5 DEF WaitPoll
<1>9. CASE WaitDone
  BY <1>9 DEF WaitDone
<1>10. CASE RegInitDone
  BY <1>10 DEF RegInitDone, Release, ProbeFails
<1>11. CASE AveeEn
  <2>1. /\ level' \in [Line -> {0, 1}] /\ alive' = alive /\ driven' \in SUBSET Line
        /\ stage' \in [Panel -> 0..Parts] /\ set' \in [Panel -> SUBSET Settings]
    BY <1>11, SetLineTypes DEF AveeEn, Line
  <2> QED BY <1>11, <2>1 DEF AveeEn, Valid
<1>12. CASE CfgPoll
  <2>1. {First(waiting)} \in SUBSET Panel
    BY <1>12, FirstWaits DEF CfgPoll
  <2>2. faults' \in 0..MaxFaults
    <3>1. PICK lost \in SUBSET {First(waiting)} : Losing({First(waiting)}, lost)
      BY <1>12 DEF CfgPoll
    <3>2. lost \in SUBSET Panel
      BY <2>1, <3>1
    <3> QED BY <2>1, <3>1, <3>2, LosingCounts
  <2>3. polls' \in 0..MaxPolls /\ waiting' \in SUBSET Panel /\ late' \in SUBSET Panel
    BY <1>12, <2>1 DEF CfgPoll, CountInv
  <2> QED BY <1>12, <2>2, <2>3 DEF CfgPoll
<1>13. CASE CfgOffsets
  <2>1. faults' \in 0..MaxFaults
    BY <1>13, LosingCounts DEF CfgOffsets, Valid
  <2> QED BY <1>13, <2>1 DEF CfgOffsets, Valid
<1>14. CASE ConfigPanel
  <2>1. faults' \in 0..MaxFaults
    <3>1. \A lost \in SUBSET Transfer : Cardinality(lost) \in Nat
      BY TransferSets
    <3> QED BY <1>14, <3>1 DEF ConfigPanel
  <2>2. waiting' \in SUBSET Panel /\ err' \in BOOLEAN
    BY <1>14 DEF ConfigPanel
  <2>3. set' \in [Panel -> SUBSET Settings]
    <3>1. PICK lost \in SUBSET Transfer :
            set' = [set EXCEPT ![First(waiting)] = @ \cup (Settings \ (lost \cup Skipped(lost)))]
      BY <1>14 DEF ConfigPanel
    <3>2. First(waiting) \in Panel
      BY <1>14, FirstWaits DEF ConfigPanel
    <3> QED BY <3>1, <3>2
  <2> QED BY <1>14, <2>1, <2>2, <2>3 DEF ConfigPanel
<1>15. CASE ConfigDone
  BY <1>15 DEF ConfigDone, Release, ProbeFails
<1>16. CASE Attach
  BY <1>16 DEF Attach, Release
<1>17. CASE Remove
  BY <1>17 DEF Remove
<1>18. CASE PowerDown
  <2>1. /\ level' \in [Line -> {0, 1}] /\ alive' = alive /\ driven' \in SUBSET Line
        /\ stage' \in [Panel -> 0..Parts] /\ set' \in [Panel -> SUBSET Settings]
    BY <1>18, SetLineTypes DEF PowerDown, Line
  <2>2. own' \in [Line -> {"driver", "user", "nobody"}] /\ pc' \in ProbePc \cup DownPc \cup {"unbound"}
    BY <1>18 DEF PowerDown, Release
  <2>3. refs' \in 0..MaxRefs
    BY <1>18 DEF PowerDown, CountInv
  <2> QED BY <1>18, <2>1, <2>2, <2>3 DEF PowerDown
<1>19. CASE Prepare
  BY <1>19 DEF Prepare
<1>20. CASE Enable
  <2>1. faults' \in 0..MaxFaults
    BY <1>20, LosingCounts DEF Enable, Valid
  <2> QED BY <1>20, <2>1 DEF Enable
<1>21. CASE Disable
  BY <1>21 DEF Disable
<1>22. CASE Unprepare
  BY <1>22 DEF Unprepare
<1>23. CASE UserLine
  <2>1. /\ level' \in [Line -> {0, 1}] /\ driven' \in SUBSET Line
        /\ stage' \in [Panel -> 0..Parts] /\ set' \in [Panel -> SUBSET Settings]
    BY <1>23, UserCases, DriveTypes
  <2>2. own' \in [Line -> {"driver", "user", "nobody"}]
    BY <1>23 DEF UserLine
  <2> QED BY <1>23, <2>1, <2>2, UserCases
<1>24. CASE Replace
  BY <1>24 DEF Replace
<1>25. CASE UNCHANGED vars
  BY <1>25 DEF vars
<1> QED
  BY <1>1, <1>2, <1>3, <1>4, <1>5, <1>6, <1>7, <1>8, <1>9, <1>10, <1>11, <1>12, <1>13,
     <1>14, <1>15, <1>16, <1>17, <1>18, <1>19, <1>20, <1>21, <1>22, <1>23, <1>24, <1>25 DEF Next, Probe

-----------------------------------------------------------------------------
(* The supplies.                                                           *)

(* AVEE comes and goes within VDDI and AVDD, and a driver that has failed  *)
(* with AVEE on still has all lines, so that no probe can disturb it.      *)
LEMMA LineStep == JbdTypeOK /\ LineInv /\ [Next]_vars => LineInv'
<1> SUFFICES ASSUME JbdTypeOK, LineInv, [Next]_vars PROVE LineInv'
  OBVIOUS
<1> USE DEF LineInv, AtRest, DarkPc, PoweredPc, HeldPc, Powered, Unused, lines, cfg, Drive
<1>1. CASE ProbeCall
  BY <1>1 DEF ProbeCall, JbdTypeOK, Line
<1>2. CASE GpioGet
  BY <1>2 DEF GpioGet, SetLine, Release, ProbeFails, AfterLine, Line, JbdTypeOK
<1>3. CASE PowerEn
  BY <1>3 DEF PowerEn, SetLine, JbdTypeOK, Line
<1>4. CASE GetPanelStatus
  BY <1>4 DEF GetPanelStatus, JbdTypeOK, Line
<1>5. CASE CheckValid
  BY <1>5 DEF CheckValid, JbdTypeOK, Line
<1>6. CASE PowerFree
  BY <1>6 DEF PowerFree, SetLine, Release, ProbeFails, JbdTypeOK, Line
<1>7. CASE RegListWrite
  BY <1>7 DEF RegListWrite, JbdTypeOK, Line
<1>8. CASE WaitPoll
  BY <1>8 DEF WaitPoll, Release, ProbeFails, JbdTypeOK, Line
<1>9. CASE WaitDone
  BY <1>9 DEF WaitDone, JbdTypeOK, Line
<1>10. CASE RegInitDone
  BY <1>10 DEF RegInitDone, Release, ProbeFails, JbdTypeOK, Line
<1>11. CASE AveeEn
  BY <1>11 DEF AveeEn, SetLine, JbdTypeOK, Line
<1>12. CASE CfgPoll
  BY <1>12 DEF CfgPoll, JbdTypeOK, Line
<1>13. CASE CfgOffsets
  BY <1>13 DEF CfgOffsets, JbdTypeOK, Line
<1>14. CASE ConfigPanel
  BY <1>14 DEF ConfigPanel, JbdTypeOK, Line
<1>15. CASE ConfigDone
  BY <1>15 DEF ConfigDone, Release, ProbeFails, JbdTypeOK, Line
<1>16. CASE Attach
  BY <1>16 DEF Attach, Release, JbdTypeOK, Line
<1>17. CASE Remove
  BY <1>17 DEF Remove, JbdTypeOK, Line
<1>18. CASE PowerDown
  BY <1>18 DEF PowerDown, SetLine, Release, JbdTypeOK, Line
<1>19. CASE Prepare
  BY <1>19 DEF Prepare, JbdTypeOK, Line
<1>20. CASE Enable
  BY <1>20 DEF Enable, JbdTypeOK, Line
<1>21. CASE Disable
  BY <1>21 DEF Disable, JbdTypeOK, Line
<1>22. CASE Unprepare
  BY <1>22 DEF Unprepare, JbdTypeOK, Line
<1>23. CASE UserLine
  BY <1>23 DEF UserLine, JbdTypeOK, Line
<1>24. CASE Replace
  BY <1>24 DEF Replace, JbdTypeOK, Line
<1>25. CASE UNCHANGED vars
  BY <1>25 DEF vars
<1> QED
  BY <1>1, <1>2, <1>3, <1>4, <1>5, <1>6, <1>7, <1>8, <1>9, <1>10, <1>11, <1>12, <1>13,
     <1>14, <1>15, <1>16, <1>17, <1>18, <1>19, <1>20, <1>21, <1>22, <1>23, <1>24, <1>25 DEF Next, Probe

(* The driver has its reference while it is bound, and every wait loop has *)
(* polls left while it runs.                                               *)
LEMMA CountStep == JbdTypeOK /\ CountInv /\ [Next]_vars => CountInv'
<1> SUFFICES ASSUME JbdTypeOK, CountInv, [Next]_vars PROVE CountInv'
  OBVIOUS
<1> USE DEF CountInv, Unused, lines, cfg, Drive
<1>1. CASE ProbeCall
  BY <1>1 DEF ProbeCall, JbdTypeOK
<1>2. CASE GpioGet
  BY <1>2 DEF GpioGet, ProbeFails, AfterLine, Line
<1>3. CASE PowerEn
  BY <1>3, BoundsAssumption DEF PowerEn
<1>4. CASE GetPanelStatus
  BY <1>4, BoundsAssumption DEF GetPanelStatus
<1>5. CASE CheckValid
  BY <1>5, BoundsAssumption DEF CheckValid
<1>6. CASE PowerFree
  BY <1>6, BoundsAssumption DEF PowerFree, ProbeFails
<1>7. CASE RegListWrite
  BY <1>7, BoundsAssumption DEF RegListWrite
<1>8. CASE WaitPoll
  BY <1>8, BoundsAssumption DEF WaitPoll, LastPoll, JbdTypeOK, ProbeFails
<1>9. CASE WaitDone
  BY <1>9, BoundsAssumption DEF WaitDone
<1>10. CASE RegInitDone
  BY <1>10, BoundsAssumption DEF RegInitDone, ProbeFails
<1>11. CASE AveeEn
  BY <1>11, BoundsAssumption DEF AveeEn
<1>12. CASE CfgPoll
  BY <1>12, BoundsAssumption DEF CfgPoll, LastPoll, JbdTypeOK
<1>13. CASE CfgOffsets
  BY <1>13, BoundsAssumption DEF CfgOffsets
<1>14. CASE ConfigPanel
  BY <1>14, BoundsAssumption DEF ConfigPanel
<1>15. CASE ConfigDone
  BY <1>15, BoundsAssumption DEF ConfigDone, ProbeFails
<1>16. CASE Attach
  BY <1>16, BoundsAssumption DEF Attach
<1>17. CASE Remove
  BY <1>17, BoundsAssumption DEF Remove
<1>18. CASE PowerDown
  BY <1>18, BoundsAssumption DEF PowerDown
<1>19. CASE Prepare
  BY <1>19, BoundsAssumption DEF Prepare
<1>20. CASE Enable
  BY <1>20, BoundsAssumption DEF Enable
<1>21. CASE Disable
  BY <1>21, BoundsAssumption DEF Disable
<1>22. CASE Unprepare
  BY <1>22, BoundsAssumption DEF Unprepare
<1>23. CASE UserLine
  BY <1>23, BoundsAssumption, UserCases
<1>24. CASE Replace
  BY <1>24, BoundsAssumption DEF Replace
<1>25. CASE UNCHANGED vars
  BY <1>25 DEF vars
<1> QED
  BY <1>1, <1>2, <1>3, <1>4, <1>5, <1>6, <1>7, <1>8, <1>9, <1>10, <1>11, <1>12, <1>13,
     <1>14, <1>15, <1>16, <1>17, <1>18, <1>19, <1>20, <1>21, <1>22, <1>23, <1>24, <1>25 DEF Next, Probe

-----------------------------------------------------------------------------
(* The tables.                                                             *)

(* A panel gets a part only after the ones before it, and an error of any  *)
(* transfer so far keeps reg_init from its end.                            *)
LEMMA TableStep == JbdTypeOK /\ LineInv /\ TableInv /\ [Next]_vars => TableInv'
<1> SUFFICES ASSUME JbdTypeOK, LineInv, TableInv, [Next]_vars PROVE TableInv'
  OBVIOUS
<1> USE DEF TableInv, Valid, Unused, panels, lines, cfg, Drive, Untouched
<1>1. CASE ProbeCall
  BY <1>1 DEF ProbeCall
<1>2. CASE GpioGet
  <2>1. CASE ProbeFails /\ UNCHANGED <<lines, panels>>
    BY <1>2, <2>1 DEF GpioGet, ProbeFails, Line
  <2>2. CASE own[pc] = "nobody" /\ SetLine(pc, IF side = "left" /\ pc # "avee" THEN 1 ELSE 0) /\ pc' = AfterLine[pc]
    <3>1. level["avee"] # 1 \/ "avee" \in driven
      BY <1>2, <2>2 DEF GpioGet, LineInv, AtRest, DarkPc, Line
    <3>2. level'["avee"] # 1 \/ driven' # {}
      BY <1>2, <2>2, <3>1 DEF GpioGet, SetLine, Line, JbdTypeOK
    <3>3. pc' \in {"avdd", "avee", "power"}
      BY <1>2, <2>2 DEF GpioGet, AfterLine, Line
    <3> QED BY <1>2, <3>2, <3>3 DEF GpioGet
  <2> QED BY <1>2, <2>1, <2>2 DEF GpioGet
<1>3. CASE PowerEn
  BY <1>3 DEF PowerEn, SetLine, LineInv, DarkPc, Line, JbdTypeOK
<1>4. CASE GetPanelStatus
  BY <1>4 DEF GetPanelStatus, LineInv, DarkPc
<1>5. CASE CheckValid
  BY <1>5 DEF CheckValid
<1>6. CASE PowerFree
  BY <1>6 DEF PowerFree, SetLine, LineInv, DarkPc, ProbeFails, Line, JbdTypeOK
<1>7. CASE RegListWrite
  <2>1. \A l \in SUBSET Valid : Losing(Valid, l) => (l = {} => Valid \subseteq alive)
    BY LosingCounts DEF JbdTypeOK
  <2>2. (level["avee"] = 0 \/ driven # {}) /\ UNCHANGED <<level, driven>>
    BY <1>7 DEF RegListWrite, LineInv, DarkPc
  <2>3. ~ err' => ~ err /\ Valid \subseteq alive /\ \A p \in Valid : stage'[p] = part
    BY <1>7, <2>1 DEF RegListWrite, Deliver, Panel, JbdTypeOK
  <2> QED BY <1>7, <2>2, <2>3 DEF RegListWrite, JbdTypeOK, Parts
<1>8. CASE WaitPoll
  BY <1>8 DEF WaitPoll, ProbeFails
<1>9. CASE WaitDone
  BY <1>9 DEF WaitDone
<1>10. CASE RegInitDone
  BY <1>10 DEF RegInitDone, ProbeFails, JbdTypeOK, Parts
<1>11. CASE AveeEn
  BY <1>11 DEF AveeEn, SetLine, Line, JbdTypeOK
<1>12. CASE CfgPoll
  BY <1>12 DEF CfgPoll
<1>13. CASE CfgOffsets
  BY <1>13 DEF CfgOffsets
<1>14. CASE ConfigPanel
  BY <1>14 DEF ConfigPanel
<1>15. CASE ConfigDone
  BY <1>15 DEF ConfigDone, ProbeFails
<1>16. CASE Attach
  BY <1>16 DEF Attach
<1>17. CASE Remove
  BY <1>17 DEF Remove
<1>18. CASE PowerDown
  BY <1>18 DEF PowerDown, SetLine, LineInv, DarkPc, Line, JbdTypeOK
<1>19. CASE Prepare
  BY <1>19 DEF Prepare
<1>20. CASE Enable
  BY <1>20 DEF Enable
<1>21. CASE Disable
  BY <1>21 DEF Disable
<1>22. CASE Unprepare
  BY <1>22 DEF Unprepare
<1>23. CASE UserLine
  <2>1. CASE UNCHANGED <<level, driven, stage, set>>
    BY <1>23, <2>1, UserCases
  <2>2. ASSUME NEW l \in Line, own[l] = "user", driven' = driven \cup {l}, NEW v \in {0, 1}, Drive(l, v)
        PROVE  TableInv'
    <3>1. pc \notin HeldPc
      BY <2>2 DEF LineInv
    <3>2. Untouched' => Untouched /\ stage' = stage
      BY <2>2 DEF Line
    <3>3. driven' # {} /\ UNCHANGED <<pc, status, alive, side>>
      BY <1>23, <2>2, UserCases
    <3> QED BY <3>1, <3>2, <3>3 DEF HeldPc
  <2> QED BY <1>23, <2>1, <2>2, UserCases
<1>24. CASE Replace
  BY <1>24 DEF Replace
<1>25. CASE UNCHANGED vars
  BY <1>25 DEF vars
<1> QED
  BY <1>1, <1>2, <1>3, <1>4, <1>5, <1>6, <1>7, <1>8, <1>9, <1>10, <1>11, <1>12, <1>13,
     <1>14, <1>15, <1>16, <1>17, <1>18, <1>19, <1>20, <1>21, <1>22, <1>23, <1>24, <1>25 DEF Next, Probe

-----------------------------------------------------------------------------
(* The configuration.                                                      *)

(* A panel whose turn is over has the needed settings, or there is an      *)
(* error: what may be lost without notice is not among them.               *)
LEMMA ConfigStep == JbdTypeOK /\ LineInv /\ ConfigInv /\ [Next]_vars => ConfigInv'
<1> SUFFICES ASSUME JbdTypeOK, LineInv, ConfigInv, [Next]_vars PROVE ConfigInv'
  OBVIOUS
<1> USE DEF ConfigInv, Valid, Unused, panels, lines, cfg, Drive, Untouched
<1>1. CASE ProbeCall
  BY <1>1 DEF ProbeCall
<1>2. CASE GpioGet
  BY <1>2 DEF GpioGet, ProbeFails, AfterLine, Line
<1>3. CASE PowerEn
  BY <1>3 DEF PowerEn
<1>4. CASE GetPanelStatus
  BY <1>4 DEF GetPanelStatus
<1>5. CASE CheckValid
  BY <1>5 DEF CheckValid
<1>6. CASE PowerFree
  BY <1>6 DEF PowerFree, ProbeFails
<1>7. CASE RegListWrite
  BY <1>7 DEF RegListWrite
<1>8. CASE WaitPoll
  BY <1>8 DEF WaitPoll, ProbeFails
<1>9. CASE WaitDone
  BY <1>9 DEF WaitDone
<1>10. CASE RegInitDone
  BY <1>10 DEF RegInitDone, ProbeFails
<1>11. CASE AveeEn
  BY <1>11 DEF AveeEn
<1>12. CASE CfgPoll
  BY <1>12 DEF CfgPoll
<1>13. CASE CfgOffsets
  BY <1>13 DEF CfgOffsets
<1>14. CASE ConfigPanel
  <2>1. First(waiting) \in waiting
    BY <1>14, FirstWaits DEF ConfigPanel, JbdTypeOK
  <2>2. PICK lost \in SUBSET Transfer :
          /\ set' = [set EXCEPT ![First(waiting)] = @ \cup (Settings \ (lost \cup Skipped(lost)))]
          /\ err' = (err \/ lost \ Unnoticed # {})
    BY <1>14 DEF ConfigPanel
  <2>3. ASSUME ~ err' PROVE ~ err /\ NeededSettings \subseteq set'[First(waiting)]
    <3>1. ~ err /\ lost \subseteq Unnoticed
      BY <2>2, <2>3
    <3>2. Skipped(lost) = {}
      BY <3>1 DEF Skipped, Unnoticed
    <3>3. NeededSettings \subseteq Settings \ (lost \cup Skipped(lost))
      BY <3>1, <3>2 DEF NeededSettings, Settings, Unnoticed
    <3>4. set'[First(waiting)] = set[First(waiting)] \cup (Settings \ (lost \cup Skipped(lost)))
      BY <2>1, <2>2 DEF JbdTypeOK
    <3> QED BY <3>1, <3>3, <3>4
  <2> QED BY <1>14, <2>1, <2>2, <2>3 DEF ConfigPanel, JbdTypeOK
<1>15. CASE ConfigDone
  BY <1>15 DEF ConfigDone, ProbeFails
<1>16. CASE Attach
  BY <1>16 DEF Attach
<1>17. CASE Remove
  BY <1>17 DEF Remove
<1>18. CASE PowerDown
  BY <1>18 DEF PowerDown
<1>19. CASE Prepare
  BY <1>19 DEF Prepare
<1>20. CASE Enable
  BY <1>20 DEF Enable
<1>21. CASE Disable
  BY <1>21 DEF Disable
<1>22. CASE Unprepare
  BY <1>22 DEF Unprepare
<1>23. CASE UserLine
  <2>1. CASE UNCHANGED <<level, driven, stage, set>>
    BY <1>23, <2>1, UserCases
  <2>2. ASSUME NEW l \in Line, own[l] = "user", driven' = driven \cup {l}, NEW v \in {0, 1}, Drive(l, v)
        PROVE  ConfigInv'
    <3>1. pc \notin HeldPc
      BY <2>2 DEF LineInv
    <3>2. Untouched' => Untouched /\ set' = set
      BY <2>2 DEF Line
    <3>3. UNCHANGED <<pc, status, side>>
      BY <1>23, <2>2, UserCases
    <3> QED BY <3>1, <3>2, <3>3 DEF HeldPc
  <2> QED BY <1>23, <2>1, <2>2, UserCases
<1>24. CASE Replace
  BY <1>24 DEF Replace
<1>25. CASE UNCHANGED vars
  BY <1>25 DEF vars
<1> QED
  BY <1>1, <1>2, <1>3, <1>4, <1>5, <1>6, <1>7, <1>8, <1>9, <1>10, <1>11, <1>12, <1>13,
     <1>14, <1>15, <1>16, <1>17, <1>18, <1>19, <1>20, <1>21, <1>22, <1>23, <1>24, <1>25 DEF Next, Probe

-----------------------------------------------------------------------------
(* The offsets.                                                            *)

(* Only the step that reads the offsets changes them.  All panels that     *)
(* count as valid work and are supplied then, so that a read that is lost  *)
(* is a transfer that fails.                                               *)
LEMMA OffsetsStep ==
  ASSUME IInv, [Next]_vars, offsets' # offsets
  PROVE  /\ Valid = Panel
         /\ offsets' = "other" => faults' > faults \/ late # {}
<1>1. CfgOffsets
  BY DEF Next, Probe, ProbeCall, GpioGet, PowerEn, GetPanelStatus, CheckValid, PowerFree, RegListWrite,
         WaitPoll, WaitDone, RegInitDone, AveeEn, CfgPoll, ConfigPanel, ConfigDone, Attach, Remove,
         PowerDown, Prepare, Enable, Disable, Unprepare, UserLine, Replace, vars, cfg, Unused
<1>2. Powered /\ Valid \subseteq alive
  BY <1>1 DEF CfgOffsets, IInv, LineInv, PoweredPc, HeldPc, TableInv, Powered, Line
<1>3. PICK lost \in SUBSET Valid :
        /\ Losing(Valid, lost)
        /\ Valid = Panel
        /\ offsets' = "other" => lost # {} \/ late # {}
  BY <1>1 DEF CfgOffsets
<1>4. lost # {} => faults' > faults
  BY <1>2, <1>3, LosingCounts DEF IInv, Valid
<1> QED BY <1>3, <1>4

-----------------------------------------------------------------------------
(* The theorems.                                                           *)

(* Before the first probe no line is held, and every level is 0.           *)
LEMMA InductiveInit == Init => IInv
<1> SUFFICES ASSUME Init PROVE IInv
  OBVIOUS
<1>1. JbdTypeOK
  <2>1. refs \in 0..MaxRefs /\ polls \in 0..MaxPolls /\ faults \in 0..MaxFaults
    BY BoundsAssumption DEF Init
  <2>2. /\ own \in [Line -> {"driver", "user", "nobody"}] /\ level \in [Line -> {0, 1}]
        /\ status \in [Panel -> BOOLEAN] /\ stage \in [Panel -> 0..Parts]
        /\ set \in [Panel -> SUBSET Settings] /\ part \in 1..(Parts + 1)
    BY DEF Init, Parts
  <2> QED BY <2>1, <2>2 DEF Init, JbdTypeOK
<1>2. LineInv
  BY DEF Init, LineInv, Line, AtRest, DarkPc, PoweredPc, HeldPc
<1>3. CountInv /\ TableInv /\ ConfigInv
  BY DEF Init, CountInv, TableInv, ConfigInv, Line
<1> QED
  BY <1>1, <1>2, <1>3 DEF IInv

(* The inductive invariant.                                                *)
LEMMA Inductive == Spec => []IInv
<1>1. IInv /\ [Next]_vars => IInv'
  BY TypeStep, LineStep, CountStep, TableStep, ConfigStep DEF IInv
<1> QED
  BY InductiveInit, <1>1, PTL DEF Spec

(* The driver's variables keep their types: references, polls, parts and   *)
(* losses stay within their bounds.                                        *)
THEOREM JbdTypeCorrect == Spec => []JbdTypeOK
<1>1. IInv => JbdTypeOK
  BY DEF IInv
<1> QED
  BY Inductive, <1>1, PTL

(* AVEE that the driver has switched on finds every supply on that user    *)
(* space has not set itself, whatever fails and whoever takes the lines    *)
(* once the right driver has put them.                                     *)
THEOREM SupplyOrderCorrect == Spec => []SupplyOrder
<1>1. IInv => SupplyOrder
  BY DEF IInv, JbdTypeOK, LineInv, SupplyOrder, AtRest, ProbePc, DownPc, DarkPc, PoweredPc, Powered
<1> QED
  BY Inductive, <1>1, PTL

(* AVEE is on only over valid panels that have got every table, as long as *)
(* user space sets no level.                                               *)
THEOREM AveeOnInitialisedCorrect == Spec => []AveeOnInitialised
<1>1. IInv => AveeOnInitialised
  BY DEF IInv, TableInv, AveeOnInitialised
<1> QED
  BY Inductive, <1>1, PTL

(* A bound driver has the adapter; a bound right driver has a working      *)
(* panel with every table, or user space has set a supply.                 *)
THEOREM BoundHasPanelCorrect == Spec => []BoundHasPanel
<1>1. IInv => BoundHasPanel
  BY DEF IInv, CountInv, TableInv, BoundHasPanel, Valid
<1> QED
  BY Inductive, <1>1, PTL

(* A right driver is bound only over panels with luminance, current, and   *)
(* flip and offset in the video path, however many transfers are lost, or  *)
(* user space has set a supply.                                            *)
THEOREM BoundIsConfiguredCorrect == Spec => []BoundIsConfigured
<1>1. IInv => BoundIsConfigured
  BY DEF IInv, ConfigInv, NeededSettings, BoundIsConfigured
<1> QED
  BY Inductive, <1>1, PTL

(* What an unbound driver may still hold and have on.                      *)
THEOREM UnboundIsDarkCorrect == Spec => []UnboundIsDark
<1>1. IInv => UnboundIsDark
  BY DEF IInv, JbdTypeOK, LineInv, AtRest, UnboundIsDark, Line
<1> QED
  BY Inductive, <1>1, PTL

(* The offsets in the driver's table change only with three panels, and to *)
(* others than those of the flash only when a transfer of this reading     *)
(* fails or a DMA has not been seen complete.                              *)
THEOREM OffsetsFromFlashCorrect == Spec => OffsetsFromFlash
<1>1. IInv /\ [Next]_vars =>
        [/\ offsets' # offsets => Valid = Panel
         /\ offsets' = "other" /\ offsets # "other" => faults' > faults \/ late # {}]_vars
  BY OffsetsStep
<1> QED
  BY Inductive, <1>1, PTL DEF Spec, OffsetsFromFlash

=============================================================================
