------------------------ MODULE MCPanelJbd4040Attrs ------------------------
(* Model values for TLC.  Each scenario is about attributes that share a   *)
(* register or need each other's, so that using those attributes together  *)
(* is as interesting as using all of them.                                 *)
EXTENDS PanelJbd4040Attrs, TLC

CONSTANTS t1, t2

TwoThreads == {t1, t2}
Symmetry   == Permutations(TwoThreads)

(* Two threads at work on different panels, or one on all of them.         *)
Colours ==
  {[attrs |-> a, discipline |-> "colours", faults |-> 0, pairs |-> 1] :
     a \in {{"flip", "mirror"}, {"fps", "luminance"}, {"temperature", "current"},
           {"pl_osc_trim", "pl_osc_trim_en"}, {"demura_en", "demura_dsc"},
           {"offset"}, {"demura_remap"}, {"demura_seg_th"}}}

(* One attribute at a time, and transfers that fail: the attributes whose  *)
(* handlers read.                                                          *)
Faults ==
  {[attrs |-> a, discipline |-> "serial", faults |-> 2, pairs |-> 1] :
     a \in {{"flip", "mirror"}, {"fps", "luminance"}, {"temperature"}, {"demura_en"}}}
  \cup {[attrs |-> {"pl_osc_trim", "pl_osc_trim_en"}, discipline |-> "serial",
         faults |-> 1, pairs |-> 2]}

(* Two threads that know nothing of each other.                            *)
Together(attrs, n) == [attrs |-> attrs, discipline |-> "none", faults |-> 0, pairs |-> n]

(* flip and mirror at the same time.                                       *)
Race == {Together({"flip", "mirror"}, 1)}

(* Attributes that write no register that they have read before.           *)
Overlap == {Together(a, 1) : a \in {{"temperature"}, {"demura_seg_th"}, {"offset"}}}

QuietScenarios == Colours \cup Overlap \cup Faults
=============================================================================
