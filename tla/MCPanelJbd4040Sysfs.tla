------------------------ MODULE MCPanelJbd4040Sysfs ------------------------
(* Model values for TLC.  A table of two blocks has a first block and a    *)
(* last one, writes that stop short of the end and writes that reach it.   *)
EXTENDS PanelJbd4040Sysfs, TLC

CONSTANTS t1, t2

OneThread  == {t1}
TwoThreads == {t1, t2}
Symmetry   == Permutations(TwoThreads)

(* Gamma does not touch the display mode; leaving it out keeps the mode    *)
(* run small.                                                              *)
ModeHandlers == AllHandlers \ {"gamma"}
BistAndTable == {"bist", "demura_table"}
TableOnly    == {"demura_table"}
GammaOnly    == {"gamma"}
=============================================================================
