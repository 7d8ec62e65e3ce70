-------------------------- MODULE MCPanelJbd4040 ---------------------------
(* Model values for TLC: the panels are the three of the product, the only *)
(* bound is the number of transient transfer failures.                     *)
EXTENDS PanelJbd4040

(* Three failures can hit the initialisation, a status read and a later    *)
(* callback of one run.                                                    *)
FaultBound == 3
NoFaults   == 0
=============================================================================
