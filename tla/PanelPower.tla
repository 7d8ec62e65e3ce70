---------------------------- MODULE PanelPower -----------------------------
(***************************************************************************)
(* What the panel driver promises the hardware about its supplies.         *)
(*                                                                         *)
(* The panels are powered in levels:                                       *)
(*   0  AVDD off                                                           *)
(*   1  AVDD on, RESET asserted                                            *)
(*   2  AVDD on, RESET released: the panels answer on I2C                  *)
(*   3  AVEE (-2.2 V) on as well: the panels can emit light                *)
(* Supplies are switched one level at a time in either direction, and the  *)
(* last level is entered only when every colour panel works.  The driver   *)
(* reports the panel as prepared only at level 3, and takes the report     *)
(* back only when everything is off again.                                 *)
(***************************************************************************)
EXTENDS Naturals

VARIABLES level,   \* 0..3 as above
          works,   \* do all colour panels answer
          ready    \* the driver has reported the panel as prepared

pvars == <<level, works, ready>>

PInit == level = 0 /\ works \in BOOLEAN /\ ready = FALSE

Raise ==
  /\ level < 3
  /\ level = 2 => works
  /\ level' = level + 1
  /\ UNCHANGED <<works, ready>>

Lower ==
  /\ level > 0
  /\ level' = level - 1
  /\ UNCHANGED <<works, ready>>

Report ==
  /\ level = 3 /\ ~ready
  /\ ready' = TRUE
  /\ UNCHANGED <<level, works>>

Withdraw ==
  /\ level = 0 /\ ready
  /\ ready' = FALSE
  /\ UNCHANGED <<level, works>>

PNext == Raise \/ Lower \/ Report \/ Withdraw

PSpec == PInit /\ [][PNext]_pvars
=============================================================================
