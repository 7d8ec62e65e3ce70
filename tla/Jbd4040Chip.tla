---------------------------- MODULE Jbd4040Chip ----------------------------
(***************************************************************************)
(* The three JBD4040 micro-LED panels as the drivers see them through I2C: *)
(* one register file per colour, an address of its own for each colour     *)
(* (0x59, 0x5A, 0x5B) and a broadcast address (0x58) that all three accept *)
(* for a write.  The chip itself is not part of the repository; what is    *)
(* here is what the drivers rely on.                                       *)
(*                                                                         *)
(* Registers that no property reads are one register, "SETUP".  The gamma  *)
(* table of 256 entries is two halves, which is enough for two loaders to  *)
(* be caught in the middle of each other.                                  *)
(***************************************************************************)
EXTENDS Naturals, Sequences

Panel == {"R", "G", "B"}

Reg == {"SETUP", "DISP_CTL", "PL_SYNC", "DCS_EN", "VID_MODE",
        "PL_SELF_TEST_CFG", "GAMMA_LO", "GAMMA_HI", "GAM_CFG",
        "IMG_FLIP", "DEMURA_SRAM"}

(* The Demura SRAM is written as a register is, but what is in it decides  *)
(* nothing: it is not part of the state.                                   *)
Stored == Reg \ {"DEMURA_SRAM"}

Value == 0 .. 65535

(* The values the drivers write, by the meaning their comments give them.  *)
VideoMode   == 1      \* REG_VID_MODE
CommandMode == 0
SyncAll     == 15     \* REG_PL_SYNC: glb_sync, load_en, refresh_loop, load_1t
SyncOnce    == 3      \* REG_PL_SYNC in Command Mode
LoadOnly    == 2      \* REG_PL_SYNC: load_en
SelfTestOn  == 3071   \* REG_PL_SELF_TEST_CFG = 0x0bff; bit 11 is the enable
GammaOn     == 256    \* REG_GAM_CFG: bit 8 is gam_en

(* A write, and what the handler does when it is not acknowledged:         *)
(* "try" ignores it, "must" returns from the handler, "latch" goes on and  *)
(* remembers it (the ret |= of jbd4040_init_registers).                    *)
Write == [kind : {"try", "must", "latch"}, to : SUBSET Panel, reg : Reg, val : Value]

Try(to, reg, val)   == [kind |-> "try",   to |-> to, reg |-> reg, val |-> val]
Must(to, reg, val)  == [kind |-> "must",  to |-> to, reg |-> reg, val |-> val]
Latch(to, reg, val) == [kind |-> "latch", to |-> to, reg |-> reg, val |-> val]

(* Register contents after a reset.  The source does not give them; every  *)
(* register modelled is written by jbd4040_init_registers before use.      *)
ResetChip == [p \in Panel |-> [r \in Stored |-> 0]]

(* The register files after write w reached the panels in live.            *)
Written(chip, w, live) ==
  [p \in Panel |-> IF p \in w.to \cap live /\ w.reg \in Stored
                   THEN [chip[p] EXCEPT ![w.reg] = w.val]
                   ELSE chip[p]]
=============================================================================
