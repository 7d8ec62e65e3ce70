------------------------- MODULE PanelJbd4040Attrs -------------------------
(***************************************************************************)
(* The sysfs attributes of panel-jbd4040.c that stand for a register or a  *)
(* field of one: luminance, current, temperature, flip, mirror, offset,    *)
(* fps, pl_osc_trim_en, pl_osc_trim, demura_en, demura_remap, demura_dsc   *)
(* and demura_seg_th.                                                      *)
(*                                                                         *)
(* Several of them share a register and change their field of it by        *)
(* reading, modifying and writing back.  Nothing serialises the handlers,  *)
(* and a read is two I2C transfers, one that leaves a register address in  *)
(* the panel and one that fetches what it points to; handlers of other     *)
(* threads come in between.  The display stays on throughout.              *)
(***************************************************************************)
EXTENDS Naturals, SequencesExt

CONSTANTS
  Threads,        \* threads that use attributes
  Scenarios       \* how they are used: a behaviour is about one scenario

AttrNames == {"luminance", "current", "temperature", "flip", "mirror", "offset", "fps",
              "pl_osc_trim_en", "pl_osc_trim", "demura_en", "demura_remap", "demura_dsc",
              "demura_seg_th"}

(* A scenario: the attributes in use, the discipline of their users (see   *)
(* MayStart), and two bounds, of transfers that fail and of colour and     *)
(* value pairs in one write.                                               *)
ASSUME AttrsAssumption ==
  \A s \in Scenarios :
    /\ s.attrs \subseteq AttrNames
    /\ s.discipline \in {"none", "colours", "serial"}
    /\ s.faults \in Nat /\ s.pairs \in Nat \ {0}

-----------------------------------------------------------------------------
(* Registers.                                                              *)

Panel == {"R", "G", "B"}
All   == Panel

(* A register is two fields, named by their place.                         *)
Reg(l, h) == [lo |-> l, hi |-> h]

(* The largest value of each field that the registers have room for.       *)
Width ==
  [PL_CUR   |-> Reg(255, 0),     \* drive current
   LUM_REG  |-> Reg(16383, 0),   \* luminance
   PL_CFG   |-> Reg(7, 1),       \* frame rate index; 10-bit scan
   IMG_FLIP |-> Reg(1, 1),       \* bit 0: mirror; bit 1: not flipped
   IMG_OFFSET |-> Reg(31, 31),   \* vertical; horizontal
   EFUSE_REG_SW |-> Reg(1, 1),   \* oscillator trim switch; sensor trim switch
   OSC_TRIM |-> Reg(255, 255),   \* trim; the rest
   DMR_CFG  |-> Reg(255, 1),     \* the rest; bit 8: Demura enable
   DMR_REMAP_VAL |-> Reg(2047, 0),
   DSC_CFG  |-> Reg(511, 1),     \* data; bit 12: enable
   DMR_SEG_TH |-> Reg(1023, 0),
   PVT_CTL  |-> Reg(3, 0),       \* 3: sensor on
   CFG_VID_TX_DELAY |-> Reg(1186, 0),  \* as booted; users are kept to 255
   PVT_DATA |-> Reg(0, 0)]       \* temperature code, not interpreted here

Regs == DOMAIN Width

(* The weight of the second field, where a register has one.               *)
HiBit ==
  [r \in Regs |-> CASE r \in {"IMG_FLIP", "EFUSE_REG_SW"} -> 2
                   [] r = "PL_CFG" -> 8
                   [] r = "DSC_CFG" -> 4096
                   [] OTHER -> 256]

(* What a handler that expects reg makes of the bits of another register:  *)
(* those at the places of reg's fields.                                    *)
Misread(reg, other, v) ==
  LET raw == v.lo + HiBit[other] * v.hi IN
  Reg(raw % (Width[reg].lo + 1), (raw \div HiBit[reg]) % (Width[reg].hi + 1))

(* What prepare leaves in panel p (the Demura registers are the chip's).   *)
Booted(p) ==
  [r \in Regs |->
     CASE r = "PL_CUR" -> Reg(34, 0)
       [] r = "LUM_REG" -> Reg(5000, 0)
       [] r = "PL_CFG" -> Reg(0, 1)
       [] r = "IMG_FLIP" -> Reg(IF p = "G" THEN 0 ELSE 1, 1)
       [] r = "IMG_OFFSET" -> Reg(6, 10)
       [] r = "EFUSE_REG_SW" -> Reg(1, 1)
       [] r = "OSC_TRIM" -> Reg(16, 2)
       [] r = "DMR_CFG" -> Reg(1, 0)
       [] r = "DMR_REMAP_VAL" -> Reg(1023, 0)
       [] r = "DSC_CFG" -> Reg(256, 1)
       [] r = "CFG_VID_TX_DELAY" -> Reg(1186, 0)
       [] OTHER -> Reg(0, 0)]

VARIABLES
  plan,     \* the scenario
  regs,     \* regs[p][r]: contents of the panels' registers
  ptr,      \* ptr[p]: the register a bare read of panel p fetches
  faults,   \* transfers that have failed
  job,      \* job[t]: the steps thread t's handler has still to take
  sent,     \* sent[t]: the head of job[t] is a read whose address has gone out
  got,      \* got[t]: the handler's variables valR, valG, valB; cur_val is valR
  want      \* history: want[p][r]: per field, the values it may rest at

vars == <<plan, regs, ptr, faults, job, sent, got, want>>

-----------------------------------------------------------------------------
(* Steps.                                                                  *)

(* Read reg of the first address of from that answers into variable slot;  *)
(* if none does, slot is miss, or the next skip steps are not taken.       *)
Read(from, reg, slot, miss) ==
  [op |-> "read", from |-> from, reg |-> reg, slot |-> slot, miss |-> miss, skip |-> 0]
ReadOrSkip(from, reg, slot, n) ==
  [op |-> "read", from |-> from, reg |-> reg, slot |-> slot, miss |-> Reg(0, 0), skip |-> n]

(* Write variable slot to reg of the panels in to, with field f set to v.  *)
WriteBack(to, reg, slot, f, v) ==
  [op |-> "write", to |-> to, reg |-> reg, slot |-> slot, set |-> {f}, val |-> [x \in {f} |-> v]]

(* Write a constant to a whole register.                                   *)
WriteReg(to, reg, c) ==
  [op |-> "write", to |-> to, reg |-> reg, slot |-> "R", set |-> {"lo", "hi"}, val |-> c]

(* Write a luminance, at most what the frame rate in slot allows.          *)
WriteLum(to, slot, v) ==
  [op |-> "lum", to |-> to, reg |-> "LUM_REG", slot |-> slot, val |-> v]

(* Is the sensor on, says slot; if not the next step is not taken.         *)
Sensor(slot) == [op |-> "sensor", slot |-> slot]

AtMost(v, top) == IF v > top THEN top ELSE v

(* luminance_store's limit for frame rate index i.                         *)
MaxLum(i) == CASE i = 7 -> 1019 [] i = 6 -> 1169 [] i = 5 -> 1368 [] i = 4 -> 2065
               [] i = 3 -> 2762 [] i = 2 -> 4157 [] i = 1 -> 5551 [] OTHER -> 8300

(* A handler's argument is a sequence of pairs [to, val]: the panels and   *)
(* the number.  One step list for each.                                    *)
PerPair(pairs, Steps(_, _)) == FlattenSeq([i \in DOMAIN pairs |-> Steps(pairs[i].to, pairs[i].val)])

(* One step list for each colour in to.                                    *)
PerColour(to, Steps(_)) ==
  FlattenSeq([i \in 1 .. 3 |-> LET p == <<"R", "G", "B">>[i] IN IF p \in to THEN Steps(p) ELSE << >>])

-----------------------------------------------------------------------------
(* The handlers, each by the steps it takes.                               *)

LuminanceStore(pairs) ==
  << Read(<< {"R"} >>, "PL_CFG", "R", Reg(0, 0)) >>
  \o PerPair(pairs, LAMBDA to, v : << WriteLum(to, "R", v) >>)

(* The colour t of current stands for a delay in all panels.  Its number   *)
(* is limited like a current.                                              *)
Delay == {"t"}

CurrentStore(pairs) ==
  PerPair(pairs, LAMBDA to, v :
    << IF to = Delay THEN WriteReg(All, "CFG_VID_TX_DELAY", Reg(AtMost(v, 255), 0))
                     ELSE WriteReg(to, "PL_CUR", Reg(AtMost(v, 255), 0)) >>)

ReadSensors ==
  PerColour(All, LAMBDA p : << ReadOrSkip(<< {p} >>, "PVT_CTL", p, 2), Sensor(p),
                               Read(<< {p} >>, "PVT_DATA", p, Reg(0, 0)) >>)

(* Mutant: only the sensor that was read last goes off.                    *)
TemperatureShowLastOff ==
  << WriteReg(All, "PVT_CTL", Reg(3, 0)) >> \o ReadSensors \o << WriteReg({"B"}, "PVT_CTL", Reg(0, 0)) >>

(* Switch the sensors on, read each one that says it is on, switch off.    *)
TemperatureShow ==
  << WriteReg(All, "PVT_CTL", Reg(3, 0)) >> \o ReadSensors \o << WriteReg(All, "PVT_CTL", Reg(0, 0)) >>

(* flip_store and mirror_store read all panels before they write any, and  *)
(* before they refuse a number other than 0 and 1.                         *)
ReadFlips == PerColour(All, LAMBDA p : << Read(<< {p} >>, "IMG_FLIP", p, Reg(0, 0)) >>)

FlipStore(v) ==
  ReadFlips \o PerColour(IF v > 1 THEN {} ELSE All, LAMBDA p :
                 << WriteBack({p}, "IMG_FLIP", p, "hi", 1 - v) >>)

(* Mutant: green is mirrored as red and blue are.                          *)
MirrorStoreSameGreen(v) ==
  ReadFlips \o PerColour(IF v > 1 THEN {} ELSE All, LAMBDA p :
                 << WriteBack({p}, "IMG_FLIP", p, "lo", 1 - v) >>)

MirrorStore(v) ==
  ReadFlips \o PerColour(IF v > 1 THEN {} ELSE All, LAMBDA p :
                 << WriteBack({p}, "IMG_FLIP", p, "lo", IF p = "G" THEN v ELSE 1 - v) >>)

(* Offsets are cut to five bits, not limited, and ignored if switched off. *)
OffsetStore(pairs) ==
  PerPair(pairs, LAMBDA to, v :
    IF v.on = 1 THEN << WriteReg(to, "IMG_OFFSET", Reg(v.v % 32, v.h % 32)) >> ELSE << >>)

(* Mutant: the result of the read is not looked at.                        *)
FpsStoreUnchecked(i) ==
  << Read(<< {"R"} >>, "PL_CFG", "R", Reg(0, 0)), WriteBack(All, "PL_CFG", "R", "lo", i) >>

FpsStore(i) ==
  << ReadOrSkip(<< {"R"} >>, "PL_CFG", "R", 1), WriteBack(All, "PL_CFG", "R", "lo", i) >>

OscTrimEnStore(en) ==
  << Read(<< {"R"}, All >>, "EFUSE_REG_SW", "R", Reg(0, 1)),
     WriteBack(All, "EFUSE_REG_SW", "R", "lo", en) >>

(* A plain number is for all panels, and all get red's other field.        *)
OscTrimStoreAll(v) ==
  << Read(<< {"R"} >>, "OSC_TRIM", "R", Reg(16, 2)),
     WriteBack(All, "OSC_TRIM", "R", "lo", v % 256) >>

OscTrimStore(pairs) ==
  PerPair(pairs, LAMBDA to, v : << Read(<< to >>, "OSC_TRIM", "R", Reg(16, 2)),
                                   WriteBack(to, "OSC_TRIM", "R", "lo", v % 256) >>)

DemuraEnStore(pairs) ==
  PerPair(pairs, LAMBDA to, v :
    PerColour(to, LAMBDA p : << Read(<< {p} >>, "DMR_CFG", "R", Reg(0, 0)),
                                WriteBack({p}, "DMR_CFG", "R", "hi", v) >>))

(* Mutant: too large a number is not limited.                              *)
DemuraRemapStoreNoLimit(pairs) ==
  PerPair(pairs, LAMBDA to, v : << WriteReg(to, "DMR_REMAP_VAL", Reg(v, 0)) >>)

DemuraRemapStore(pairs) ==
  PerPair(pairs, LAMBDA to, v : << WriteReg(to, "DMR_REMAP_VAL", Reg(AtMost(v, 2047), 0)) >>)

(* A number of more than nine bits is the whole register, a smaller one    *)
(* its data field.                                                         *)
DemuraDscStore(pairs) ==
  PerPair(pairs, LAMBDA to, v :
    IF v > 511
    THEN << WriteReg(to, "DSC_CFG", Reg(v % 512, (v \div 4096) % 2)) >>
    ELSE PerColour(to, LAMBDA p : << Read(<< {p} >>, "DSC_CFG", "R", Reg(256, 0)),
                                     WriteBack({p}, "DSC_CFG", "R", "lo", v) >>))

DemuraSegThStore(pairs) ==
  PerPair(pairs, LAMBDA to, v : << WriteReg(to, "DMR_SEG_TH", Reg(AtMost(v, 1023), 0)) >>)

(* plain: the argument is one number without a colour.                     *)
Steps(attr, pairs, plain) ==
  LET v == pairs[1].val IN
  CASE attr = "luminance" -> LuminanceStore(pairs)
    [] attr = "current" -> CurrentStore(pairs)
    [] attr = "temperature" -> TemperatureShow
    [] attr = "flip" -> FlipStore(v)
    [] attr = "mirror" -> MirrorStore(v)
    [] attr = "offset" -> OffsetStore(pairs)
    [] attr = "fps" -> FpsStore(v)
    [] attr = "pl_osc_trim_en" -> OscTrimEnStore(v)
    [] attr = "pl_osc_trim" -> IF plain THEN OscTrimStoreAll(v) ELSE OscTrimStore(pairs)
    [] attr = "demura_en" -> DemuraEnStore(pairs)
    [] attr = "demura_remap" -> DemuraRemapStore(pairs)
    [] attr = "demura_dsc" -> DemuraDscStore(pairs)
    [] attr = "demura_seg_th" -> DemuraSegThStore(pairs)

-----------------------------------------------------------------------------
(* What users write: numbers inside and outside a field's range, for one   *)
(* colour or, except for offset, for all.                                  *)

Switches == {"flip", "mirror", "fps", "pl_osc_trim_en", "temperature"}

Inputs(attr) ==
  CASE attr = "luminance" -> {1000, 9000}
    [] attr = "current" -> {50, 300}
    [] attr \in {"flip", "mirror"} -> {0, 1, 2}
    [] attr = "offset" -> {[on |-> 1, h |-> 3, v |-> 4], [on |-> 1, h |-> 35, v |-> 31],
                           [on |-> 0, h |-> 0, v |-> 0]}
    [] attr = "fps" -> {0, 7}
    [] attr = "pl_osc_trim" -> {16, 273}
    [] attr = "demura_remap" -> {100, 3000}
    [] attr = "demura_dsc" -> {300, 4608}
    [] attr = "demura_seg_th" -> {5, 2000}
    [] OTHER -> {0, 1}

Targets(attr) ==
  CASE attr \in Switches -> {All}
    [] attr = "offset" -> {{p} : p \in Panel}
    [] attr = "current" -> {All, Delay} \cup {{p} : p \in Panel}
    [] OTHER -> {All} \cup {{p} : p \in Panel}

Arguments(attr) ==
  UNION {[1 .. n -> [to : Targets(attr), val : Inputs(attr)]] :
           n \in 1 .. IF attr \in Switches THEN 1 ELSE plan.pairs}

MayBePlain(pairs) == Len(pairs) = 1 /\ pairs[1].to = All

(* What the attributes are for, as their comments and messages say it: the *)
(* fields of panel p that val sets, with their values.                     *)
Effect(attr, p, val) ==
  CASE attr = "current" -> {<<"PL_CUR", "lo", AtMost(val, 255)>>}
    [] attr = "temperature" -> {<<"PVT_CTL", "lo", 0>>}
    [] attr = "flip" /\ val < 2 -> {<<"IMG_FLIP", "hi", 1 - val>>}
    [] attr = "mirror" /\ val < 2 -> {<<"IMG_FLIP", "lo", IF p = "G" THEN val ELSE 1 - val>>}
    [] attr = "offset" /\ val.on = 1 -> {<<"IMG_OFFSET", "lo", val.v % 32>>,
                                         <<"IMG_OFFSET", "hi", val.h % 32>>}
    [] attr = "fps" -> {<<"PL_CFG", "lo", val>>}
    [] attr = "pl_osc_trim_en" -> {<<"EFUSE_REG_SW", "lo", val>>}
    [] attr = "pl_osc_trim" -> {<<"OSC_TRIM", "lo", val % 256>>}
    [] attr = "demura_en" -> {<<"DMR_CFG", "hi", val>>}
    [] attr = "demura_remap" -> {<<"DMR_REMAP_VAL", "lo", AtMost(val, 2047)>>}
    [] attr = "demura_dsc" -> {<<"DSC_CFG", "lo", val % 512>>}
                              \cup IF val > 511 THEN {<<"DSC_CFG", "hi", (val \div 4096) % 2>>}
                                                ELSE {}
    [] attr = "demura_seg_th" -> {<<"DMR_SEG_TH", "lo", AtMost(val, 1023)>>}
    [] OTHER -> {}

(* The effect on panel p of a whole argument: a later pair overrides.      *)
FinalEffect(attr, pairs, p) ==
  LET of(i) == CASE p \in pairs[i].to -> Effect(attr, p, pairs[i].val)
                 [] pairs[i].to = Delay -> {<<"CFG_VID_TX_DELAY", "lo", AtMost(pairs[i].val, 255)>>}
                 [] OTHER -> {}
  IN
  UNION {{e \in of(i) : \A j \in i + 1 .. Len(pairs) : \A d \in of(j) : <<d[1], d[2]>> # <<e[1], e[2]>>}
           : i \in DOMAIN pairs}

-----------------------------------------------------------------------------
Blank == [p \in Panel |-> Reg(0, 0)]

Init ==
  /\ plan \in Scenarios
  /\ regs = [p \in Panel |-> Booted(p)]
  /\ ptr = [p \in Panel |-> "IMG_FLIP"]
  /\ faults = 0
  /\ job = [t \in Threads |-> << >>]
  /\ sent = [t \in Threads |-> FALSE]
  /\ got = [t \in Threads |-> Blank]
  /\ want = [p \in Panel |-> [r \in Regs |-> Reg({Booted(p)[r].lo}, {Booted(p)[r].hi})]]

(* The panels that a list of steps reads or writes.                        *)
PanelsOf(steps) ==
  UNION {CASE steps[i].op = "read" -> UNION {steps[i].from[k] : k \in DOMAIN steps[i].from}
           [] steps[i].op = "sensor" -> {}
           [] OTHER -> steps[i].to : i \in DOMAIN steps}

Touched(t, p) == \E u \in Threads \ {t} : p \in PanelsOf(job[u])

(* Under "colours", users do not use attributes of a panel that another    *)
(* attribute is using; under "serial", they use one attribute at a time.   *)
MayStart(t, steps) ==
  /\ plan.discipline = "colours" => \A p \in PanelsOf(steps) : ~ Touched(t, p)
  /\ plan.discipline = "serial" => \A u \in Threads : job[u] = << >>

(* A field of panel p may rest at what was last asked for; and, while      *)
(* another handler is using p, at what was asked for before.               *)
Wanted(t, attr, pairs, p) ==
  [r \in Regs |-> [f \in {"lo", "hi"} |->
     LET asked == {e[3] : e \in {d \in FinalEffect(attr, pairs, p) : d[1] = r /\ d[2] = f}} IN
     IF asked = {} \/ faults > 0 THEN want[p][r][f]
     ELSE IF Touched(t, p) THEN asked \cup want[p][r][f] ELSE asked]]

(* A thread opens an attribute and enters its handler.                     *)
Start(t) ==
  /\ job[t] = << >>
  /\ \E attr \in plan.attrs : \E pairs \in Arguments(attr), plain \in BOOLEAN :
       LET steps == Steps(attr, pairs, plain) IN
       /\ plain => MayBePlain(pairs)
       /\ MayStart(t, steps)
       /\ job' = [job EXCEPT ![t] = steps]
       /\ want' = [p \in Panel |-> Wanted(t, attr, pairs, p)]
  /\ UNCHANGED <<plan, regs, ptr, faults, sent, got>>

(* Thread t has taken its head step and skips the next n; its variables    *)
(* are now vals, and are gone when the handler ends.                       *)
Continue(t, n, vals) ==
  LET rest == SubSeq(job[t], 2 + n, Len(job[t])) IN
  /\ job' = [job EXCEPT ![t] = rest]
  /\ sent' = [sent EXCEPT ![t] = FALSE]
  /\ got' = [got EXCEPT ![t] = IF rest = << >> THEN Blank ELSE vals]

At(t, op) == job[t] # << >> /\ Head(job[t]).op = op

(* A transfer fails.                                                       *)
Fault == faults < plan.faults /\ faults' = faults + 1

(* Mutant: the address goes to every panel, not to the one that is read.   *)
SendAddressToAll(t) ==
  LET s == Head(job[t]) IN
  /\ At(t, "read") /\ ~ sent[t]
  /\ ptr' = [p \in Panel |-> s.reg]
  /\ sent' = [sent EXCEPT ![t] = TRUE]
  /\ UNCHANGED <<plan, regs, faults, job, got, want>>

(* The first transfer of a read leaves the register address in the panel.  *)
SendAddress(t) ==
  LET s == Head(job[t]) IN
  /\ At(t, "read") /\ ~ sent[t]
  /\ ptr' = [p \in Panel |-> IF p \in Head(s.from) THEN s.reg ELSE ptr[p]]
  /\ sent' = [sent EXCEPT ![t] = TRUE]
  /\ UNCHANGED <<plan, regs, faults, job, got, want>>

(* The second one fetches what the panel's pointer says: the register that *)
(* the handler has asked for, or another one if a transfer of somebody     *)
(* else has come in between.                                               *)
Fetched(p, reg) ==
  IF ptr[p] = reg THEN regs[p][reg] ELSE Misread(reg, ptr[p], regs[p][ptr[p]])

Fetch(t) ==
  LET s == Head(job[t]) IN
  /\ At(t, "read") /\ sent[t]
  /\ \E p \in Head(s.from) : Continue(t, 0, [got[t] EXCEPT ![s.slot] = Fetched(p, s.reg)])
  /\ UNCHANGED <<plan, regs, ptr, faults, want>>

(* Either transfer fails: the handler tries its other address, or keeps    *)
(* the variable's default, or leaves out what needs the value.             *)
ReadFails(t) ==
  LET s == Head(job[t]) IN
  /\ At(t, "read")
  /\ Fault
  /\ IF Len(s.from) > 1
     THEN /\ job' = [job EXCEPT ![t] = << [s EXCEPT !.from = Tail(@)] >> \o Tail(job[t])]
          /\ sent' = [sent EXCEPT ![t] = FALSE]
          /\ UNCHANGED got
     ELSE Continue(t, s.skip, [got[t] EXCEPT ![s.slot] = s.miss])
  /\ UNCHANGED <<plan, regs, ptr, want>>

(* A register write; its result is not looked at.                          *)
WriteRegs(to, reg, val) ==
  /\ regs' = [p \in Panel |-> IF p \in to THEN [regs[p] EXCEPT ![reg] = val] ELSE regs[p]]
  /\ ptr' = [p \in Panel |-> IF p \in to THEN reg ELSE ptr[p]]

Write(t) ==
  LET s == Head(job[t]) IN
  /\ At(t, "write")
  /\ \/ /\ WriteRegs(s.to, s.reg, [f \in {"lo", "hi"} |->
                                    IF f \in s.set THEN s.val[f] ELSE got[t][s.slot][f]])
        /\ UNCHANGED faults
     \/ Fault /\ UNCHANGED <<regs, ptr>>
  /\ Continue(t, 0, got[t])
  /\ UNCHANGED <<plan, want>>

WriteLuminance(t) ==
  LET s == Head(job[t]) IN
  /\ At(t, "lum")
  /\ \/ /\ WriteRegs(s.to, s.reg, Reg(AtMost(s.val, MaxLum(got[t][s.slot].lo)), 0))
        /\ UNCHANGED faults
     \/ Fault /\ UNCHANGED <<regs, ptr>>
  /\ Continue(t, 0, got[t])
  /\ UNCHANGED <<plan, want>>

(* jbd4040_read_panel_temp asks for the temperature only of a sensor that  *)
(* is on.                                                                  *)
AskSensor(t) ==
  /\ At(t, "sensor")
  /\ Continue(t, IF got[t][Head(job[t]).slot].lo = 3 THEN 0 ELSE 1, got[t])
  /\ UNCHANGED <<plan, regs, ptr, faults, want>>

Next == \E t \in Threads :
          \/ Start(t)
          \/ SendAddress(t)
          \/ Fetch(t)
          \/ ReadFails(t)
          \/ Write(t)
          \/ WriteLuminance(t)
          \/ AskSensor(t)

Spec == Init /\ [][Next]_vars

-----------------------------------------------------------------------------
(* Properties.                                                             *)

(* Every register holds values that its fields have room for: the limits   *)
(* and masks of the store handlers let no number reach a neighbour field.  *)
AttrTypeOK ==
  /\ plan \in Scenarios
  /\ \A p \in Panel, r \in Regs : \A f \in {"lo", "hi"} : regs[p][r][f] \in 0 .. Width[r][f]
  /\ ptr \in [Panel -> Regs]
  /\ faults \in 0 .. plan.faults
  /\ \A t \in Threads : sent[t] => At(t, "read")

Quiet == \A t \in Threads : job[t] = << >>

(* When no handler is running and nothing has failed, every field is what  *)
(* the last request for it asked, or what prepare left: writing one        *)
(* attribute changes no other, although several share a register and a     *)
(* broadcast write carries red's value to all panels.                      *)
FieldsFollowRequests ==
  Quiet /\ faults = 0 =>
    \A p \in Panel, r \in Regs \ {"LUM_REG", "PVT_DATA"} : \A f \in {"lo", "hi"} :
      regs[p][r][f] \in want[p][r][f]

(* Whatever read or write fails, fps_store, pl_osc_trim_store and          *)
(* pl_osc_trim_en_store keep the fields that they share a register with:   *)
(* 10-bit scan, the upper byte of the trim and the sensor trim switch.     *)
SetupSurvives ==
  \A p \in Panel :
    /\ regs[p].PL_CFG.hi = 1
    /\ regs[p].OSC_TRIM.hi = 2
    /\ regs[p].EFUSE_REG_SW.hi = 1

=============================================================================
