------------------------------- MODULE I2cJbd -------------------------------
(***************************************************************************)
(* The character devices and sysfs attributes of i2c-jbd4020.c and         *)
(* i2c-jbd4040.c, both of which offer the registers of three panels to     *)
(* user space.  An ioctl runs under the driver's mutex.  An attribute runs *)
(* without it.  A handler is the list of transfers it makes; transfers of  *)
(* other threads come in between, and any transfer may fail.               *)
(*                                                                         *)
(* A read of the JBD4020 is one combined transfer.  A read of the JBD4040  *)
(* is two: one leaves the register address in the panel, the other fetches *)
(* what the panel's pointer says.  The JBD4040 driver also has a client    *)
(* whose address is the broadcast address, which store_fps changes for the *)
(* time of one read.                                                       *)
(***************************************************************************)
EXTENDS Naturals, SequencesExt

CONSTANTS
  Threads,     \* threads that use the device and the attributes
  NoThread,    \* the mutex is free
  Scenarios    \* what they do: see ScenariosAssumption

ASSUME NoThreadAssumption == NoThread \notin Threads

ASSUME ScenariosAssumption ==
  \A s \in Scenarios :
    /\ s.drv \in {"jbd4020", "jbd4040"}   \* the driver
    /\ s.users \subseteq Threads          \* the threads that take part
    /\ s.faults \in Nat                   \* bound: transfers that fail

Panel == {"R", "G", "B"}

(* The fields of the registers, with the largest value each has room for.  *)
(* LUM and CUR: what the drivers set, and the bits next to it.  OFFSET and *)
(* FLIP are for pictures in SRAM, VO holds the same for the video path; TX *)
(* has more bits, but a delay fits these.                                  *)
Width ==
  [jbd4020 |->
     [LUM |-> [val |-> 8191, rest |-> 1], CUR |-> [val |-> 255, rest |-> 1], TEMP |-> [val |-> 1023],
      FLIP |-> [flip |-> 1, mirror |-> 1], OFFSET |-> [en |-> 1, h |-> 31, v |-> 31],
      VO |-> [flip |-> 1, mirror |-> 1, en |-> 1, h |-> 4095, v |-> 4095]],
   jbd4040 |->
     [LUM |-> [val |-> 8191, rest |-> 1], CUR |-> [val |-> 255, rest |-> 255], TX |-> [val |-> 65535],
      FLIP |-> [flip |-> 1, mirror |-> 1], OFFSET |-> [h |-> 31, v |-> 31],
      FPS |-> [idx |-> 7, scan |-> 1], PVT |-> [ctl |-> 3], TEMP |-> [val |-> 4095]]]

Regs(d) == DOMAIN Width[d]

(* The commands and attributes that the drivers have.  Those commands of   *)
(* the JBD4040 that name what they are for are stubs: their code is not    *)
(* compiled, and what is left returns success.                             *)
Commands ==
  {"LUMIN_GET", "LUMIN_SET", "CURRENT_GET", "CURRENT_SET", "TEMP_READ", "FLIP_GET", "FLIP_SET",
   "MIRROR_GET", "MIRROR_SET", "OFFSET_GET", "OFFSET_SET"}
Ioctls == {"READ_REG", "WRITE_REG"} \cup Commands
Stub(d, r) == d = "jbd4040" /\ r.by = "ioctl" /\ r.name \in Commands

Shows(d) ==
  {"luminance", "current", "temperature", "flip", "mirror", "offset", "val"}
  \cup IF d = "jbd4040" THEN {"fps"} ELSE {}
Stores(d) ==
  {"luminance", "current", "flip", "mirror", "offset", "reg", "val"}
  \cup IF d = "jbd4040" THEN {"fps", "tx"} ELSE {}

(* A request as the handlers see it once they have parsed it.  A write to  *)
(* luminance, current or offset names one panel p of the JBD4020, or the   *)
(* panels ps of the JBD4040: each once, red first, and without those whose *)
(* part of the line cannot be parsed, which the handlers pass over.  fps   *)
(* is the place of the rate in fps_array; the delay tx fits 16 bits.       *)
ASSUME RequestsAssumption ==
  \A s \in Scenarios : \A r \in s.requests :
    /\ \/ r.by = "ioctl" /\ r.name \in Ioctls
       \/ r.by = "show" /\ r.name \in Shows(s.drv)
       \/ r.by = "store" /\ r.name \in Stores(s.drv)
    /\ r.p \in Panel /\ r.ps \subseteq Panel
    /\ r.n \in Nat /\ r.en \in {0, 1} /\ r.short \in BOOLEAN
    /\ r.reg \in Regs(s.drv)
    /\ r.name = "fps" => r.n <= 6
    /\ r.name = "tx" => r.n <= 65535

(* What the panel drivers leave: jbd_panel_cfg and init_registers.         *)
Booted(d, p) ==
  LET upright == IF p = "G" THEN 0 ELSE 1 IN
  IF d = "jbd4020"
  THEN [LUM |-> [val |-> 1448, rest |-> 1], CUR |-> [val |-> 10, rest |-> 1], TEMP |-> [val |-> 400],
        FLIP |-> [flip |-> 1, mirror |-> upright], OFFSET |-> [en |-> 1, h |-> 12, v |-> 12],
        VO |-> [flip |-> 1, mirror |-> upright, en |-> 1, h |-> 12, v |-> 12]]
  ELSE [LUM |-> [val |-> 5000, rest |-> 1], CUR |-> [val |-> 34, rest |-> 0], TX |-> [val |-> 1186],
        FLIP |-> [flip |-> 1, mirror |-> upright], OFFSET |-> [h |-> 10, v |-> 6],
        FPS |-> [idx |-> 0, scan |-> 1], PVT |-> [ctl |-> 0], TEMP |-> [val |-> 400]]

VARIABLES
  scen,     \* the scenario
  regs,     \* regs[p][r][f]: field f of register r of panel p
  ptr,      \* ptr[p]: the register that a bare read of panel p fetches
  addr,     \* client->addr: the panels that the driver's own client reaches
  sysfsReg, \* sysfs_reg, the register that the attribute val stands for
  mutex,    \* holder of the ioctl mutex, or NoThread
  loc,      \* loc[t]: "idle", "wait" for the mutex, or "run"
  req,      \* req[t]: what the handler was called for
  job,      \* job[t]: the steps the handler has still to take
  sent,     \* sent[t]: the address of the read at the head of job[t] is out
  temp,     \* temp[t]: the handler's variable temp or val: the last register
  seen,     \* seen[t]: the registers it has read to show them
  saved,    \* saved[t]: orig_addr of store_fps
  ok,       \* ok[t]: ret is still 0
  faults,   \* transfers that have failed
  goal      \* history: the registers as the requests served so far want them,
            \* until a transfer fails

hw   == <<regs, ptr, addr, sysfsReg>>
vars == <<scen, hw, mutex, loc, req, job, sent, temp, seen, saved, ok, faults, goal>>

-----------------------------------------------------------------------------
(* Steps.  fail says what a failed transfer means: how many of the next    *)
(* steps are left out, and whether the handler will return an error.       *)
End     == [skip |-> 99, err |-> TRUE]
Note    == [skip |-> 0, err |-> TRUE]
Skip(n) == [skip |-> n, err |-> FALSE]

(* Read a register into temp, or to show it; write temp with some fields   *)
(* replaced.  at is a panel, or "client" for the driver's own client.      *)
Rd(at, reg, fail)      == [op |-> "read", at |-> at, reg |-> reg, fail |-> fail]
Get(at, reg, fail)     == [op |-> "get", at |-> at, reg |-> reg, fail |-> fail]
Wr(at, reg, set, fail) == [op |-> "write", at |-> at, reg |-> reg, set |-> set, fail |-> fail]

(* Change client->addr to red; change it back, and leave on an error.      *)
TakeAddr == [op |-> "take"]
GiveAddr == [op |-> "give"]

(* Set sysfs_reg.  Leave out the next step if the sensor read is off.      *)
Select(reg) == [op |-> "select", reg |-> reg]
AskSensor   == [op |-> "ask"]

(* Read, modify, write.  An ioctl ends at the first failure.  An attribute *)
(* ignores a failed write, and a failed read keeps it from the write and   *)
(* the next n steps.                                                       *)
Rmw(p, reg, set) == << Rd(p, reg, End), Wr(p, reg, set, End) >>

(* Mutant: the write goes out whether the read has succeeded or not.       *)
AttrRmwUnchecked(p, reg, set, n) == << Rd(p, reg, Skip(0)), Wr(p, reg, set, Skip(0)) >>

AttrRmw(p, reg, set, n) == << Rd(p, reg, Skip(n + 1)), Wr(p, reg, set, Skip(0)) >>

PerPanel(Do(_)) == Do("R") \o Do("G") \o Do("B")
PerNamed(r, Do(_)) == PerPanel(LAMBDA p : IF p \in r.ps THEN Do(p) ELSE << >>)

(* A request r has a switch r.en and a number for each colour.             *)
Number(r, p)   == r.n + (CASE p = "R" -> 0 [] p = "G" -> 1 [] p = "B" -> 2)
Vertical(r, p) == Number(r, p) + 3

(* Mirrored is the other way round for green.                              *)
MirrorBit(p, en) == IF p = "G" THEN 1 - en ELSE en

-----------------------------------------------------------------------------
(* ioctl of the JBD4020.                                                   *)

LuminGet   == PerPanel(LAMBDA p : << Get(p, "LUM", Note) >>)
CurrentGet == PerPanel(LAMBDA p : << Get(p, "CUR", End) >>)
TempRead   == PerPanel(LAMBDA p : << Get(p, "TEMP", End) >>)
FlipGet    == << Get("R", "FLIP", End) >>
MirrorGet  == << Get("R", "FLIP", End) >>
OffsetGet  == PerPanel(LAMBDA p : << Get(p, "VO", End) >>)

(* Mutant: a luminance is not cut to the bits of its field.                *)
LuminSetUnmasked(r) == PerPanel(LAMBDA p : Rmw(p, "LUM", [val |-> Number(r, p)]))

LuminSet(r) == PerPanel(LAMBDA p : Rmw(p, "LUM", [val |-> Number(r, p) % 8192]))
CurrentSet(r) == PerPanel(LAMBDA p : Rmw(p, "CUR", [val |-> Number(r, p) % 256]))

(* Mutant: the result of the write to the video path is not looked at.     *)
FlipSetVideoIgnored(r) ==
  PerPanel(LAMBDA p : Rmw(p, "FLIP", [flip |-> r.en])
                      \o << Rd(p, "VO", End), Wr(p, "VO", [flip |-> r.en], Skip(0)) >>)

FlipSet(r) == PerPanel(LAMBDA p : Rmw(p, "FLIP", [flip |-> r.en]) \o Rmw(p, "VO", [flip |-> r.en]))

(* Mutant: the video path of green is mirrored like that of the others.    *)
MirrorSetVideoSame(r) ==
  PerPanel(LAMBDA p : Rmw(p, "FLIP", [mirror |-> MirrorBit(p, r.en)]) \o Rmw(p, "VO", [mirror |-> r.en]))

MirrorSet(r) ==
  PerPanel(LAMBDA p : LET bit == [mirror |-> MirrorBit(p, r.en)] IN
                      Rmw(p, "FLIP", bit) \o Rmw(p, "VO", bit))

(* Switched off, all of VO but the switch is cleared; blue's VO goes to    *)
(* red.                                                                    *)
OffsetSet(r) ==
  PerPanel(LAMBDA p :
    LET h == Number(r, p) % 32
        v == Vertical(r, p) % 32
    IN Rmw(p, "OFFSET", IF r.en = 1 THEN [en |-> 1, h |-> h, v |-> v] ELSE [en |-> 0])
       \o << Rd(p, "VO", End),
             Wr(IF p = "B" THEN "R" ELSE p, "VO",
                IF r.en = 1 THEN [en |-> 1, h |-> h, v |-> v]
                            ELSE [flip |-> 0, mirror |-> 0, h |-> 0, v |-> 0], End) >>)

(* ioctl of both drivers on one register of red.  The value written is 0.  *)
ReadReg(r)     == << Get("R", r.reg, End) >>
WriteReg(d, r) == << Wr("R", r.reg, [f \in DOMAIN Width[d][r.reg] |-> 0], End) >>

-----------------------------------------------------------------------------
(* Attributes of both drivers.  A show handler ends at the first failure.  *)

ShowColours(reg) == PerPanel(LAMBDA p : << Get(p, reg, End) >>)
ShowFlip(d)      == IF d = "jbd4020" THEN << Get("R", "FLIP", End) >> ELSE ShowColours("FLIP")
ShowFps          == << Get("R", "FPS", End) >>

(* reg chooses a register of red, val reads it and writes it.              *)
RegStore(r) == << Select(r.reg) >>
ValShow     == << Get("R", "sysfs", Skip(0)) >>
ValStore    == << Wr("R", "sysfs", << >>, Skip(0)) >>

-----------------------------------------------------------------------------
(* Attributes of the JBD4020.  They serve one colour, but flip and mirror, *)
(* which ask for a colour, serve all.                                      *)

Store4020Luminance(r) == AttrRmw(r.p, "LUM", [val |-> Number(r, r.p) % 8192], 0)

Store4020Current(r) == AttrRmw(r.p, "CUR", [val |-> Number(r, r.p) % 256], 0)

Store4020Flip(r) ==
  PerPanel(LAMBDA p : AttrRmw(p, "FLIP", [flip |-> r.en], 2) \o AttrRmw(p, "VO", [flip |-> r.en], 0))

Store4020Mirror(r) ==
  PerPanel(LAMBDA p : LET bit == [mirror |-> MirrorBit(p, r.en)] IN
                      AttrRmw(p, "FLIP", bit, 2) \o AttrRmw(p, "VO", bit, 0))

(* Numbers that are not given, or given with a switch that is off, are     *)
(* those that SRAM has; the video path gets the same ones.                 *)
Store4020Offset(r) ==
  AttrRmw(r.p, "OFFSET", IF r.en = 0 \/ r.short THEN [en |-> r.en]
                         ELSE [en |-> 1, h |-> Number(r, r.p) % 32, v |-> Vertical(r, r.p) % 32], 2)
  \o << [Rd(r.p, "VO", Skip(1)) EXCEPT !.op = "readhv"], Wr(r.p, "VO", [en |-> r.en], Skip(0)) >>

-----------------------------------------------------------------------------
(* Attributes of the JBD4040.  They serve all panels that they are given;  *)
(* a transfer that fails ends the work on its panel only.                  *)

Store4040Luminance(r) ==
  PerNamed(r, LAMBDA p : AttrRmw(p, "LUM", [val |-> Number(r, p) % 8192], 0))

Store4040Current(r) ==
  PerNamed(r, LAMBDA p :
    << Wr(p, "CUR", [val |-> Number(r, p) % 256, rest |-> (Number(r, p) \div 256) % 256], Skip(0)) >>)

(* The colour t of current sends a delay to all panels, and leaves.        *)
Store4040TxTiming(r) == << Wr("client", "TX", [val |-> r.n], Skip(0)) >>

Store4040Flip(r)   == PerPanel(LAMBDA p : AttrRmw(p, "FLIP", [flip |-> r.en], 0))
Store4040Mirror(r) == PerPanel(LAMBDA p : AttrRmw(p, "FLIP", [mirror |-> MirrorBit(p, r.en)], 0))

(* Without both numbers, or switched off, nothing is written.              *)
Store4040Offset(r) ==
  PerNamed(r, LAMBDA p :
    IF r.en = 0 \/ r.short THEN << >>
    ELSE << Wr(p, "OFFSET", [h |-> Number(r, p) % 32, v |-> Vertical(r, p) % 32], Skip(0)) >>)

(* Mutant: a failed read returns before the address is changed back.       *)
StoreFpsReturnsEarly(r) ==
  << TakeAddr, Rd("client", "FPS", End), GiveAddr, Wr("client", "FPS", [idx |-> r.n], Note) >>

(* Ask red, tell all.                                                      *)
StoreFps(r) ==
  << TakeAddr, Rd("client", "FPS", Note), GiveAddr, Wr("client", "FPS", [idx |-> r.n], Note) >>

(* Switch the sensors on, read those that say they are on, switch off.     *)
Show4040Temperature ==
  PerPanel(LAMBDA p : << Wr(p, "PVT", [ctl |-> 3], Skip(0)) >>)
  \o PerPanel(LAMBDA p : << Rd(p, "PVT", Skip(2)), AskSensor, Get(p, "TEMP", Skip(0)) >>)
  \o PerPanel(LAMBDA p : << Wr(p, "PVT", [ctl |-> 0], Skip(0)) >>)

-----------------------------------------------------------------------------
(* What a request [by, name, p, ps, n, en, short, reg] runs, by name.      *)

IoctlSteps(d, r) ==
  IF Stub(d, r) THEN << >> ELSE
  CASE r.name = "LUMIN_GET" -> LuminGet
    [] r.name = "LUMIN_SET" -> LuminSet(r)
    [] r.name = "CURRENT_GET" -> CurrentGet
    [] r.name = "CURRENT_SET" -> CurrentSet(r)
    [] r.name = "TEMP_READ" -> TempRead
    [] r.name = "FLIP_GET" -> FlipGet
    [] r.name = "FLIP_SET" -> FlipSet(r)
    [] r.name = "MIRROR_GET" -> MirrorGet
    [] r.name = "MIRROR_SET" -> MirrorSet(r)
    [] r.name = "OFFSET_GET" -> OffsetGet
    [] r.name = "OFFSET_SET" -> OffsetSet(r)
    [] r.name = "READ_REG" -> ReadReg(r)
    [] r.name = "WRITE_REG" -> WriteReg(d, r)

ShowSteps(d, r) ==
  CASE r.name = "luminance" -> ShowColours("LUM")
    [] r.name = "current" -> ShowColours("CUR")
    [] r.name = "temperature" -> IF d = "jbd4020" THEN ShowColours("TEMP") ELSE Show4040Temperature
    [] r.name \in {"flip", "mirror"} -> ShowFlip(d)
    [] r.name = "offset" -> ShowColours("OFFSET")
    [] r.name = "fps" -> ShowFps
    [] r.name = "val" -> ValShow

StoreSteps(d, r) ==
  CASE r.name = "luminance" -> IF d = "jbd4020" THEN Store4020Luminance(r) ELSE Store4040Luminance(r)
    [] r.name = "current" -> IF d = "jbd4020" THEN Store4020Current(r) ELSE Store4040Current(r)
    [] r.name = "tx" -> Store4040TxTiming(r)
    [] r.name = "flip" -> IF d = "jbd4020" THEN Store4020Flip(r) ELSE Store4040Flip(r)
    [] r.name = "mirror" -> IF d = "jbd4020" THEN Store4020Mirror(r) ELSE Store4040Mirror(r)
    [] r.name = "offset" -> IF d = "jbd4020" THEN Store4020Offset(r) ELSE Store4040Offset(r)
    [] r.name = "fps" -> StoreFps(r)
    [] r.name = "reg" -> RegStore(r)
    [] r.name = "val" -> ValStore

Steps(r) ==
  CASE r.by = "ioctl" -> IoctlSteps(scen.drv, r)
    [] r.by = "show" -> ShowSteps(scen.drv, r)
    [] r.by = "store" -> StoreSteps(scen.drv, r)

(* What a request is for: the fields it sets, as <<panel, register, field, *)
(* value>>.  A stub sets none.                                             *)
On(p, reg, fields) == {<<p, reg, f, fields[f]>> : f \in DOMAIN fields}

Effect(r) ==
  LET each(E(_)) == UNION {E(p) : p \in Panel}
      named == IF scen.drv = "jbd4020" THEN {r.p} ELSE r.ps
      paths == IF scen.drv = "jbd4020" THEN {"FLIP", "VO"} ELSE {"FLIP"}
      offsetPaths == IF scen.drv = "jbd4020" THEN {"OFFSET", "VO"} ELSE {"OFFSET"}
      hv(p) == [h |-> Number(r, p) % 32, v |-> Vertical(r, p) % 32]
      whole(reg) == On("R", reg, [f \in DOMAIN Width[scen.drv][reg] |-> 0])
  IN
  IF r.by = "show" \/ Stub(scen.drv, r) THEN {} ELSE
  CASE r.name = "LUMIN_SET" -> each(LAMBDA p : On(p, "LUM", [val |-> Number(r, p) % 8192]))
    [] r.name = "CURRENT_SET" -> each(LAMBDA p : On(p, "CUR", [val |-> Number(r, p) % 256]))
    [] r.name = "luminance" -> UNION {On(p, "LUM", [val |-> Number(r, p) % 8192]) : p \in named}
    [] r.name = "current" ->
         UNION {On(p, "CUR", [val |-> Number(r, p) % 256])
                \cup IF scen.drv = "jbd4020" THEN {}
                     ELSE On(p, "CUR", [rest |-> (Number(r, p) \div 256) % 256]) : p \in named}
    [] r.name = "tx" -> each(LAMBDA p : On(p, "TX", [val |-> r.n]))
    [] r.name \in {"FLIP_SET", "flip"} ->
         each(LAMBDA p : UNION {On(p, path, [flip |-> r.en]) : path \in paths})
    [] r.name \in {"MIRROR_SET", "mirror"} ->
         each(LAMBDA p : UNION {On(p, path, [mirror |-> MirrorBit(p, r.en)]) : path \in paths})
    [] r.name = "OFFSET_SET" ->
         each(LAMBDA p : UNION {On(p, path, IF r.en = 1 THEN [en |-> 1] @@ hv(p) ELSE [en |-> 0])
                                  : path \in offsetPaths})
    [] r.name = "offset" ->
         (IF scen.drv = "jbd4020"
          THEN UNION {On(r.p, path, [en |-> r.en]) : path \in offsetPaths} ELSE {})
         \cup (IF r.en = 1 /\ ~ r.short
               THEN UNION {UNION {On(p, path, hv(p)) : path \in offsetPaths} : p \in named} ELSE {})
    [] r.name = "fps" -> each(LAMBDA p : On(p, "FPS", [idx |-> r.n]))
    [] r.name = "WRITE_REG" -> whole(r.reg)
    [] r.name = "val" -> whole(sysfsReg)
    [] OTHER -> {}

(* The registers rs after a request.                                       *)
Apply(r, rs) ==
  [p \in Panel |-> [g \in DOMAIN rs[p] |-> [f \in DOMAIN rs[p][g] |->
     LET set == {e[4] : e \in {d \in Effect(r) : <<d[1], d[2], d[3]>> = <<p, g, f>>}} IN
     IF set = {} THEN rs[p][g][f] ELSE CHOOSE v \in set : TRUE]]]

-----------------------------------------------------------------------------
NoReq == [by |-> "none"]

(* As init_registers leaves it, and as if sysfs_reg, which starts at an    *)
(* address without a register, had been set.                               *)
Init ==
  /\ scen \in Scenarios
  /\ regs = [p \in Panel |-> Booted(scen.drv, p)]
  /\ ptr = [p \in Panel |-> "FLIP"]
  /\ addr = Panel
  /\ sysfsReg = "FLIP"
  /\ mutex = NoThread
  /\ loc = [t \in Threads |-> "idle"]
  /\ req = [t \in Threads |-> NoReq]
  /\ job = [t \in Threads |-> << >>]
  /\ sent = [t \in Threads |-> FALSE]
  /\ temp = [t \in Threads |-> << >>]
  /\ seen = [t \in Threads |-> << >>]
  /\ saved = [t \in Threads |-> Panel]
  /\ ok = [t \in Threads |-> TRUE]
  /\ faults = 0
  /\ goal = regs

(* Users do not use attributes while another handler is at work, as the    *)
(* driver does not keep them apart.                                        *)
MayStart(t, r) ==
  \A u \in Threads \ {t} : loc[u] # "idle" => r.by = "ioctl" /\ req[u].by = "ioctl"

(* Thread t starts on request r.                                           *)
Begin(t, r) ==
  /\ loc' = [loc EXCEPT ![t] = "run"]
  /\ job' = [job EXCEPT ![t] = Steps(r)]
  /\ goal' = IF faults = 0 THEN Apply(r, goal) ELSE goal

(* A thread opens an attribute and enters its handler ...                  *)
StartAttribute(t) ==
  /\ loc[t] = "idle" /\ t \in scen.users
  /\ \E r \in scen.requests :
       /\ r.by \in {"show", "store"}
       /\ MayStart(t, r)
       /\ req' = [req EXCEPT ![t] = r]
       /\ Begin(t, r)
  /\ UNCHANGED <<scen, hw, mutex, sent, temp, seen, saved, ok, faults>>

(* ... or calls ioctl and asks for the mutex.                              *)
StartIoctl(t) ==
  /\ loc[t] = "idle" /\ t \in scen.users
  /\ \E r \in scen.requests :
       /\ r.by = "ioctl"
       /\ MayStart(t, r)
       /\ req' = [req EXCEPT ![t] = r]
  /\ loc' = [loc EXCEPT ![t] = "wait"]
  /\ UNCHANGED <<scen, hw, mutex, job, sent, temp, seen, saved, ok, faults, goal>>

(* Mutant: nobody waits.                                                   *)
LockAtOnce(t) ==
  /\ loc[t] = "wait"
  /\ mutex' = t
  /\ Begin(t, req[t])
  /\ UNCHANGED <<scen, hw, req, sent, temp, seen, saved, ok, faults>>

Lock(t) ==
  /\ loc[t] = "wait" /\ mutex = NoThread
  /\ mutex' = t
  /\ Begin(t, req[t])
  /\ UNCHANGED <<scen, hw, req, sent, temp, seen, saved, ok, faults>>

At(t, ops) == job[t] # << >> /\ Head(job[t]).op \in ops
Reads == {"read", "readhv", "get"}

(* The panels that the head step reaches, and its register.                *)
Dest(t)  == IF Head(job[t]).at = "client" THEN addr ELSE {Head(job[t]).at}
RegOf(t) == IF Head(job[t]).reg = "sysfs" THEN sysfsReg ELSE Head(job[t]).reg

(* The head step is taken and the next n are left out.                     *)
Continue(t, n) ==
  /\ job' = [job EXCEPT ![t] = SubSeq(@, 2 + n, Len(@))]
  /\ sent' = [sent EXCEPT ![t] = FALSE]

(* A read of the JBD4040: the address goes out on its own.                 *)
SendAddress(t) ==
  /\ scen.drv = "jbd4040" /\ At(t, Reads) /\ ~ sent[t]
  /\ ptr' = [p \in Panel |-> IF p \in Dest(t) THEN RegOf(t) ELSE ptr[p]]
  /\ sent' = [sent EXCEPT ![t] = TRUE]
  /\ UNCHANGED <<scen, regs, addr, sysfsReg, mutex, loc, req, job, temp, seen, saved, ok, faults, goal>>

(* The value v arrives.  "readhv" keeps the numbers already in temp.       *)
Arrive(t, v) ==
  LET s == Head(job[t]) IN
  /\ temp' = [temp EXCEPT ![t] = CASE s.op = "get" -> @
                                   [] s.op = "read" -> v
                                   [] OTHER -> [v EXCEPT !.h = temp[t].h, !.v = temp[t].v]]
  /\ seen' = [seen EXCEPT ![t] = IF s.op = "get" THEN Append(@, v) ELSE @]
  /\ Continue(t, 0)
  /\ UNCHANGED <<scen, regs, addr, sysfsReg, mutex, loc, req, saved, ok, faults, goal>>

ReadCombined(t) ==
  /\ scen.drv = "jbd4020" /\ At(t, Reads)
  /\ \E p \in Dest(t) : Arrive(t, regs[p][RegOf(t)])
  /\ UNCHANGED ptr

Fetch(t) ==
  /\ scen.drv = "jbd4040" /\ At(t, Reads) /\ sent[t]
  /\ \E p \in Dest(t) : Arrive(t, regs[p][ptr[p]])
  /\ UNCHANGED ptr

(* The register in temp with the fields that the head step sets.  If the   *)
(* read has fetched another register, its bits count as 0.                 *)
Modified(t) ==
  LET s == Head(job[t]) IN
  [f \in DOMAIN Width[scen.drv][RegOf(t)] |->
     IF s.reg # "sysfs" /\ f \in DOMAIN s.set THEN s.set[f]
     ELSE IF s.reg # "sysfs" /\ f \in DOMAIN temp[t] THEN temp[t][f] ELSE 0]

(* Mutant: a failed read is tried again until it succeeds.                 *)
FailsTriesAgain(t) ==
  /\ At(t, Reads) /\ sent[t]
  /\ faults < scen.faults
  /\ sent' = [sent EXCEPT ![t] = FALSE]
  /\ UNCHANGED <<scen, hw, mutex, loc, req, job, temp, seen, saved, ok, faults, goal>>

(* A transfer of the head step fails.                                      *)
Fails(t) ==
  LET how == Head(job[t]).fail IN
  /\ At(t, Reads \cup {"write"})
  /\ faults < scen.faults /\ faults' = faults + 1
  /\ ok' = [ok EXCEPT ![t] = @ /\ ~ how.err]
  /\ Continue(t, how.skip)
  /\ temp' = [temp EXCEPT ![t] = IF At(t, {"write"}) THEN Modified(t) ELSE @]
  /\ goal' = << >>
  /\ UNCHANGED <<scen, hw, mutex, loc, req, seen, saved>>

(* A write moves the pointer of a JBD4040 too.                             *)
Write(t) ==
  /\ At(t, {"write"})
  /\ temp' = [temp EXCEPT ![t] = Modified(t)]
  /\ regs' = [p \in Panel |-> IF p \in Dest(t) THEN [regs[p] EXCEPT ![RegOf(t)] = Modified(t)]
                                             ELSE regs[p]]
  /\ ptr' = [p \in Panel |-> IF scen.drv = "jbd4040" /\ p \in Dest(t) THEN RegOf(t) ELSE ptr[p]]
  /\ Continue(t, 0)
  /\ UNCHANGED <<scen, addr, sysfsReg, mutex, loc, req, seen, saved, ok, faults, goal>>

(* Steps of the handler on its own: store_fps changes client->addr ...     *)
ChangeAddr(t) ==
  /\ At(t, {"take"})
  /\ saved' = [saved EXCEPT ![t] = addr]
  /\ addr' = {"R"}
  /\ Continue(t, 0)
  /\ UNCHANGED <<scen, regs, ptr, sysfsReg, mutex, loc, req, temp, seen, ok, faults, goal>>

(* ... and back, and leaves if the read failed.                            *)
RestoreAddr(t) ==
  /\ At(t, {"give"})
  /\ addr' = saved[t]
  /\ Continue(t, IF ok[t] THEN 0 ELSE End.skip)
  /\ UNCHANGED <<scen, regs, ptr, sysfsReg, mutex, loc, req, temp, seen, saved, ok, faults, goal>>

(* reg_store; read_panel_temp asks only a sensor that is on.               *)
SelectReg(t) ==
  /\ At(t, {"select"})
  /\ sysfsReg' = Head(job[t]).reg
  /\ Continue(t, 0)
  /\ UNCHANGED <<scen, regs, ptr, addr, mutex, loc, req, temp, seen, saved, ok, faults, goal>>

AskIfOn(t) ==
  /\ At(t, {"ask"})
  /\ Continue(t, IF temp[t].ctl = 3 THEN 0 ELSE 1)
  /\ UNCHANGED <<scen, hw, mutex, loc, req, temp, seen, saved, ok, faults, goal>>

AtEnd(t) == loc[t] = "run" /\ job[t] = << >>

(* Every way out of ioctl is past the unlock.                              *)
Return(t) ==
  /\ AtEnd(t)
  /\ mutex' = IF req[t].by = "ioctl" THEN NoThread ELSE mutex
  /\ loc' = [loc EXCEPT ![t] = "idle"]
  /\ req' = [req EXCEPT ![t] = NoReq]
  /\ temp' = [temp EXCEPT ![t] = << >>]
  /\ seen' = [seen EXCEPT ![t] = << >>]
  /\ saved' = [saved EXCEPT ![t] = Panel]
  /\ ok' = [ok EXCEPT ![t] = TRUE]
  /\ UNCHANGED <<scen, hw, job, sent, faults, goal>>

Proceed(t) ==
  \/ SendAddress(t) \/ ReadCombined(t) \/ Fetch(t) \/ Fails(t) \/ Write(t)
  \/ ChangeAddr(t) \/ RestoreAddr(t) \/ SelectReg(t) \/ AskIfOn(t) \/ Return(t)

Next == \E t \in Threads : StartAttribute(t) \/ StartIoctl(t) \/ Lock(t) \/ Proceed(t)

Spec == Init /\ [][Next]_vars

(* A handler that runs goes on: nothing in it waits, and the I2C adapter   *)
(* ends every transfer.  The kernel's mutex hands itself to a thread that  *)
(* has waited too long, so nobody is passed over for ever.                 *)
FairSpec == Spec /\ \A t \in Threads : WF_vars(Proceed(t)) /\ SF_vars(Lock(t))

-----------------------------------------------------------------------------
Quiet == \A t \in Threads : loc[t] = "idle"

(* Every field is inside what its register has room for, and the mutex and *)
(* the handlers' variables have the values they can have.                  *)
I2cTypeOK ==
  /\ \A p \in Panel : \A r \in Regs(scen.drv) : \A f \in DOMAIN Width[scen.drv][r] :
       regs[p][r][f] \in 0 .. Width[scen.drv][r][f]
  /\ \A p \in Panel : ptr[p] \in Regs(scen.drv)
  /\ addr \in (SUBSET Panel) \ {{}}
  /\ sysfsReg \in Regs(scen.drv)
  /\ mutex \in Threads \cup {NoThread}
  /\ loc \in [Threads -> {"idle", "wait", "run"}]
  /\ sent \in [Threads -> BOOLEAN] /\ ok \in [Threads -> BOOLEAN]
  /\ faults \in 0 .. scen.faults

(* When nothing runs and nothing failed, the registers of all panels are   *)
(* what the commands and attributes served so far ask for, whatever order  *)
(* their transfers went out in (ioctl under jbd4020_mutex).                *)
SettingsFollowRequests == Quiet /\ faults = 0 => regs = goal

(* A command or attribute that reads several panels returns what they held *)
(* at one moment, never half of a command that runs next to it: it has     *)
(* seen one register for each of its "get" steps, in their order.          *)
Wanted(t, s) == goal[s.at][IF s.reg = "sysfs" THEN sysfsReg ELSE s.reg]
GetsUpTo(q, n) == Cardinality({i \in 1 .. n : q[i].op = "get"})
GetsReadOneMoment ==
  \A t \in Threads : AtEnd(t) /\ faults = 0 =>
    LET q == Steps(req[t]) IN
    /\ Len(seen[t]) = GetsUpTo(q, Len(q))
    /\ \A i \in 1 .. Len(q) : q[i].op = "get" => seen[t][GetsUpTo(q, i)] = Wanted(t, q[i])

(* An ioctl that returns success has set everything it was called for, in  *)
(* SRAM and in the video path, whatever failed before or during it.  Not   *)
(* so the stubs of the JBD4040 driver: their success means nothing.        *)
SuccessIsComplete ==
  \A t \in Threads : AtEnd(t) /\ req[t].by = "ioctl" /\ ~ Stub(scen.drv, req[t]) /\ ok[t] =>
    \A e \in Effect(req[t]) : regs[e[1]][e[2]][e[3]] = e[4]

(* Between handlers the driver's own client reaches all panels again, even *)
(* if the read for which store_fps changed its address failed.             *)
AddrIsBroadcast == Quiet => addr = Panel

(* What a handler may change: what it was called for, and while it reads   *)
(* the temperatures of the JBD4040 the sensors' switch; the numbers of an  *)
(* offset that it copies from SRAM to the video path.                      *)
Reach(t) ==
  Effect(req[t])
  \cup IF req[t].name = "temperature" /\ scen.drv = "jbd4040"
       THEN {<<p, "PVT", "ctl">> : p \in Panel} ELSE {}
  \cup IF req[t].name = "offset" /\ req[t].by = "store"
       THEN {<<req[t].p, "VO", f>> : f \in {"h", "v"}} ELSE {}

(* A transfer changes no field that no running handler was called for: not *)
(* a neighbour in the same register, nor the same field of another panel.  *)
OnlyNamedFieldsChange ==
  [][\A p \in Panel : \A r \in Regs(scen.drv) : \A f \in DOMAIN Width[scen.drv][r] :
       regs'[p][r][f] # regs[p][r][f] =>
         \E t \in Threads : loc[t] = "run" /\ <<p, r, f>> \in {<<e[1], e[2], e[3]>> : e \in Reach(t)}]_vars

(* Every ioctl that waits for the mutex gets it and returns, as every way  *)
(* out of the command, failed or not, unlocks it.                          *)
IoctlReturns == \A t \in Threads : loc[t] = "wait" ~> loc[t] = "idle"

(* SRAM and the video path of a panel show the picture the same way up.    *)
PathsAgree ==
  Quiet /\ faults = 0 /\ scen.drv = "jbd4020" =>
    \A p \in Panel :
      /\ regs[p].VO.flip = regs[p].FLIP.flip /\ regs[p].VO.mirror = regs[p].FLIP.mirror
      /\ regs[p].VO.en = regs[p].OFFSET.en
=============================================================================
