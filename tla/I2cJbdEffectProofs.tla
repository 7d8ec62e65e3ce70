------------------------- MODULE I2cJbdEffectProofs -------------------------
(***************************************************************************)
(* Proofs about what the handlers of i2c-jbd4020.c and i2c-jbd4040.c do to *)
(* the registers: a transfer changes only fields that a request is for, a  *)
(* command that succeeds has set all of them, and without a failure the    *)
(* registers are what the requests ask for and what reads return.          *)
(*                                                                         *)
(* The command OFFSET_SET does none of these things (see PathsAgree), and  *)
(* raw accesses to some registers undo what the driver counts on; what the *)
(* theorems need of the requests is an assumption of each.                 *)
(***************************************************************************)
EXTENDS I2cJbdProofs, FiniteSetTheorems

(* Nobody uses the command that mixes up the panels, which is a stub for   *)
(* the JBD4040; raw accesses leave alone the registers that the driver     *)
(* expects to agree with one another.                                      *)
NoOffsetSet  == \A s \in Scenarios : \A r \in s.requests : r.name = "OFFSET_SET" => s.drv = "jbd4040"
Paired       == {"OFFSET", "VO", "FPS"}
RawElsewhere == \A s \in Scenarios : \A r \in s.requests : r.name \in {"WRITE_REG", "reg"} => r.reg \notin Paired

Tame(r) == r.name = "OFFSET_SET" => Drv = "jbd4040"

-----------------------------------------------------------------------------
(* What steps set, as <<panel, register, field, value>>.                   *)

Target(s) == IF s.at = "client" THEN Panel ELSE {s.at}
Written(s) ==
  IF s.op # "write" THEN {}
  ELSE IF s.reg = "sysfs"
       THEN UNION {On(p, sysfsReg, [f \in Fields(Drv, sysfsReg) |-> 0]) : p \in Target(s)}
       ELSE UNION {On(p, s.reg, s.set) : p \in Target(s)}
Pending(q) == UNION {Written(q[i]) : i \in 1 .. Len(q)}

(* A step that needs temp comes after one for the same panel; a sensor is  *)
(* asked, or not, by a read.                                               *)
Aligned(q) ==
  \A i \in 1 .. Len(q) - 1 :
    /\ Partial(Drv, q[i + 1]) \/ q[i + 1].op = "readhv" => q[i].at = q[i + 1].at /\ q[i].at \in Panel
    /\ q[i].op = "ask" => q[i + 1].op = "get"

(* What handlers change next to what they are for.                         *)
Sensors(r) ==
  IF r.by = "show" /\ r.name = "temperature" /\ Drv = "jbd4040"
  THEN {<<p, "PVT", "ctl", c>> : p \in Panel, c \in {0, 3}} ELSE {}
CopyNames(r) ==
  IF r.by = "store" /\ r.name = "offset" /\ Drv = "jbd4020" THEN {<<r.p, "VO", f>> : f \in {"h", "v"}} ELSE {}

(* The steps of commands, which end at the first failure or note it, of    *)
(* the attributes reg and offset, and of other attributes.                 *)
Strict     == {s \in StepSet(Drv) : s.op \in {"read", "get", "write"} /\ s.fail.err}
Selects(r) == {s \in StepSet(Drv) : s.op = "select" /\ s.reg = r.reg}
Copying(r) == {s \in StepSet(Drv) : s.op \in {"read", "readhv", "write"} /\ s.at = r.p}
Plain      == {s \in StepSet(Drv) : s.op \notin {"select", "readhv"}}
Kind(r) ==
  IF r.by = "ioctl" THEN Strict
  ELSE IF r.name = "reg" THEN Selects(r)
  ELSE IF CopyNames(r) # {} THEN Copying(r) ELSE Plain

-----------------------------------------------------------------------------
(* The invariant of a handler that runs.                                   *)

TempAgrees(t) ==
  LET s == job[t][1] IN
  job[t] # << >> /\ Partial(Drv, s) =>
    /\ s.at \in Panel
    /\ \A f \in Fields(Drv, s.reg) \ DOMAIN s.set :
         temp[t][f] = regs[s.at][s.reg][f] \/ <<s.at, s.reg, f>> \in CopyNames(req[t])

JobInv(t) ==
  loc[t] = "run" =>
    /\ job[t] \in Seq(Kind(req[t]))
    /\ Pending(job[t]) \subseteq Effect(req[t]) \cup Sensors(req[t])
    /\ ~ SetsFps(t) => Aligned(job[t]) /\ TempAgrees(t)

(* A command that has not failed has done what it does not still have to.  *)
DoneInv(t) ==
  loc[t] = "run" /\ req[t].by = "ioctl" /\ ok[t] =>
    \A e \in Effect(req[t]) : e \in Pending(job[t]) \/ regs[e[1]][e[2]][e[3]] = e[4]

(* The panels agree on the scan bit of FPS, and store_fps, which asks one  *)
(* panel and tells all, holds the bit that they agree on.                  *)
HoldsScan(t) ==
  SetsFps(t) /\ (Len(job[t]) = 1 \/ (Len(job[t]) = 2 /\ ok[t]))
  => temp[t]["scan"] = regs["R"]["FPS"]["scan"]
ScanInv ==
  /\ sysfsReg \notin Paired
  /\ Drv = "jbd4040" => \A p \in Panel : regs[p]["FPS"]["scan"] = regs["R"]["FPS"]["scan"]
  /\ \A t \in Threads : HoldsScan(t)

(* The attribute offset of the JBD4020 ends with the write to VO.  By then *)
(* it has put into temp the numbers that SRAM has.                         *)
CopyInv(t) ==
  LET q == job[t]
      copies(s) == s.op = "write" /\ s.reg = "VO"
  IN
  loc[t] = "run" /\ CopyNames(req[t]) # {} /\ q # << >> =>
    /\ \A i \in 1 .. Len(q) - 1 : copies(q[i + 1]) => q[i].op = "readhv"
    /\ copies(q[Len(q)])
    /\ q[1].op = "readhv" \/ copies(q[1]) => \A f \in {"h", "v"} : temp[t][f] = regs[req[t].p]["OFFSET"][f]

(* Sensors that are switched on are switched off later.                    *)
OffLast(q) ==
  \A i \in 1 .. Len(q) : \A p \in Panel :
    <<p, "PVT", "ctl", 3>> \in Written(q[i]) => \E j \in i + 1 .. Len(q) : <<p, "PVT", "ctl", 0>> \in Written(q[j])

(* What a handler still has to set is what is wanted, but for sensors.     *)
AimInv(t) ==
  loc[t] = "run" =>
    /\ \A e \in Pending(job[t]) : e[4] = goal[e[1]][e[2]][e[3]] \/ e \in Sensors(req[t])
    /\ OffLast(job[t]) /\ CopyInv(t)

(* Field f is not yet what is wanted, but handler t will see to it.        *)
Due(t, p, g, f) ==
  /\ loc[t] = "run"
  /\ \/ <<p, g, f, goal[p][g][f]>> \in Pending(job[t])
     \/ job[t] # << >> /\ <<p, g, f>> \in CopyNames(req[t])
DueInv ==
  \A p \in Panel : \A g \in Regs(Drv) : \A f \in Fields(Drv, g) :
    regs[p][g][f] = goal[p][g][f] \/ \E t \in Threads : Due(t, p, g, f)

(* What is wanted: the same offset in SRAM and in the video path, and that *)
(* sensors are off.                                                        *)
File(rs) == rs = [p \in Panel |-> [g \in Regs(Drv) |-> [f \in Fields(Drv, g) |-> rs[p][g][f]]]]
Wanting ==
  /\ File(goal)
  /\ Drv = "jbd4020" => \A p \in Panel : \A f \in {"h", "v"} : goal[p]["VO"][f] = goal[p]["OFFSET"][f]
  /\ Drv = "jbd4040" => \A p \in Panel : goal[p]["PVT"]["ctl"] = 0

GoalInv ==
  /\ File(regs)
  /\ faults = 0 => Wanting /\ DueInv /\ \A t \in Threads : AimInv(t) /\ ok[t]

-----------------------------------------------------------------------------
(* Lists of steps and what they set.                                       *)

(* What is in a list is set by one of its steps, and the other way round.  *)
LEMMA PendingIn ==
  ASSUME NEW q, NEW e
  PROVE  e \in Pending(q) <=> \E i \in 1 .. Len(q) : e \in Written(q[i])
  BY DEF Pending

(* One list after the other sets what both set.                            *)
LEMMA PendingJoin ==
  ASSUME NEW S, NEW a \in Seq(S), NEW b \in Seq(S)
  PROVE  Pending(a \o b) = Pending(a) \cup Pending(b)
<1> DEFINE q == a \o b
<1>1. /\ Len(a) \in Nat /\ Len(b) \in Nat /\ Len(q) = Len(a) + Len(b)
      /\ \A i \in 1 .. Len(a) : q[i] = a[i]
      /\ \A i \in Len(a) + 1 .. Len(a) + Len(b) : i - Len(a) \in 1 .. Len(b) /\ q[i] = b[i - Len(a)]
  BY Joined
<1> HIDE DEF q
<1>2. ASSUME NEW e \in Pending(q)
      PROVE  e \in Pending(a) \cup Pending(b)
  <2>1. PICK i \in 1 .. Len(q) : e \in Written(q[i])
    BY <1>2, PendingIn
  <2>2. CASE i <= Len(a)
    <3>1. i \in 1 .. Len(a)
      BY <2>2, <1>1
    <3> QED BY <2>1, <3>1, <1>1, PendingIn
  <2>3. CASE ~ (i <= Len(a))
    <3>1. i \in Len(a) + 1 .. Len(a) + Len(b)
      BY <2>3, <1>1
    <3>2. i - Len(a) \in 1 .. Len(b) /\ e \in Written(b[i - Len(a)])
      BY <3>1, <2>1, <1>1
    <3> QED BY <3>2, PendingIn
  <2> QED BY <2>2, <2>3
<1>3. ASSUME NEW e \in Pending(a)
      PROVE  e \in Pending(q)
  <2>1. PICK i \in 1 .. Len(a) : e \in Written(a[i])
    BY <1>3, PendingIn
  <2>2. i \in 1 .. Len(q) /\ q[i] = a[i]
    BY <1>1
  <2> QED BY <2>1, <2>2, PendingIn
<1>4. ASSUME NEW e \in Pending(b)
      PROVE  e \in Pending(q)
  <2>1. PICK i \in 1 .. Len(b) : e \in Written(b[i])
    BY <1>4, PendingIn
  <2>2. i + Len(a) \in Len(a) + 1 .. Len(a) + Len(b) /\ i + Len(a) \in 1 .. Len(q) /\ (i + Len(a)) - Len(a) = i
    BY <1>1
  <2>3. q[i + Len(a)] = b[i]
    BY <1>1, <2>2
  <2> QED BY <2>1, <2>2, <2>3, PendingIn
<1> QED BY <1>2, <1>3, <1>4 DEF q

(* What is left of a list sets nothing else; the rest of it is set by the  *)
(* first step.                                                             *)
LEMMA PendingRest ==
  ASSUME NEW S, NEW q \in Seq(S), q # << >>
  PROVE  /\ \A k \in Nat : Pending(Rest(q, k)) \subseteq Pending(q)
         /\ Pending(q) = Written(q[1]) \cup Pending(Rest(q, 0))
<1>1. Len(q) \in Nat /\ Len(q) > 0
  BY EmptySeq, LenProperties
<1>2. ASSUME NEW k \in Nat
      PROVE  Pending(Rest(q, k)) \subseteq Pending(q)
  <2>1. \A i \in 1 .. Len(Rest(q, k)) : i + k + 1 \in 1 .. Len(q) /\ Rest(q, k)[i] = q[i + k + 1]
    BY Remainder
  <2>2. ASSUME NEW e \in Pending(Rest(q, k))
        PROVE  e \in Pending(q)
    <3>1. PICK i \in 1 .. Len(Rest(q, k)) : e \in Written(Rest(q, k)[i])
      BY <2>2, PendingIn
    <3>2. i + k + 1 \in 1 .. Len(q) /\ e \in Written(q[i + k + 1])
      BY <2>1, <3>1
    <3> QED BY <3>2, PendingIn
  <2> QED BY <2>2
<1>3. ASSUME NEW e \in Pending(q)
      PROVE  e \in Written(q[1]) \cup Pending(Rest(q, 0))
  <2> DEFINE r == Rest(q, 0)
  <2>1. PICK i \in 1 .. Len(q) : e \in Written(q[i])
    BY <1>3, PendingIn
  <2>2. CASE i # 1
    <3>1. (0 + 1 <= Len(q) => Len(r) = Len(q) - (0 + 1)) /\ \A j \in 1 .. Len(r) : r[j] = q[j + 0 + 1]
      BY Remainder
    <3> HIDE DEF r
    <3>2. i - 1 \in 1 .. Len(r) /\ (i - 1) + 0 + 1 = i
      BY <3>1, <2>2, <1>1
    <3>3. r[i - 1] = q[i]
      BY <3>1, <3>2
    <3>4. e \in Pending(r)
      BY <2>1, <3>2, <3>3, PendingIn
    <3> QED BY <3>4 DEF r
  <2> QED BY <2>1, <2>2
<1>4. Written(q[1]) \subseteq Pending(q)
  <2>1. 1 \in 1 .. Len(q)
    BY <1>1
  <2> QED BY <2>1, PendingIn
<1> QED BY <1>2, <1>3, <1>4

(* What is left of an aligned list is aligned.                             *)
LEMMA AlignedRest ==
  ASSUME NEW S, NEW q \in Seq(S), q # << >>, Aligned(q), NEW k \in Nat
  PROVE  Aligned(Rest(q, k))
<1> DEFINE r == Rest(q, k)
<1>1. Len(q) \in Nat /\ Len(r) \in Nat /\ \A i \in 1 .. Len(r) : i + k + 1 \in 1 .. Len(q) /\ r[i] = q[i + k + 1]
  BY Remainder, LenProperties
<1> HIDE DEF r
<1>2. ASSUME NEW i \in 1 .. Len(r) - 1
      PROVE  /\ Partial(Drv, r[i + 1]) \/ r[i + 1].op = "readhv" => r[i].at = r[i + 1].at /\ r[i].at \in Panel
             /\ r[i].op = "ask" => r[i + 1].op = "get"
  <2>1. i \in 1 .. Len(r) /\ i + 1 \in 1 .. Len(r) /\ i + k + 1 \in Nat /\ (i + 1) + k + 1 = (i + k + 1) + 1
    BY <1>1
  <2>2. i + k + 1 \in 1 .. Len(q) - 1
    BY <2>1, <1>1
  <2>3. r[i] = q[i + k + 1] /\ r[i + 1] = q[(i + k + 1) + 1]
    BY <2>1, <1>1
  <2> QED BY <2>2, <2>3 DEF Aligned
<1> QED BY <1>2 DEF Aligned, r

-----------------------------------------------------------------------------
(* Lists that set W, of steps in K, which can follow one another.          *)

Unit(K, q, W) ==
  /\ q \in Seq(K) /\ Aligned(q) /\ Pending(q) = W
  /\ q # << >> => Fresh(Drv, q[1]) /\ q[Len(q)].op # "ask"

(* Two such lists one after the other.                                     *)
LEMMA UnitJoin ==
  ASSUME NEW K, NEW a, NEW b, NEW V, NEW W, Unit(K, a, V), Unit(K, b, W)
  PROVE  Unit(K, a \o b, V \cup W)
<1> DEFINE q == a \o b
<1>1. a \in Seq(K) /\ b \in Seq(K) /\ Aligned(a) /\ Aligned(b) /\ Pending(a) = V /\ Pending(b) = W
      /\ (a # << >> => Fresh(Drv, a[1]) /\ a[Len(a)].op # "ask")
      /\ (b # << >> => Fresh(Drv, b[1]) /\ b[Len(b)].op # "ask")
  BY DEF Unit
<1>2. /\ q \in Seq(K) /\ Len(a) \in Nat /\ Len(b) \in Nat /\ Len(q) = Len(a) + Len(b)
      /\ \A i \in 1 .. Len(a) : q[i] = a[i]
      /\ \A i \in Len(a) + 1 .. Len(a) + Len(b) : i - Len(a) \in 1 .. Len(b) /\ q[i] = b[i - Len(a)]
  BY <1>1, Joined
<1>3. Pending(q) = V \cup W
  BY <1>1, PendingJoin
<1>4. (a # << >> <=> Len(a) > 0) /\ (b # << >> <=> Len(b) > 0) /\ (q # << >> <=> Len(q) > 0)
  BY <1>1, <1>2, EmptySeq
<1> HIDE DEF q
<1>5. ASSUME NEW i \in 1 .. Len(q) - 1
      PROVE  /\ Partial(Drv, q[i + 1]) \/ q[i + 1].op = "readhv" => q[i].at = q[i + 1].at /\ q[i].at \in Panel
             /\ q[i].op = "ask" => q[i + 1].op = "get"
  <2>1. CASE i + 1 <= Len(a)
    <3>1. i \in 1 .. Len(a) - 1 /\ i \in 1 .. Len(a) /\ i + 1 \in 1 .. Len(a)
      BY <2>1, <1>2
    <3>2. q[i] = a[i] /\ q[i + 1] = a[i + 1]
      BY <3>1, <1>2
    <3> QED BY <3>1, <3>2, <1>1 DEF Aligned
  <2>2. CASE i = Len(a)
    <3>1. i \in 1 .. Len(a) /\ i + 1 \in Len(a) + 1 .. Len(a) + Len(b) /\ (i + 1) - Len(a) = 1 /\ Len(b) > 0 /\ Len(a) > 0
      BY <2>2, <1>2
    <3>2. q[i] = a[Len(a)] /\ q[i + 1] = b[1]
      BY <2>2, <3>1, <1>2
    <3> QED BY <3>1, <3>2, <1>1, <1>4 DEF Fresh
  <2>3. CASE i > Len(a)
    <3>1. /\ i \in Len(a) + 1 .. Len(a) + Len(b) /\ i + 1 \in Len(a) + 1 .. Len(a) + Len(b)
          /\ (i + 1) - Len(a) = (i - Len(a)) + 1 /\ i - Len(a) \in 1 .. Len(b) - 1
      BY <2>3, <1>2
    <3>2. q[i] = b[i - Len(a)] /\ q[i + 1] = b[(i - Len(a)) + 1]
      BY <3>1, <1>2
    <3> QED BY <3>1, <3>2, <1>1 DEF Aligned
  <2> QED BY <2>1, <2>2, <2>3, <1>2
<1>6. Aligned(q)
  BY <1>5 DEF Aligned
<1>7. ASSUME q # << >>
      PROVE  Fresh(Drv, q[1]) /\ q[Len(q)].op # "ask"
  <2>1. Len(a) + Len(b) > 0
    BY <1>2, <1>4, <1>7
  <2>2. Fresh(Drv, q[1])
    <3>1. CASE Len(a) > 0
      <4>1. 1 \in 1 .. Len(a)
        BY <3>1, <1>2
      <4> QED BY <4>1, <3>1, <1>1, <1>2, <1>4
    <3>2. CASE Len(a) = 0
      <4>1. 1 \in Len(a) + 1 .. Len(a) + Len(b) /\ 1 - Len(a) = 1 /\ Len(b) > 0
        BY <3>2, <2>1, <1>2
      <4> QED BY <4>1, <1>1, <1>2, <1>4
    <3> QED BY <3>1, <3>2, <1>2
  <2>3. q[Len(q)].op # "ask"
    <3>1. CASE Len(b) > 0
      <4>1. Len(q) \in Len(a) + 1 .. Len(a) + Len(b) /\ Len(q) - Len(a) = Len(b)
        BY <3>1, <1>2
      <4>2. q[Len(q)] = b[Len(b)]
        BY <4>1, <1>2
      <4> QED BY <4>2, <3>1, <1>1, <1>4
    <3>2. CASE Len(b) = 0
      <4>1. Len(q) \in 1 .. Len(a) /\ Len(q) = Len(a) /\ Len(a) > 0
        BY <3>2, <2>1, <1>2
      <4> QED BY <4>1, <1>1, <1>2, <1>4
    <3> QED BY <3>1, <3>2, <1>2
  <2> QED BY <2>2, <2>3
<1>8. Unit(K, q, V \cup W)
  BY <1>2, <1>3, <1>6, <1>7 DEF Unit
<1> QED BY <1>8 DEF q

(* Three, one for each panel.                                              *)
LEMMA UnitThree ==
  ASSUME NEW K, NEW a, NEW b, NEW c, NEW U, NEW V, NEW W, Unit(K, a, U), Unit(K, b, V), Unit(K, c, W)
  PROVE  Unit(K, a \o b \o c, U \cup V \cup W)
<1>1. Unit(K, a \o b, U \cup V)
  BY UnitJoin
<1> QED BY <1>1, UnitJoin

(* One step alone, and none.                                               *)
LEMMA UnitOne ==
  ASSUME NEW K, NEW s \in K, Fresh(Drv, s), s.op # "ask"
  PROVE  Unit(K, << s >>, Written(s))
<1> DEFINE q == << s >>
<1>1. q \in Seq(K) /\ Len(q) = 1 /\ q[1] = s
  OBVIOUS
<1> HIDE DEF q
<1>2. Aligned(q)
  BY <1>1 DEF Aligned
<1>3. Pending(q) = Written(s)
  BY <1>1 DEF Pending
<1> QED BY <1>2, <1>3 DEF Unit, q

(* ... or none.                                                            *)
LEMMA UnitNone ==
  ASSUME NEW K
  PROVE  Unit(K, << >>, {})
<1> DEFINE q == << >>
<1>1. q \in Seq(K) /\ Len(q) = 0
  OBVIOUS
<1> HIDE DEF q
<1>2. Pending(q) = {} /\ Aligned(q)
  BY <1>1 DEF Pending, Aligned
<1> QED BY <1>1, <1>2 DEF Unit, q

(* A write at one panel, and at all.                                       *)
LEMMA WrittenOn ==
  ASSUME NEW at, NEW g, NEW set, NEW fail, g # "sysfs"
  PROVE  /\ at # "client" => Written(Wr(at, g, set, fail)) = On(at, g, set)
         /\ at = "client" => Written(Wr(at, g, set, fail)) = UNION {On(p, g, set) : p \in Panel}
  BY DEF Written, Wr, Target

(* A read for a write, and the write.                                      *)
LEMMA UnitPair ==
  ASSUME NEW K, NEW a \in K, NEW b \in K, a.op \in {"read", "get"}, b.op = "write", a.at = b.at, a.at \in Panel
  PROVE  Unit(K, << a, b >>, Written(b))
<1> DEFINE q == << a, b >>
<1>1. q \in Seq(K) /\ Len(q) = 2 /\ q[1] = a /\ q[2] = b
  OBVIOUS
<1> HIDE DEF q
<1>2. Aligned(q)
  BY <1>1 DEF Aligned
<1>3. Written(a) = {}
  BY DEF Written
<1>4. Pending(q) = Written(a) \cup Written(b)
  <2>1. ASSUME NEW e PROVE e \in Pending(q) <=> e \in Written(a) \/ e \in Written(b)
    <3>1. 1 .. Len(q) = {1, 2}
      BY <1>1
    <3> QED BY <3>1, <1>1, PendingIn
  <2> QED BY <2>1
<1>5. Fresh(Drv, a)
  BY DEF Fresh, Partial
<1> QED BY <1>1, <1>2, <1>3, <1>4, <1>5 DEF Unit, q

(* The step "sysfs" is no register.                                        *)
LEMMA NotRaw ==
  ASSUME Drv \in Driver
  PROVE  "sysfs" \notin Regs(Drv) /\ Panel \subseteq Place /\ \A p \in Panel : p # "client"
  BY RegisterNames DEF Driver, Place, Panel

(* Read, modify, write, in a command ...                                   *)
LEMMA UnitRmw ==
  ASSUME Drv \in Driver, NEW p \in Panel, NEW g \in Regs(Drv), NEW set \in Settings(Drv, g)
  PROVE  Unit(Strict, Rmw(p, g, set), On(p, g, set))
<1> DEFINE a == Rd(p, g, End)
           b == Wr(p, g, set, End)
<1>1. End \in Outcomes /\ End.err /\ p \in Place /\ p # "client" /\ g # "sysfs"
  BY NotRaw, FailOutcomes DEF End
<1>2. a \in StepSet(Drv) /\ b \in StepSet(Drv)
  BY <1>1, ReadMade, WriteMade
<1>3. a.op = "read" /\ b.op = "write" /\ a.at = p /\ b.at = p /\ a.fail = End /\ b.fail = End
  BY DEF Rd, Wr
<1>4. Written(b) = On(p, g, set)
  BY <1>1, WrittenOn
<1>5. Rmw(p, g, set) = << a, b >>
  BY DEF Rmw
<1> HIDE DEF a, b
<1>6. a \in Strict /\ b \in Strict
  BY <1>1, <1>2, <1>3 DEF Strict
<1> QED BY <1>3, <1>4, <1>5, <1>6, UnitPair

(* ... and in an attribute.                                                *)
LEMMA UnitAttrRmw ==
  ASSUME Drv \in Driver, NEW p \in Panel, NEW g \in Regs(Drv), NEW set \in Settings(Drv, g), NEW n \in {0, 2}
  PROVE  Unit(Plain, AttrRmw(p, g, set, n), On(p, g, set))
<1> DEFINE a == Rd(p, g, Skip(n + 1))
           b == Wr(p, g, set, Skip(0))
<1>1. Skip(n + 1) \in Outcomes /\ Skip(0) \in Outcomes /\ p \in Place /\ p # "client" /\ g # "sysfs"
  BY NotRaw, FailOutcomes
<1>2. a \in StepSet(Drv) /\ b \in StepSet(Drv)
  BY <1>1, ReadMade, WriteMade
<1>3. a.op = "read" /\ b.op = "write" /\ a.at = p /\ b.at = p
  BY DEF Rd, Wr
<1>4. Written(b) = On(p, g, set)
  BY <1>1, WrittenOn
<1>5. AttrRmw(p, g, set, n) = << a, b >>
  BY DEF AttrRmw
<1> HIDE DEF a, b
<1>6. a \in Plain /\ b \in Plain
  BY <1>2, <1>3 DEF Plain
<1> QED BY <1>3, <1>4, <1>5, <1>6, UnitPair

(* Reads to show registers, in a command and in an attribute.              *)
LEMMA UnitGet ==
  ASSUME NEW at \in Place, NEW g \in Regs(Drv) \cup {"sysfs"}, NEW fail \in {End, Note, Skip(0)}
  PROVE  /\ fail # Skip(0) => Unit(Strict, << Get(at, g, fail) >>, {})
         /\ Unit(Plain, << Get(at, g, fail) >>, {})
<1> DEFINE s == Get(at, g, fail)
<1>1. s \in StepSet(Drv)
  BY FailOutcomes, ReadMade
<1>2. s.op = "get" /\ s.fail = fail
  BY DEF Get
<1>3. fail # Skip(0) => fail.err
  BY DEF End, Note
<1> HIDE DEF s
<1>4. s \in Plain /\ (fail # Skip(0) => s \in Strict)
  BY <1>1, <1>2, <1>3 DEF Plain, Strict
<1>5. Fresh(Drv, s) /\ s.op # "ask" /\ Written(s) = {}
  BY <1>2 DEF Fresh, Partial, Written
<1>6. Unit(Plain, << s >>, {}) /\ (fail # Skip(0) => Unit(Strict, << s >>, {}))
  BY <1>4, <1>5, UnitOne
<1> QED BY <1>6 DEF s

(* Three lists that set nothing.                                           *)
LEMMA UnitGets ==
  ASSUME NEW K, NEW a, NEW b, NEW c, Unit(K, a, {}), Unit(K, b, {}), Unit(K, c, {})
  PROVE  Unit(K, a \o b \o c, {})
<1>1. Unit(K, a \o b \o c, {} \cup {} \cup {})
  BY UnitThree
<1> QED BY <1>1

(* A write of all the fields of a register.                                *)
LEMMA UnitWhole ==
  ASSUME Drv \in Driver, NEW at \in Place, NEW g \in Regs(Drv), NEW set \in Settings(Drv, g),
         DOMAIN set = Fields(Drv, g), NEW fail \in {End, Skip(0)}
  PROVE  /\ fail = End => Unit(Strict, << Wr(at, g, set, fail) >>, Written(Wr(at, g, set, fail)))
         /\ Unit(Plain, << Wr(at, g, set, fail) >>, Written(Wr(at, g, set, fail)))
<1> DEFINE s == Wr(at, g, set, fail)
<1>1. s \in StepSet(Drv)
  BY FailOutcomes, WriteMade
<1>2. s.op = "write" /\ s.fail = fail /\ s.set = set /\ s.reg = g
  BY DEF Wr
<1>3. fail = End => fail.err
  BY DEF End
<1> HIDE DEF s
<1>4. s \in Plain /\ (fail = End => s \in Strict)
  BY <1>1, <1>2, <1>3 DEF Plain, Strict
<1>5. Fresh(Drv, s) /\ s.op # "ask"
  BY <1>2 DEF Fresh, Partial
<1>6. Unit(Plain, << s >>, Written(s)) /\ (fail = End => Unit(Strict, << s >>, Written(s)))
  BY <1>4, <1>5, UnitOne
<1> QED BY <1>6 DEF s

-----------------------------------------------------------------------------
(* What each handler sets is what its request is for.                      *)

(* Which requests are no stubs.                                            *)
LEMMA NoStub ==
  ASSUME NEW r, r.by # "ioctl" \/ Drv = "jbd4020" \/ r.name \notin Commands
  PROVE  ~ Stub(scen.drv, r) /\ ~ Stub(Drv, r)
  BY DEF Stub, Drv

(* The commands that set one field of every panel.                         *)
LEMMA SetNumberUnits ==
  ASSUME NEW r, Requested(Drv, r), Drv = "jbd4020", r.by = "ioctl"
  PROVE  /\ r.name = "LUMIN_SET" => Unit(Strict, LuminSet(r), Effect(r))
         /\ r.name = "CURRENT_SET" => Unit(Strict, CurrentSet(r), Effect(r))
<1>1. Drv \in Driver /\ "LUM" \in Regs(Drv) /\ "CUR" \in Regs(Drv)
  BY RegisterNames DEF Driver
<1>2. ASSUME r.name = "LUMIN_SET"
      PROVE  Unit(Strict, LuminSet(r), Effect(r))
  <2> DEFINE set(p) == [val |-> Number(r, p) % 8192]
             X(p) == Rmw(p, "LUM", set(p))
  <2>1. LuminSet(r) = X("R") \o X("G") \o X("B")
    BY DEF LuminSet, PerPanel
  <2>2. Effect(r) = On("R", "LUM", set("R")) \cup On("G", "LUM", set("G")) \cup On("B", "LUM", set("B"))
    <3>1. Effect(r) = UNION {On(p, "LUM", [val |-> Number(r, p) % 8192]) : p \in Panel}
      BY <1>2, NoStub DEF Effect
    <3>2. Effect(r) = UNION {On(p, "LUM", set(p)) : p \in Panel}
      BY <3>1
    <3> HIDE DEF set
    <3> QED BY <3>2 DEF Panel
  <2>3. ASSUME NEW p \in Panel
        PROVE  Unit(Strict, X(p), On(p, "LUM", set(p)))
    <3>1. Number(r, p) \in Nat
      BY RequestParts
    <3>2. set(p) \in Settings(Drv, "LUM")
      BY <3>1, <1>1, LuminSetting
    <3> HIDE DEF set
    <3> QED BY <3>2, <1>1, UnitRmw
  <2> HIDE DEF X, set
  <2> QED BY <2>1, <2>2, <2>3, PanelNames, UnitThree
<1>3. ASSUME r.name = "CURRENT_SET"
      PROVE  Unit(Strict, CurrentSet(r), Effect(r))
  <2> DEFINE set(p) == [val |-> Number(r, p) % 256]
             X(p) == Rmw(p, "CUR", set(p))
  <2>1. CurrentSet(r) = X("R") \o X("G") \o X("B")
    BY DEF CurrentSet, PerPanel
  <2>2. Effect(r) = On("R", "CUR", set("R")) \cup On("G", "CUR", set("G")) \cup On("B", "CUR", set("B"))
    <3>1. Effect(r) = UNION {On(p, "CUR", [val |-> Number(r, p) % 256]) : p \in Panel}
      BY <1>3, NoStub DEF Effect
    <3>2. Effect(r) = UNION {On(p, "CUR", set(p)) : p \in Panel}
      BY <3>1
    <3> HIDE DEF set
    <3> QED BY <3>2 DEF Panel
  <2>3. ASSUME NEW p \in Panel
        PROVE  Unit(Strict, X(p), On(p, "CUR", set(p)))
    <3>1. Number(r, p) \in Nat
      BY RequestParts
    <3>2. set(p) \in Settings(Drv, "CUR")
      BY <3>1, <1>1, CurrentSetting
    <3> HIDE DEF set
    <3> QED BY <3>2, <1>1, UnitRmw
  <2> HIDE DEF X, set
  <2> QED BY <2>1, <2>2, <2>3, PanelNames, UnitThree
<1> QED BY <1>2, <1>3

(* Flip and mirror are for all panels, and in the JBD4020 for both paths.  *)
LEMMA TurnEffect ==
  ASSUME NEW r, r.by \in {"ioctl", "store"}, ~ Stub(scen.drv, r),
         NEW set, \/ r.name \in {"FLIP_SET", "flip"} /\ set = [p \in Panel |-> [flip |-> r.en]]
                  \/ r.name \in {"MIRROR_SET", "mirror"} /\ set = [p \in Panel |-> [mirror |-> MirrorBit(p, r.en)]]
  PROVE  LET both(p) == On(p, "FLIP", set[p]) \cup On(p, "VO", set[p]) IN
         /\ Drv = "jbd4020" => Effect(r) = both("R") \cup both("G") \cup both("B")
         /\ Drv = "jbd4040" => Effect(r) = On("R", "FLIP", set["R"]) \cup On("G", "FLIP", set["G"])
                                           \cup On("B", "FLIP", set["B"])
<1>1. CASE r.name \in {"FLIP_SET", "flip"}
  <2> DEFINE x(p) == [flip |-> r.en]
             paths == IF scen.drv = "jbd4020" THEN {"FLIP", "VO"} ELSE {"FLIP"}
  <2>1. Effect(r) = UNION {UNION {On(p, path, x(p)) : path \in paths} : p \in Panel}
    BY <1>1 DEF Effect
  <2>2. /\ Drv = "jbd4020" => paths = {"FLIP", "VO"}
        /\ Drv = "jbd4040" => paths = {"FLIP"}
    BY DEF Drv
  <2>3. \A p \in Panel : set[p] = x(p)
    BY <1>1
  <2> HIDE DEF x, paths
  <2>4. x("R") = set["R"] /\ x("G") = set["G"] /\ x("B") = set["B"]
    BY <2>3, PanelNames
  <2> QED BY <2>1, <2>2, <2>4 DEF Panel
<1>2. CASE r.name \in {"MIRROR_SET", "mirror"}
  <2> DEFINE x(p) == [mirror |-> MirrorBit(p, r.en)]
             paths == IF scen.drv = "jbd4020" THEN {"FLIP", "VO"} ELSE {"FLIP"}
  <2>1. Effect(r) = UNION {UNION {On(p, path, x(p)) : path \in paths} : p \in Panel}
    <3>1. r.by # "show"
      OBVIOUS
    <3> QED BY <1>2, <3>1, SMTT(30) DEF Effect
  <2>2. /\ Drv = "jbd4020" => paths = {"FLIP", "VO"}
        /\ Drv = "jbd4040" => paths = {"FLIP"}
    BY DEF Drv
  <2>3. \A p \in Panel : set[p] = x(p)
    BY <1>2
  <2> HIDE DEF x, paths
  <2>4. x("R") = set["R"] /\ x("G") = set["G"] /\ x("B") = set["B"]
    BY <2>3, PanelNames
  <2> QED BY <2>1, <2>2, <2>4 DEF Panel
<1> QED BY <1>1, <1>2

(* What they set fits.                                                     *)
LEMMA TurnSettings ==
  ASSUME NEW r, Requested(Drv, r), NEW p \in Panel
  PROVE  /\ [flip |-> r.en] \in Settings(Drv, "FLIP") /\ [mirror |-> MirrorBit(p, r.en)] \in Settings(Drv, "FLIP")
         /\ Drv = "jbd4020" => [flip |-> r.en] \in Settings(Drv, "VO")
                               /\ [mirror |-> MirrorBit(p, r.en)] \in Settings(Drv, "VO")
<1>1. r.en \in {0, 1} /\ MirrorBit(p, r.en) \in {0, 1} /\ Drv \in Driver
  BY RequestParts DEF Requested
<1> QED BY <1>1, SwitchSettings, SwitchSettings4020

(* The commands and attributes of the JBD4020 that flip and mirror.        *)
LEMMA SetTurnUnits ==
  ASSUME NEW r, Requested(Drv, r), Drv = "jbd4020"
  PROVE  /\ r.by = "ioctl" /\ r.name = "FLIP_SET" => Unit(Strict, FlipSet(r), Effect(r))
         /\ r.by = "ioctl" /\ r.name = "MIRROR_SET" => Unit(Strict, MirrorSet(r), Effect(r))
         /\ r.by = "store" /\ r.name = "flip" => Unit(Plain, Store4020Flip(r), Effect(r))
         /\ r.by = "store" /\ r.name = "mirror" => Unit(Plain, Store4020Mirror(r), Effect(r))
<1>1. Drv \in Driver /\ "FLIP" \in Regs(Drv) /\ "VO" \in Regs(Drv)
  BY RegisterNames DEF Driver
<1> DEFINE both(set, p) == On(p, "FLIP", set[p]) \cup On(p, "VO", set[p])
           X(set, p) == Rmw(p, "FLIP", set[p]) \o Rmw(p, "VO", set[p])
           Y(set, p) == AttrRmw(p, "FLIP", set[p], 2) \o AttrRmw(p, "VO", set[p], 0)
           Fine(set) == \A p \in Panel : set[p] \in Settings(Drv, "FLIP") /\ set[p] \in Settings(Drv, "VO")
           W(set) == both(set, "R") \cup both(set, "G") \cup both(set, "B")
<1>2. ASSUME NEW set, Fine(set)
      PROVE  /\ Unit(Strict, X(set, "R") \o X(set, "G") \o X(set, "B"), W(set))
             /\ Unit(Plain, Y(set, "R") \o Y(set, "G") \o Y(set, "B"), W(set))
  <2>1. ASSUME NEW p \in Panel
        PROVE  Unit(Strict, X(set, p), both(set, p)) /\ Unit(Plain, Y(set, p), both(set, p))
    <3>1. Unit(Strict, Rmw(p, "FLIP", set[p]), On(p, "FLIP", set[p])) /\ Unit(Strict, Rmw(p, "VO", set[p]), On(p, "VO", set[p]))
      BY <1>1, <1>2, UnitRmw
    <3>2. /\ Unit(Plain, AttrRmw(p, "FLIP", set[p], 2), On(p, "FLIP", set[p]))
          /\ Unit(Plain, AttrRmw(p, "VO", set[p], 0), On(p, "VO", set[p]))
      BY <1>1, <1>2, UnitAttrRmw
    <3> QED BY <3>1, <3>2, UnitJoin
  <2> HIDE DEF X, Y, both
  <2> QED BY <2>1, PanelNames, UnitThree
<1> DEFINE flips == [p \in Panel |-> [flip |-> r.en]]
           mirrors == [p \in Panel |-> [mirror |-> MirrorBit(p, r.en)]]
<1>3. Fine(flips) /\ Fine(mirrors)
  BY TurnSettings
<1>4. ASSUME r.by = "ioctl", r.name = "FLIP_SET"
      PROVE  Unit(Strict, FlipSet(r), Effect(r))
  <2>1. FlipSet(r) = X(flips, "R") \o X(flips, "G") \o X(flips, "B")
    BY DEF FlipSet, PerPanel, Panel
  <2>2. Effect(r) = W(flips)
    BY <1>4, NoStub, TurnEffect
  <2> HIDE DEF X, W, flips, Fine
  <2> QED BY <2>1, <2>2, <1>2, <1>3
<1>5. ASSUME r.by = "ioctl", r.name = "MIRROR_SET"
      PROVE  Unit(Strict, MirrorSet(r), Effect(r))
  <2>1. MirrorSet(r) = X(mirrors, "R") \o X(mirrors, "G") \o X(mirrors, "B")
    BY DEF MirrorSet, PerPanel, Panel
  <2>2. Effect(r) = W(mirrors)
    BY <1>5, NoStub, TurnEffect
  <2> HIDE DEF X, W, mirrors, Fine
  <2> QED BY <2>1, <2>2, <1>2, <1>3
<1>6. ASSUME r.by = "store", r.name = "flip"
      PROVE  Unit(Plain, Store4020Flip(r), Effect(r))
  <2>1. Store4020Flip(r) = Y(flips, "R") \o Y(flips, "G") \o Y(flips, "B")
    BY DEF Store4020Flip, PerPanel, Panel
  <2>2. Effect(r) = W(flips)
    BY <1>6, NoStub, TurnEffect
  <2> HIDE DEF Y, W, flips, Fine
  <2> QED BY <2>1, <2>2, <1>2, <1>3
<1>7. ASSUME r.by = "store", r.name = "mirror"
      PROVE  Unit(Plain, Store4020Mirror(r), Effect(r))
  <2>1. Store4020Mirror(r) = Y(mirrors, "R") \o Y(mirrors, "G") \o Y(mirrors, "B")
    BY DEF Store4020Mirror, PerPanel, Panel
  <2>2. Effect(r) = W(mirrors)
    BY <1>7, NoStub, TurnEffect
  <2> HIDE DEF Y, W, mirrors, Fine
  <2> QED BY <2>1, <2>2, <1>2, <1>3
<1> QED BY <1>4, <1>5, <1>6, <1>7

(* Commands and attributes that only read are for nothing.                 *)
LEMMA NoEffect ==
  ASSUME NEW r,
         \/ r.by = "show"
         \/ r.by = "ioctl" /\ r.name \in {"LUMIN_GET", "CURRENT_GET", "TEMP_READ", "FLIP_GET", "MIRROR_GET",
                                          "OFFSET_GET", "READ_REG"}
         \/ r.by = "store" /\ r.name = "reg"
  PROVE  Effect(r) = {}
  BY DEF Effect

(* Reads of one register of every panel.                                   *)
LEMMA UnitColours ==
  ASSUME NEW g \in Regs(Drv), NEW fail \in {End, Note}
  PROVE  LET get(p) == << Get(p, g, fail) >> IN
         /\ Unit(Strict, get("R") \o get("G") \o get("B"), {})
         /\ Unit(Plain, get("R") \o get("G") \o get("B"), {})
<1> DEFINE get(p) == << Get(p, g, fail) >>
<1>1. fail # Skip(0)
  BY DEF End, Note, Skip
<1>2. ASSUME NEW p \in Panel
      PROVE  Unit(Strict, get(p), {}) /\ Unit(Plain, get(p), {})
  BY <1>1, UnitGet DEF Place
<1> HIDE DEF get
<1>3. /\ Unit(Strict, get("R") \o get("G") \o get("B"), {})
      /\ Unit(Plain, get("R") \o get("G") \o get("B"), {})
  BY <1>2, PanelNames, UnitGets
<1> QED BY <1>3 DEF get

(* Every command, but one, sets what it is for.                            *)
LEMMA CommandUnit ==
  ASSUME NEW r, Requested(Drv, r), r.by = "ioctl", r.name \in Ioctls, Tame(r)
  PROVE  Unit(Strict, IoctlSteps(Drv, r), Effect(r))
<1>1. Drv \in Driver /\ r.reg \in Regs(Drv) /\ End # Skip(0)
  BY DEF Requested, End, Skip
<1>0. CASE Stub(Drv, r)
  <2>1. IoctlSteps(Drv, r) = << >> /\ Effect(r) = {}
    BY <1>0 DEF IoctlSteps, Effect, Drv
  <2> QED BY <2>1, UnitNone
<1>2. CASE r.name = "READ_REG"
  <2>1. Unit(Strict, ReadReg(r), {})
    BY <1>1, PanelNames, UnitGet DEF ReadReg
  <2>2. Effect(r) = {}
    BY <1>2, NoEffect
  <2>3. ~ Stub(Drv, r)
    BY <1>2, NoStub DEF Commands
  <2> QED BY <1>2, <2>1, <2>2, <2>3 DEF IoctlSteps
<1>3. CASE r.name = "WRITE_REG"
  <2> DEFINE x == [f \in DOMAIN Width[Drv][r.reg] |-> 0]
             w == Wr("R", r.reg, x, End)
  <2>a. ~ Stub(scen.drv, r) /\ ~ Stub(Drv, r)
    BY <1>3, NoStub DEF Commands
  <2>1. x \in Settings(Drv, r.reg) /\ DOMAIN x = Fields(Drv, r.reg)
    BY <1>1, ZeroSetting DEF Fields
  <2>2. Effect(r) = On("R", r.reg, x)
    BY <1>3, <2>a DEF Effect, Drv
  <2>3. WriteReg(Drv, r) = << w >>
    BY DEF WriteReg
  <2> HIDE DEF x
  <2>4. Written(w) = On("R", r.reg, x)
    BY <1>1, NotRaw, WrittenOn
  <2>5. Unit(Strict, << w >>, Written(w))
    BY <2>1, <1>1, PanelNames, UnitWhole
  <2> HIDE DEF w
  <2>6. Unit(Strict, WriteReg(Drv, r), Effect(r))
    BY <2>2, <2>3, <2>4, <2>5
  <2> QED BY <1>3, <2>a, <2>6 DEF IoctlSteps
<1>4. CASE r.name \notin {"READ_REG", "WRITE_REG"} /\ ~ Stub(Drv, r)
  <2>1. /\ Drv = "jbd4020"
        /\ r.name \in {"LUMIN_GET", "LUMIN_SET", "CURRENT_GET", "CURRENT_SET", "TEMP_READ", "FLIP_GET",
                       "FLIP_SET", "MIRROR_GET", "MIRROR_SET", "OFFSET_GET"}
    BY <1>4, <1>1 DEF Ioctls, Commands, Stub, Tame, Driver
  <2>2. "LUM" \in Regs(Drv) /\ "CUR" \in Regs(Drv) /\ "TEMP" \in Regs(Drv) /\ "FLIP" \in Regs(Drv) /\ "VO" \in Regs(Drv)
    BY <2>1, RegisterNames
  <2>3. CASE r.name \in {"LUMIN_GET", "CURRENT_GET", "TEMP_READ", "FLIP_GET", "MIRROR_GET", "OFFSET_GET"}
    <3>1. Unit(Strict, LuminGet, {}) /\ Unit(Strict, CurrentGet, {}) /\ Unit(Strict, TempRead, {}) /\ Unit(Strict, OffsetGet, {})
      BY <2>2, UnitColours DEF LuminGet, CurrentGet, TempRead, OffsetGet, PerPanel
    <3>2. Unit(Strict, FlipGet, {}) /\ Unit(Strict, MirrorGet, {})
      BY <1>1, <2>2, PanelNames, UnitGet DEF FlipGet, MirrorGet
    <3>3. Effect(r) = {}
      BY <2>3, NoEffect
    <3> QED BY <1>4, <2>3, <3>1, <3>2, <3>3 DEF IoctlSteps
  <2>4. CASE r.name \in {"LUMIN_SET", "CURRENT_SET"}
    <3>1. /\ r.name = "LUMIN_SET" => Unit(Strict, LuminSet(r), Effect(r))
          /\ r.name = "CURRENT_SET" => Unit(Strict, CurrentSet(r), Effect(r))
      BY <2>1, SetNumberUnits
    <3> QED BY <1>4, <2>4, <3>1 DEF IoctlSteps
  <2>5. CASE r.name \in {"FLIP_SET", "MIRROR_SET"}
    <3>1. /\ r.name = "FLIP_SET" => Unit(Strict, FlipSet(r), Effect(r))
          /\ r.name = "MIRROR_SET" => Unit(Strict, MirrorSet(r), Effect(r))
      BY <2>1, SetTurnUnits
    <3> QED BY <1>4, <2>5, <3>1 DEF IoctlSteps
  <2> QED BY <2>1, <2>3, <2>4, <2>5
<1> QED BY <1>0, <1>2, <1>3, <1>4

(* The sensors of the JBD4040 are switched on, and off at the end.         *)
LEMMA TemperatureUnit ==
  ASSUME Drv = "jbd4040"
  PROVE  /\ Unit(Plain, Show4040Temperature, {<<p, "PVT", "ctl", c>> : p \in Panel, c \in {0, 3}})
         /\ OffLast(Show4040Temperature)
<1> DEFINE set(c) == [ctl |-> c]
           w(p, c) == << Wr(p, "PVT", set(c), Skip(0)) >>
           ask(p) == << Rd(p, "PVT", Skip(2)), AskSensor, Get(p, "TEMP", Skip(0)) >>
           a == w("R", 3) \o w("G", 3) \o w("B", 3)
           b == ask("R") \o ask("G") \o ask("B")
           z == w("R", 0) \o w("G", 0) \o w("B", 0)
           All(c) == {<<p, "PVT", "ctl", c>> : p \in Panel}
<1>1. Show4040Temperature = a \o b \o z
  BY DEF Show4040Temperature, PerPanel
<1>2. Drv \in Driver /\ "PVT" \in Regs(Drv) /\ "TEMP" \in Regs(Drv)
  BY RegisterNames DEF Driver
<1>3. ASSUME NEW p \in Panel, NEW c \in {0, 3}
      PROVE  Unit(Plain, w(p, c), {<<p, "PVT", "ctl", c>>})
  <2>1. set(c) \in Settings(Drv, "PVT") /\ DOMAIN set(c) = Fields(Drv, "PVT")
    BY SensorSetting
  <2>2. On(p, "PVT", set(c)) = {<<p, "PVT", "ctl", c>>}
    BY DEF On
  <2> HIDE DEF set
  <2>3. p \in Place /\ p # "client" /\ "PVT" # "sysfs"
    BY DEF Place, Panel
  <2>4. Written(Wr(p, "PVT", set(c), Skip(0))) = {<<p, "PVT", "ctl", c>>}
    BY <2>2, <2>3, WrittenOn
  <2>5. Unit(Plain, w(p, c), Written(Wr(p, "PVT", set(c), Skip(0))))
    BY <2>1, <2>3, <1>2, UnitWhole
  <2> QED BY <2>4, <2>5
<1>4. ASSUME NEW p \in Panel
      PROVE  Unit(Plain, ask(p), {})
  <2> DEFINE x == Rd(p, "PVT", Skip(2))
             y == AskSensor
             v == Get(p, "TEMP", Skip(0))
             q == << x, y, v >>
  <2>1. x.op = "read" /\ y.op = "ask" /\ v.op = "get"
    BY DEF Rd, Get, AskSensor
  <2>2. x \in Plain /\ y \in Plain /\ v \in Plain
    <3>1. p \in Place /\ Skip(0) \in Outcomes /\ Skip(2) \in Outcomes
      BY FailOutcomes DEF Place
    <3>2. x \in StepSet(Drv) /\ v \in StepSet(Drv)
      BY <3>1, <1>2, ReadMade
    <3>3. y \in StepSet(Drv)
      BY DEF AskSensor, StepSet
    <3> HIDE DEF x, y, v
    <3> QED BY <2>1, <3>2, <3>3 DEF Plain
  <2> HIDE DEF x, y, v
  <2>3. q \in Seq(Plain) /\ Len(q) = 3 /\ q[1] = x /\ q[2] = y /\ q[3] = v
    BY <2>2
  <2> HIDE DEF q
  <2>4. Written(x) = {} /\ Written(y) = {} /\ Written(v) = {}
    BY <2>1 DEF Written
  <2>5. Pending(q) = {}
    <3>1. \A i \in 1 .. Len(q) : i \in {1, 2, 3}
      BY <2>3
    <3>2. \A e : e \notin Pending(q)
      BY <2>3, <2>4, <3>1, PendingIn
    <3> QED BY <3>2
  <2>6. Aligned(q)
    <3>1. \A i \in 1 .. Len(q) - 1 : (i = 1 /\ i + 1 = 2) \/ (i = 2 /\ i + 1 = 3)
      BY <2>3
    <3>2. ~ Partial(Drv, y) /\ ~ Partial(Drv, v)
      BY <2>1 DEF Partial
    <3> QED BY <2>1, <2>3, <3>1, <3>2 DEF Aligned
  <2>7. Fresh(Drv, x)
    BY <2>1 DEF Fresh, Partial
  <2>8. Unit(Plain, q, {})
    BY <2>1, <2>3, <2>5, <2>6, <2>7 DEF Unit
  <2> QED BY <2>8 DEF q, x, y, v
<1> HIDE DEF w, ask
<1>5. ASSUME NEW c \in {0, 3}
      PROVE  Unit(Plain, w("R", c) \o w("G", c) \o w("B", c), All(c))
  <2>1. Unit(Plain, w("R", c) \o w("G", c) \o w("B", c),
             {<<"R", "PVT", "ctl", c>>} \cup {<<"G", "PVT", "ctl", c>>} \cup {<<"B", "PVT", "ctl", c>>})
    BY <1>3, PanelNames, UnitThree
  <2>2. All(c) = {<<"R", "PVT", "ctl", c>>} \cup {<<"G", "PVT", "ctl", c>>} \cup {<<"B", "PVT", "ctl", c>>}
    BY DEF Panel
  <2> QED BY <2>1, <2>2
<1>6. Unit(Plain, b, {})
  BY <1>4, PanelNames, UnitGets
<1>7. Unit(Plain, a, All(3)) /\ Unit(Plain, z, All(0))
  BY <1>5
<1>8. {<<p, "PVT", "ctl", c>> : p \in Panel, c \in {0, 3}} = All(3) \cup {} \cup All(0)
  OBVIOUS
<1> HIDE DEF a, b, z
<1>9. Unit(Plain, Show4040Temperature, {<<p, "PVT", "ctl", c>> : p \in Panel, c \in {0, 3}})
  BY <1>1, <1>6, <1>7, <1>8, UnitThree
<1>10. OffLast(Show4040Temperature)
  <2> DEFINE y == a \o b
             q == y \o z
  <2>1. y \in Seq(Plain) /\ z \in Seq(Plain) /\ Pending(z) = All(0)
    BY <1>6, <1>7, UnitJoin DEF Unit
  <2>2. Show4040Temperature = q
    BY <1>1
  <2> HIDE DEF y
  <2>3. /\ Len(y) \in Nat /\ Len(z) \in Nat /\ Len(q) = Len(y) + Len(z)
        /\ \A i \in Len(y) + 1 .. Len(y) + Len(z) : i - Len(y) \in 1 .. Len(z) /\ q[i] = z[i - Len(y)]
    BY <2>1, Joined
  <2> HIDE DEF q
  <2>4. ASSUME NEW i \in 1 .. Len(q), NEW p \in Panel, <<p, "PVT", "ctl", 3>> \in Written(q[i])
        PROVE  \E j \in i + 1 .. Len(q) : <<p, "PVT", "ctl", 0>> \in Written(q[j])
    <3>1. i <= Len(y)
      <4>1. SUFFICES ASSUME i > Len(y) PROVE FALSE
        BY <2>3
      <4>2. i \in Len(y) + 1 .. Len(y) + Len(z)
        BY <4>1, <2>3
      <4>3. <<p, "PVT", "ctl", 3>> \in Pending(z)
        BY <4>2, <2>3, <2>4, PendingIn
      <4> QED BY <4>3, <2>1
    <3>2. <<p, "PVT", "ctl", 0>> \in Pending(z)
      BY <2>1
    <3>3. PICK k \in 1 .. Len(z) : <<p, "PVT", "ctl", 0>> \in Written(z[k])
      BY <3>2, PendingIn
    <3>4. k + Len(y) \in Len(y) + 1 .. Len(y) + Len(z) /\ (k + Len(y)) - Len(y) = k /\ k + Len(y) \in i + 1 .. Len(q)
      BY <3>1, <2>3
    <3> QED BY <3>3, <3>4, <2>3
  <2>5. OffLast(q)
    BY <2>4 DEF OffLast
  <2> QED BY <2>2, <2>5
<1> QED BY <1>9, <1>10

(* No sensor is touched by a list that writes nothing.                     *)
LEMMA QuietSensors ==
  ASSUME NEW q, \A p \in Panel : <<p, "PVT", "ctl", 3>> \notin Pending(q)
  PROVE  OffLast(q)
  BY PendingIn DEF OffLast

(* A show handler sets nothing but sensors.                                *)
LEMMA ShowUnit ==
  ASSUME NEW r, Requested(Drv, r), r.by = "show", r.name \in Shows(Drv)
  PROVE  Unit(Plain, ShowSteps(Drv, r), Sensors(r)) /\ OffLast(ShowSteps(Drv, r))
<1>1. Drv \in Driver /\ End \in {End, Note, Skip(0)} /\ Skip(0) \in {End, Note, Skip(0)}
  BY DEF Requested
<1>2. ASSUME NEW g \in Regs(Drv)
      PROVE  Unit(Plain, ShowColours(g), {}) /\ Unit(Plain, << Get("R", g, End) >>, {})
  <2>1. Unit(Plain, << Get("R", g, End) >>, {})
    BY <1>1, PanelNames, UnitGet
  <2>2. Unit(Plain, ShowColours(g), {})
    BY UnitColours DEF ShowColours, PerPanel
  <2> QED BY <2>1, <2>2
<1>3. Unit(Plain, ValShow, {})
  BY <1>1, PanelNames, UnitGet DEF ValShow
<1>4. /\ "LUM" \in Regs(Drv) /\ "CUR" \in Regs(Drv) /\ "TEMP" \in Regs(Drv) /\ "FLIP" \in Regs(Drv)
      /\ "OFFSET" \in Regs(Drv)
  BY <1>1, SharedWidths
<1>5. /\ Unit(Plain, ShowColours("LUM"), {}) /\ Unit(Plain, ShowColours("CUR"), {}) /\ Unit(Plain, ShowColours("TEMP"), {})
      /\ Unit(Plain, ShowColours("FLIP"), {}) /\ Unit(Plain, ShowColours("OFFSET"), {})
      /\ Unit(Plain, << Get("R", "FLIP", End) >>, {})
  BY <1>2, <1>4
<1>6. CASE r.name = "temperature" /\ Drv = "jbd4040"
  <2>1. Sensors(r) = {<<p, "PVT", "ctl", c>> : p \in Panel, c \in {0, 3}}
    BY <1>6 DEF Sensors
  <2>2. ShowSteps(Drv, r) = Show4040Temperature
    BY <1>6 DEF ShowSteps
  <2> QED BY <1>6, <2>1, <2>2, TemperatureUnit
<1>7. CASE ~ (r.name = "temperature" /\ Drv = "jbd4040")
  <2>1. Sensors(r) = {}
    BY <1>7 DEF Sensors
  <2>2. Unit(Plain, ShowFlip(Drv), {})
    BY <1>1, <1>5 DEF ShowFlip, Driver
  <2>3. r.name = "fps" => Unit(Plain, ShowFps, {})
    <3>1. SUFFICES ASSUME r.name = "fps" PROVE Unit(Plain, ShowFps, {})
      OBVIOUS
    <3>2. "FPS" \in Regs(Drv)
      BY <3>1, <1>1, RegisterNames DEF Shows, Driver
    <3> QED BY <3>2, <1>2 DEF ShowFps
  <2>4. r.name \in {"luminance", "current", "temperature", "flip", "mirror", "offset", "val", "fps"}
    BY DEF Shows
  <2>5. Unit(Plain, ShowSteps(Drv, r), {})
    BY <1>3, <1>5, <1>7, <1>1, <2>2, <2>3, <2>4 DEF ShowSteps, Driver
  <2>6. OffLast(ShowSteps(Drv, r))
    BY <2>5, QuietSensors DEF Unit
  <2> QED BY <2>1, <2>5, <2>6
<1> QED BY <1>6, <1>7

(* Lists for the panels that a store of the JBD4040 is given.              *)
Chosen(r, q, p) == IF p \in r.ps THEN q[p] ELSE << >>
LEMMA UnitNamed ==
  ASSUME NEW K, NEW r, r.ps \subseteq Panel, NEW q, NEW W, \A p \in Panel : Unit(K, q[p], W[p]),
         NEW E, \A e : e \in E <=> \E p \in r.ps : e \in W[p]
  PROVE  Unit(K, Chosen(r, q, "R") \o Chosen(r, q, "G") \o Chosen(r, q, "B"), E)
<1> DEFINE V(p) == IF p \in r.ps THEN W[p] ELSE {}
<1>1. ASSUME NEW p \in Panel
      PROVE  Unit(K, Chosen(r, q, p), V(p))
  <2>1. CASE p \in r.ps
    BY <2>1 DEF Chosen
  <2>2. CASE p \notin r.ps
    BY <2>2, UnitNone DEF Chosen
  <2> QED BY <2>1, <2>2
<1>2. E = V("R") \cup V("G") \cup V("B")
  BY DEF Panel
<1> HIDE DEF V
<1>3. Unit(K, Chosen(r, q, "R") \o Chosen(r, q, "G") \o Chosen(r, q, "B"), V("R") \cup V("G") \cup V("B"))
  BY <1>1, PanelNames, UnitThree
<1> QED BY <1>2, <1>3

(* The stores of one register of one panel, and of the JBD4040's panels.   *)
LEMMA StoreNumberUnits ==
  ASSUME NEW r, Requested(Drv, r), r.by = "store"
  PROVE  /\ r.name = "luminance" /\ Drv = "jbd4020" => Unit(Plain, Store4020Luminance(r), Effect(r))
         /\ r.name = "luminance" /\ Drv = "jbd4040" => Unit(Plain, Store4040Luminance(r), Effect(r))
         /\ r.name = "current" /\ Drv = "jbd4020" => Unit(Plain, Store4020Current(r), Effect(r))
         /\ r.name = "current" /\ Drv = "jbd4040" => Unit(Plain, Store4040Current(r), Effect(r))
         /\ r.name = "tx" /\ Drv = "jbd4040" => Unit(Plain, Store4040TxTiming(r), Effect(r))
         /\ r.name = "val" => Unit(Plain, ValStore, Effect(r))
<1>1. Drv \in Driver /\ "LUM" \in Regs(Drv) /\ "CUR" \in Regs(Drv) /\ "CUR" # "sysfs" /\ r.p \in Panel
      /\ Number(r, r.p) \in Nat /\ r.p \in Place /\ r.p # "client" /\ r.ps \subseteq Panel /\ ~ Stub(scen.drv, r)
  BY SharedWidths, RequestParts, NotRaw, NoStub DEF Requested
<1>2. ASSUME r.name = "luminance", Drv = "jbd4020"
      PROVE  Unit(Plain, Store4020Luminance(r), Effect(r))
  <2> DEFINE set == [val |-> Number(r, r.p) % 8192]
  <2>1. Effect(r) = On(r.p, "LUM", set)
    <3>1. Effect(r) = UNION {On(p, "LUM", [val |-> Number(r, p) % 8192]) : p \in {r.p}}
      BY <1>1, <1>2 DEF Effect, Drv
    <3> QED BY <3>1
  <2>2. Store4020Luminance(r) = AttrRmw(r.p, "LUM", set, 0)
    BY DEF Store4020Luminance
  <2>3. set \in Settings(Drv, "LUM")
    BY <1>1, LuminSetting
  <2> HIDE DEF set
  <2> QED BY <1>1, <2>1, <2>2, <2>3, UnitAttrRmw
<1>7. ASSUME r.name = "luminance", Drv = "jbd4040"
      PROVE  Unit(Plain, Store4040Luminance(r), Effect(r))
  <2> DEFINE set(p) == [val |-> Number(r, p) % 8192]
             q == [p \in Panel |-> AttrRmw(p, "LUM", set(p), 0)]
             W == [p \in Panel |-> On(p, "LUM", set(p))]
  <2>1. \A e : e \in Effect(r) <=> \E p \in r.ps : e \in W[p]
    <3>1. Effect(r) = UNION {On(p, "LUM", [val |-> Number(r, p) % 8192]) : p \in r.ps}
      BY <1>1, <1>7 DEF Effect, Drv
    <3>2. Effect(r) = UNION {On(p, "LUM", set(p)) : p \in r.ps}
      BY <3>1
    <3> HIDE DEF set
    <3>3. \A p \in r.ps : W[p] = On(p, "LUM", set(p))
      BY <1>1
    <3> HIDE DEF W
    <3> QED BY <3>2, <3>3
  <2>2. Store4040Luminance(r) = Chosen(r, q, "R") \o Chosen(r, q, "G") \o Chosen(r, q, "B")
    <3> DEFINE X(p) == IF p \in r.ps THEN AttrRmw(p, "LUM", set(p), 0) ELSE << >>
    <3>1. Store4040Luminance(r) = X("R") \o X("G") \o X("B")
      BY DEF Store4040Luminance, PerNamed, PerPanel
    <3>2. \A p \in Panel : Chosen(r, q, p) = X(p)
      BY DEF Chosen
    <3> HIDE DEF X, q
    <3> QED BY <3>1, <3>2, PanelNames
  <2>3. \A p \in Panel : Unit(Plain, q[p], W[p])
    <3> SUFFICES ASSUME NEW p \in Panel PROVE Unit(Plain, q[p], W[p])
      OBVIOUS
    <3>1. set(p) \in Settings(Drv, "LUM")
      BY <1>1, RequestParts, LuminSetting
    <3> HIDE DEF set
    <3> QED BY <1>1, <3>1, UnitAttrRmw
  <2> HIDE DEF q, W
  <2> QED BY <1>1, <2>1, <2>2, <2>3, UnitNamed
<1>3. ASSUME r.name = "current", Drv = "jbd4020"
      PROVE  Unit(Plain, Store4020Current(r), Effect(r))
  <2> DEFINE set == [val |-> Number(r, r.p) % 256]
  <2>1. Effect(r) = On(r.p, "CUR", set)
    <3>1. Effect(r) = UNION {On(p, "CUR", [val |-> Number(r, p) % 256]) \cup {} : p \in {r.p}}
      BY <1>1, <1>3 DEF Effect, Drv
    <3> QED BY <3>1
  <2>2. Store4020Current(r) = AttrRmw(r.p, "CUR", set, 0)
    BY DEF Store4020Current
  <2>3. set \in Settings(Drv, "CUR")
    BY <1>1, CurrentSetting
  <2> HIDE DEF set
  <2> QED BY <1>1, <2>1, <2>2, <2>3, UnitAttrRmw
<1>4. ASSUME r.name = "current", Drv = "jbd4040"
      PROVE  Unit(Plain, Store4040Current(r), Effect(r))
  <2> DEFINE a(p) == Number(r, p) % 256
             b(p) == (Number(r, p) \div 256) % 256
             set(p) == [val |-> a(p), rest |-> b(p)]
             w(p) == Wr(p, "CUR", set(p), Skip(0))
             q == [p \in Panel |-> << w(p) >>]
             W == [p \in Panel |-> On(p, "CUR", [val |-> a(p)]) \cup On(p, "CUR", [rest |-> b(p)])]
  <2>1. \A e : e \in Effect(r) <=> \E p \in r.ps : e \in W[p]
    <3>1. Effect(r) = UNION {On(p, "CUR", [val |-> Number(r, p) % 256])
                             \cup On(p, "CUR", [rest |-> (Number(r, p) \div 256) % 256]) : p \in r.ps}
      BY <1>1, <1>4 DEF Effect, Drv
    <3>2. Effect(r) = UNION {On(p, "CUR", [val |-> a(p)]) \cup On(p, "CUR", [rest |-> b(p)]) : p \in r.ps}
      BY <3>1
    <3> HIDE DEF a, b
    <3>3. \A p \in r.ps : W[p] = On(p, "CUR", [val |-> a(p)]) \cup On(p, "CUR", [rest |-> b(p)])
      BY <1>1
    <3> HIDE DEF W
    <3> QED BY <3>2, <3>3
  <2>2. Store4040Current(r) = Chosen(r, q, "R") \o Chosen(r, q, "G") \o Chosen(r, q, "B")
    <3> DEFINE X(p) == IF p \in r.ps THEN << w(p) >> ELSE << >>
    <3>1. Store4040Current(r) = X("R") \o X("G") \o X("B")
      BY DEF Store4040Current, PerNamed, PerPanel
    <3>2. \A p \in Panel : Chosen(r, q, p) = X(p)
      BY DEF Chosen
    <3> HIDE DEF X, q
    <3> QED BY <3>1, <3>2, PanelNames
  <2>3. \A p \in Panel : Unit(Plain, q[p], W[p])
    <3> SUFFICES ASSUME NEW p \in Panel PROVE Unit(Plain, q[p], W[p])
      OBVIOUS
    <3>1. set(p) \in Settings("jbd4040", "CUR") /\ p \in Place /\ p # "client"
      BY <1>1, RequestParts, NotRaw, CurrentSetting4040
    <3> HIDE DEF a, b
    <3>2. On(p, "CUR", set(p)) = W[p]
      BY DEF On
    <3>3. DOMAIN set(p) = Fields(Drv, "CUR")
      BY <1>1, SharedWidths
    <3> HIDE DEF set, W
    <3>4. Written(w(p)) = On(p, "CUR", set(p))
      BY <1>1, <3>1, WrittenOn
    <3>5. Unit(Plain, << w(p) >>, Written(w(p)))
      BY <1>1, <1>4, <3>1, <3>3, UnitWhole
    <3> QED BY <3>2, <3>4, <3>5
  <2> HIDE DEF q, W
  <2> QED BY <1>1, <2>1, <2>2, <2>3, UnitNamed
<1>5. ASSUME r.name = "tx", Drv = "jbd4040"
      PROVE  Unit(Plain, Store4040TxTiming(r), Effect(r))
  <2> DEFINE set == [val |-> r.n]
             w == Wr("client", "TX", set, Skip(0))
  <2>1. Effect(r) = UNION {On(p, "TX", set) : p \in Panel}
    BY <1>1, <1>5 DEF Effect
  <2>2. Store4040TxTiming(r) = << w >>
    BY DEF Store4040TxTiming
  <2>3. set \in Settings(Drv, "TX")
    BY <1>5, TxSetting DEF Requested
  <2>4. DOMAIN set = Fields(Drv, "TX") /\ "TX" \in Regs(Drv) /\ "TX" # "sysfs"
    BY <1>5, Widths4040, RegisterNames
  <2> HIDE DEF set
  <2>5. Written(w) = UNION {On(p, "TX", set) : p \in Panel}
    BY <2>4, WrittenOn
  <2>6. Unit(Plain, << w >>, Written(w))
    BY <1>1, <2>3, <2>4, PanelNames, UnitWhole
  <2> QED BY <2>1, <2>2, <2>5, <2>6
<1>6. ASSUME r.name = "val"
      PROVE  Unit(Plain, ValStore, Effect(r))
  <2> DEFINE w == Wr("R", "sysfs", << >>, Skip(0))
             set == [f \in DOMAIN Width[Drv][sysfsReg] |-> 0]
  <2>1. Effect(r) = On("R", sysfsReg, set)
    BY <1>1, <1>6 DEF Effect, Drv
  <2>2. ValStore = << w >>
    BY DEF ValStore
  <2>3. w.op = "write" /\ w.at = "R" /\ w.reg = "sysfs"
    BY DEF Wr
  <2>4. w \in StepSet(Drv)
    BY FailOutcomes, PanelNames, WriteMade
  <2> HIDE DEF w, set
  <2>5. set = [f \in Fields(Drv, sysfsReg) |-> 0]
    BY DEF set, Fields
  <2>6. Written(w) = On("R", sysfsReg, set)
    BY <2>3, <2>5 DEF Written, Target
  <2>7. w \in Plain /\ Fresh(Drv, w) /\ w.op # "ask"
    BY <2>3, <2>4 DEF Plain, Fresh, Partial
  <2> QED BY <2>1, <2>2, <2>6, <2>7, UnitOne
<1> QED BY <1>2, <1>3, <1>4, <1>5, <1>6, <1>7

(* Flip and mirror of the JBD4040.                                         *)
LEMMA StoreTurnUnits ==
  ASSUME NEW r, Requested(Drv, r), r.by = "store", Drv = "jbd4040"
  PROVE  /\ r.name = "flip" => Unit(Plain, Store4040Flip(r), Effect(r))
         /\ r.name = "mirror" => Unit(Plain, Store4040Mirror(r), Effect(r))
<1>1. Drv \in Driver /\ "FLIP" \in Regs(Drv)
  BY RegisterNames DEF Driver
<1> DEFINE Y(set, p) == AttrRmw(p, "FLIP", set[p], 0)
           Fine(set) == \A p \in Panel : set[p] \in Settings(Drv, "FLIP")
           W(set) == On("R", "FLIP", set["R"]) \cup On("G", "FLIP", set["G"]) \cup On("B", "FLIP", set["B"])
<1>2. ASSUME NEW set, Fine(set)
      PROVE  Unit(Plain, Y(set, "R") \o Y(set, "G") \o Y(set, "B"), W(set))
  <2>1. ASSUME NEW p \in Panel
        PROVE  Unit(Plain, Y(set, p), On(p, "FLIP", set[p]))
    BY <1>1, <1>2, UnitAttrRmw
  <2> HIDE DEF Y
  <2> QED BY <2>1, PanelNames, UnitThree
<1> DEFINE flips == [p \in Panel |-> [flip |-> r.en]]
           mirrors == [p \in Panel |-> [mirror |-> MirrorBit(p, r.en)]]
<1>3. Fine(flips) /\ Fine(mirrors)
  BY TurnSettings
<1>4. ASSUME r.name = "flip"
      PROVE  Unit(Plain, Store4040Flip(r), Effect(r))
  <2>1. Store4040Flip(r) = Y(flips, "R") \o Y(flips, "G") \o Y(flips, "B")
    BY DEF Store4040Flip, PerPanel, Panel
  <2>2. Effect(r) = W(flips)
    BY <1>4, NoStub, TurnEffect
  <2> HIDE DEF Y, W, flips, Fine
  <2> QED BY <2>1, <2>2, <1>2, <1>3
<1>5. ASSUME r.name = "mirror"
      PROVE  Unit(Plain, Store4040Mirror(r), Effect(r))
  <2>1. Store4040Mirror(r) = Y(mirrors, "R") \o Y(mirrors, "G") \o Y(mirrors, "B")
    BY DEF Store4040Mirror, PerPanel, Panel
  <2>2. Effect(r) = W(mirrors)
    BY <1>5, NoStub, TurnEffect
  <2> HIDE DEF Y, W, mirrors, Fine
  <2> QED BY <2>1, <2>2, <1>2, <1>3
<1> QED BY <1>4, <1>5

(* The offset of the JBD4040: both numbers, or nothing.                    *)
LEMMA StoreOffset4040 ==
  ASSUME NEW r, Requested(Drv, r), r.by = "store", r.name = "offset", Drv = "jbd4040"
  PROVE  Unit(Plain, Store4040Offset(r), Effect(r))
<1>1. Drv \in Driver /\ "OFFSET" \in Regs(Drv) /\ "OFFSET" # "sysfs" /\ r.ps \subseteq Panel
      /\ ~ Stub(scen.drv, r) /\ \A p \in Panel : p \in Place /\ p # "client"
  BY SharedWidths, RequestParts, NotRaw, NoStub DEF Requested
<1> DEFINE a(p) == Number(r, p) % 32
           b(p) == Vertical(r, p) % 32
           set(p) == [h |-> a(p), v |-> b(p)]
           w(p) == Wr(p, "OFFSET", set(p), Skip(0))
           q == [p \in Panel |-> IF r.en = 0 \/ r.short THEN << >> ELSE << w(p) >>]
<1>2. Store4040Offset(r) = Chosen(r, q, "R") \o Chosen(r, q, "G") \o Chosen(r, q, "B")
  BY PanelNames DEF Store4040Offset, PerNamed, PerPanel, Chosen
<1>3. CASE r.en = 0 \/ r.short
  <2> DEFINE W == [p \in Panel |-> {}]
  <2>1. \A e : e \in Effect(r) <=> \E p \in r.ps : e \in W[p]
    <3>1. Effect(r) = {}
      BY <1>1, <1>3 DEF Effect, Drv
    <3> QED BY <1>1, <3>1
  <2>2. \A p \in Panel : q[p] = << >> /\ W[p] = {}
    BY <1>3
  <2> HIDE DEF q, W
  <2>3. \A p \in Panel : Unit(Plain, q[p], W[p])
    BY <2>2, UnitNone
  <2> QED BY <1>1, <1>2, <2>1, <2>3, UnitNamed
<1>4. CASE ~ (r.en = 0 \/ r.short)
  <2> DEFINE W == [p \in Panel |-> On(p, "OFFSET", set(p))]
  <2>1. \A e : e \in Effect(r) <=> \E p \in r.ps : e \in W[p]
    <3>1. r.en = 1
      BY <1>4 DEF Requested
    <3>2. Effect(r) = UNION {UNION {On(p, path, [h |-> Number(r, p) % 32, v |-> Vertical(r, p) % 32])
                                      : path \in {"OFFSET"}} : p \in r.ps}
      BY <1>1, <1>4, <3>1 DEF Effect, Drv
    <3>3. Effect(r) = UNION {UNION {On(p, path, set(p)) : path \in {"OFFSET"}} : p \in r.ps}
      BY <3>2
    <3> HIDE DEF set
    <3>4. \A p \in r.ps : W[p] = On(p, "OFFSET", set(p))
      BY <1>1
    <3> HIDE DEF W
    <3> QED BY <3>3, <3>4
  <2>2. \A p \in Panel : Unit(Plain, q[p], W[p])
    <3> SUFFICES ASSUME NEW p \in Panel PROVE Unit(Plain, q[p], W[p])
      OBVIOUS
    <3>1. set(p) \in Settings(Drv, "OFFSET")
      BY RequestParts, OffsetSetting4040
    <3>2. DOMAIN set(p) = Fields(Drv, "OFFSET")
      BY Widths4040
    <3>3. q[p] = << w(p) >> /\ W[p] = On(p, "OFFSET", set(p))
      BY <1>4
    <3> HIDE DEF set, q, W
    <3>4. Written(w(p)) = On(p, "OFFSET", set(p))
      BY <1>1, WrittenOn
    <3>5. Unit(Plain, << w(p) >>, Written(w(p)))
      BY <1>1, <3>1, <3>2, UnitWhole
    <3> QED BY <3>3, <3>4, <3>5
  <2> HIDE DEF q, W
  <2> QED BY <1>1, <1>2, <2>1, <2>2, UnitNamed
<1> QED BY <1>3, <1>4

(* The attribute that selects a register does no more.                     *)
LEMMA StoreReg ==
  ASSUME NEW r, Requested(Drv, r), r.by = "store", r.name = "reg"
  PROVE  Unit(Selects(r), RegStore(r), {}) /\ Effect(r) = {}
<1> DEFINE s == Select(r.reg)
<1>1. s.op = "select" /\ s \in Selects(r)
  BY DEF Select, StepSet, Requested, Selects
<1>2. RegStore(r) = << s >>
  BY DEF RegStore
<1> HIDE DEF s
<1>3. Fresh(Drv, s) /\ Written(s) = {} /\ s.op # "ask"
  BY <1>1 DEF Fresh, Partial, Written
<1>4. Unit(Selects(r), << s >>, Written(s))
  BY <1>1, <1>3, UnitOne
<1> QED BY <1>2, <1>3, <1>4, NoEffect

(* The fields of VO that the offset of the JBD4020 copies from SRAM.       *)
Named(r) == {e \in Effect(r) : <<e[1], e[2], e[3]>> \notin CopyNames(r)}

(* It is for both paths of one panel.                                      *)
LEMMA OffsetEffect ==
  ASSUME NEW r, r.by # "show", r.name = "offset", Drv = "jbd4020"
  PROVE  LET on == [en |-> r.en]
             hv == [h |-> Number(r, r.p) % 32, v |-> Vertical(r, r.p) % 32]
         IN Effect(r) = On(r.p, "OFFSET", on) \cup On(r.p, "VO", on)
                        \cup (IF r.en = 1 /\ ~ r.short THEN On(r.p, "OFFSET", hv) \cup On(r.p, "VO", hv) ELSE {})
<1> DEFINE on == [en |-> r.en]
           hv(p) == [h |-> Number(r, p) % 32, v |-> Vertical(r, p) % 32]
           named == IF scen.drv = "jbd4020" THEN {r.p} ELSE r.ps
           paths == IF scen.drv = "jbd4020" THEN {"OFFSET", "VO"} ELSE {"OFFSET"}
           given == r.en = 1 /\ ~ r.short
<1>1. ~ Stub(scen.drv, r)
  BY NoStub
<1>2. Effect(r) = (IF scen.drv = "jbd4020" THEN UNION {On(r.p, path, on) : path \in paths} ELSE {})
                  \cup (IF given THEN UNION {UNION {On(p, path, hv(p)) : path \in paths} : p \in named} ELSE {})
  BY <1>1, Zenon DEF Effect
<1>3. scen.drv = "jbd4020" /\ named = {r.p} /\ paths = {"OFFSET", "VO"}
  BY DEF Drv
<1> HIDE DEF named, paths, hv, on, given
<1>4. Effect(r) = On(r.p, "OFFSET", on) \cup On(r.p, "VO", on)
                  \cup (IF given THEN On(r.p, "OFFSET", hv(r.p)) \cup On(r.p, "VO", hv(r.p)) ELSE {})
  BY <1>2, <1>3
<1> QED BY <1>4 DEF hv, on, given

(* The offset of the JBD4020 writes the rest, on one panel, and has read   *)
(* VO when it writes it.                                                   *)
LEMMA StoreOffset4020 ==
  ASSUME NEW r, Requested(Drv, r), r.by = "store", r.name = "offset", Drv = "jbd4020"
  PROVE  LET q == Store4020Offset(r) IN
         /\ Unit(Copying(r), q, Named(r)) /\ Len(q) = 4 /\ CopyNames(r) # {}
         /\ q[1].op = "read" /\ q[2].op = "write" /\ q[2].reg = "OFFSET" /\ q[3].op = "readhv"
         /\ q[4].op = "write" /\ q[4].reg = "VO"
         /\ \A i \in 1 .. 4 : q[i].at = r.p
<1>1. Drv \in Driver /\ "OFFSET" \in Regs(Drv) /\ "VO" \in Regs(Drv) /\ r.p \in Panel /\ r.en \in {0, 1}
      /\ Number(r, r.p) \in Nat /\ Vertical(r, r.p) \in Nat /\ r.p \in Place /\ r.p # "client"
  BY RegisterNames, RequestParts, NotRaw DEF Requested, Driver
<1> DEFINE a == Number(r, r.p) % 32
           b == Vertical(r, r.p) % 32
           set == IF r.en = 0 \/ r.short THEN [en |-> r.en] ELSE [en |-> 1, h |-> a, v |-> b]
           on == [en |-> r.en]
           s1 == Rd(r.p, "OFFSET", Skip(3))
           s2 == Wr(r.p, "OFFSET", set, Skip(0))
           s3 == [Rd(r.p, "VO", Skip(1)) EXCEPT !.op = "readhv"]
           s4 == Wr(r.p, "VO", on, Skip(0))
<1>2. set \in Settings(Drv, "OFFSET") /\ on \in Settings(Drv, "VO")
  BY <1>1, OffsetSettings4020, SwitchSettings4020
<1>3. /\ Skip(3) \in Outcomes /\ Skip(1) \in Outcomes /\ Skip(0) \in Outcomes
      /\ s1 \in StepSet(Drv) /\ s3 \in StepSet(Drv)
  BY <1>1, FailOutcomes, ReadMade
<1>4. Named(r) = On(r.p, "OFFSET", set) \cup On(r.p, "VO", on)
  <2>1. CopyNames(r) = {<<r.p, "VO", "h">>, <<r.p, "VO", "v">>}
    BY DEF CopyNames
  <2>2. Effect(r) = On(r.p, "OFFSET", on) \cup On(r.p, "VO", on)
                    \cup (IF r.en = 1 /\ ~ r.short
                          THEN On(r.p, "OFFSET", [h |-> a, v |-> b]) \cup On(r.p, "VO", [h |-> a, v |-> b]) ELSE {})
    BY OffsetEffect
  <2> HIDE DEF a, b
  <2>3. On(r.p, "VO", on) = {<<r.p, "VO", "en", r.en>>} /\ On(r.p, "OFFSET", on) = {<<r.p, "OFFSET", "en", r.en>>}
    BY DEF On
  <2>4. On(r.p, "OFFSET", [h |-> a, v |-> b]) = {<<r.p, "OFFSET", "h", a>>, <<r.p, "OFFSET", "v", b>>}
        /\ On(r.p, "VO", [h |-> a, v |-> b]) = {<<r.p, "VO", "h", a>>, <<r.p, "VO", "v", b>>}
    BY DEF On
  <2>5. On(r.p, "OFFSET", set) = {<<r.p, "OFFSET", "en", r.en>>}
          \cup (IF r.en = 1 /\ ~ r.short THEN {<<r.p, "OFFSET", "h", a>>, <<r.p, "OFFSET", "v", b>>} ELSE {})
    BY <1>1 DEF On
  <2> HIDE DEF set, on
  <2>6. ASSUME r.en = 1 /\ ~ r.short
        PROVE  Named(r) = On(r.p, "OFFSET", set) \cup On(r.p, "VO", on)
    <3>1. Effect(r) = {<<r.p, "OFFSET", "en", r.en>>, <<r.p, "VO", "en", r.en>>, <<r.p, "OFFSET", "h", a>>,
                       <<r.p, "OFFSET", "v", b>>, <<r.p, "VO", "h", a>>, <<r.p, "VO", "v", b>>}
      BY <2>2, <2>3, <2>4, <2>6
    <3>2. Named(r) = {<<r.p, "OFFSET", "en", r.en>>, <<r.p, "VO", "en", r.en>>, <<r.p, "OFFSET", "h", a>>,
                      <<r.p, "OFFSET", "v", b>>}
      BY <2>1, <3>1 DEF Named
    <3> QED BY <2>3, <2>5, <2>6, <3>2
  <2>7. ASSUME ~ (r.en = 1 /\ ~ r.short)
        PROVE  Named(r) = On(r.p, "OFFSET", set) \cup On(r.p, "VO", on)
    <3>1. Effect(r) = {<<r.p, "OFFSET", "en", r.en>>, <<r.p, "VO", "en", r.en>>}
      BY <2>2, <2>3, <2>7
    <3>2. Named(r) = {<<r.p, "OFFSET", "en", r.en>>, <<r.p, "VO", "en", r.en>>}
      BY <2>1, <3>1 DEF Named
    <3> QED BY <2>3, <2>5, <2>7, <3>2
  <2> QED BY <2>6, <2>7
<1> HIDE DEF set, on
<1>5. s2 \in StepSet(Drv) /\ s4 \in StepSet(Drv)
  BY <1>1, <1>2, <1>3, WriteMade
<1>6. /\ s1.op = "read" /\ s2.op = "write" /\ s3.op = "readhv" /\ s4.op = "write" /\ s2.reg = "OFFSET" /\ s4.reg = "VO"
      /\ s1.at = r.p /\ s2.at = r.p /\ s3.at = r.p /\ s4.at = r.p
  BY DEF Rd, Wr
<1>7. Written(s2) = On(r.p, "OFFSET", set) /\ Written(s4) = On(r.p, "VO", on)
  BY <1>1, WrittenOn
<1>8. AttrRmw(r.p, "OFFSET", set, 2) = << s1, s2 >>
  BY DEF AttrRmw
<1>9. Store4020Offset(r) = << s1, s2 >> \o << s3, s4 >>
  BY <1>8 DEF Store4020Offset, set, on
<1> HIDE DEF s1, s2, s3, s4
<1> DEFINE q == << s1, s2, s3, s4 >>
<1>10. s1 \in Copying(r) /\ s2 \in Copying(r) /\ s3 \in Copying(r) /\ s4 \in Copying(r)
  BY <1>3, <1>5, <1>6 DEF Copying
<1>11. Store4020Offset(r) = q
  BY <1>9, <1>10, TwoPairs
<1>12. q \in Seq(Copying(r)) /\ Len(q) = 4 /\ q[1] = s1 /\ q[2] = s2 /\ q[3] = s3 /\ q[4] = s4
  BY <1>10
<1> HIDE DEF q
<1>13. \A i \in 1 .. 4 : i \in {1, 2, 3, 4}
  OBVIOUS
<1>14. \A i \in 1 .. 4 : q[i].at = r.p /\ q[i].op # "ask"
  BY <1>6, <1>12, <1>13
<1>15. Aligned(q)
  <2>1. \A i \in 1 .. Len(q) - 1 : i \in 1 .. 4 /\ i + 1 \in 1 .. 4
    BY <1>12
  <2> QED BY <2>1, <1>1, <1>14 DEF Aligned
<1>16. Pending(q) = Named(r)
  <2>1. Written(s1) = {} /\ Written(s3) = {}
    BY <1>6 DEF Written
  <2>2. \A e : e \in Pending(q) <=> e \in Written(s2) \/ e \in Written(s4)
    <3>1. 1 .. Len(q) = {1, 2, 3, 4}
      BY <1>12
    <3> QED BY <2>1, <3>1, <1>12, PendingIn
  <2> QED BY <2>2, <1>4, <1>7
<1>17. Fresh(Drv, s1)
  BY <1>6 DEF Fresh, Partial
<1>18. Unit(Copying(r), q, Named(r))
  BY <1>6, <1>12, <1>15, <1>16, <1>17 DEF Unit
<1>19. CopyNames(r) # {}
  BY DEF CopyNames
<1> QED BY <1>6, <1>11, <1>12, <1>14, <1>18, <1>19

(* No other request copies fields.                                         *)
LEMMA NoCopies ==
  ASSUME NEW r, ~ (r.by = "store" /\ r.name = "offset" /\ Drv = "jbd4020")
  PROVE  CopyNames(r) = {} /\ Named(r) = Effect(r)
<1>1. CopyNames(r) = {}
  BY DEF CopyNames
<1> QED BY <1>1 DEF Named

(* What the store handlers set.                                            *)
LEMMA StoreUnit ==
  ASSUME NEW r, Requested(Drv, r), r.by = "store", r.name \in Stores(Drv), r.name # "fps"
  PROVE  Unit(Kind(r), StoreSteps(Drv, r), Named(r))
<1>1. Drv \in Driver
  BY DEF Requested
<1>2. CASE r.name = "reg"
  <2>1. Kind(r) = Selects(r) /\ Named(r) = Effect(r)
    BY <1>2, NoCopies DEF Kind
  <2>2. StoreSteps(Drv, r) = RegStore(r)
    BY <1>2 DEF StoreSteps
  <2> QED BY <1>2, <2>1, <2>2, StoreReg
<1>3. CASE r.name # "reg"
  <2>1. Kind(r) = IF CopyNames(r) # {} THEN Copying(r) ELSE Plain
    BY <1>3 DEF Kind
  <2>2. CASE r.name = "offset"
    <3>1. CASE Drv = "jbd4020"
      BY <2>1, <2>2, <3>1, StoreOffset4020 DEF StoreSteps
    <3>2. CASE Drv = "jbd4040"
      <4>1. Named(r) = Effect(r) /\ CopyNames(r) = {} /\ StoreSteps(Drv, r) = Store4040Offset(r)
        BY <2>2, <3>2, NoCopies DEF StoreSteps
      <4> QED BY <2>1, <2>2, <3>2, <4>1, StoreOffset4040
    <3> QED BY <1>1, <3>1, <3>2 DEF Driver
  <2>3. CASE r.name # "offset"
    <3>1. Named(r) = Effect(r) /\ CopyNames(r) = {}
      BY <2>3, NoCopies
    <3>2. CASE Drv = "jbd4020"
      <4>1. r.name \in {"luminance", "current", "flip", "mirror", "val"}
        BY <1>3, <2>3, <3>2 DEF Stores
      <4> QED BY <2>1, <3>1, <3>2, <4>1, StoreNumberUnits, SetTurnUnits DEF StoreSteps
    <3>3. CASE Drv = "jbd4040"
      <4>1. r.name \in {"luminance", "current", "flip", "mirror", "val", "tx"}
        BY <1>3, <2>3, <3>3 DEF Stores
      <4> QED BY <2>1, <3>1, <3>3, <4>1, StoreNumberUnits, StoreTurnUnits DEF StoreSteps
    <3> QED BY <1>1, <3>2, <3>3 DEF Driver
  <2> QED BY <2>2, <2>3
<1> QED BY <1>2, <1>3

(* store_fps sets the frame rate of all panels with its last step.         *)
LEMMA FpsPending ==
  ASSUME NEW r, r.by = "store", r.name = "fps", Drv = "jbd4040", [idx |-> r.n] \in Settings("jbd4040", "FPS"),
         NEW q \in Seq(StepSet(Drv)), Len(q) \in 0 .. 4, \A i \in 1 .. Len(q) : q[i] = StoreFps(r)[i + (4 - Len(q))]
  PROVE  /\ q \in Seq(Plain)
         /\ Pending(q) = IF q = << >> THEN {} ELSE Effect(r)
<1> DEFINE s == StoreFps(r)
           n == Len(q)
           set == [idx |-> r.n]
<1>1. /\ s \in Seq(StepSet(Drv)) /\ s[1].op = "take" /\ s[2].op = "read" /\ s[3].op = "give" /\ s[4].op = "write"
      /\ s[4].at = "client" /\ s[4].reg = "FPS" /\ s[4].set = set
  BY FpsSteps
<1>2. n \in 0 .. 4 /\ \A i \in 1 .. n : q[i] = s[i + (4 - n)] /\ q[i] \in StepSet(Drv)
  BY LenProperties
<1>3. Effect(r) = UNION {On(p, "FPS", set) : p \in Panel}
  BY NoStub DEF Effect
<1> HIDE DEF s, set
<1>4. Written(s[1]) = {} /\ Written(s[2]) = {} /\ Written(s[3]) = {}
  BY <1>1 DEF Written
<1>5. Written(s[4]) = Effect(r)
  BY <1>1, <1>3 DEF Written, Target
<1>6. \A i \in 1 .. n : i + (4 - n) \in {1, 2, 3, 4} /\ (i + (4 - n) = 4 <=> i = n)
  <2> HIDE DEF n
  <2> QED BY <1>2
<1>7. \A i \in 1 .. n : q[i] \in Plain
  BY <1>1, <1>2, <1>6 DEF Plain
<1>8. q \in Seq(Plain)
  BY <1>7, LenProperties, IsASeq
<1>9. q = << >> <=> n = 0
  BY EmptySeq
<1>10. CASE n = 0
  <2>1. \A e : e \notin Pending(q)
    BY <1>10, PendingIn
  <2> QED BY <1>8, <1>9, <1>10, <2>1
<1>11. CASE n # 0
  <2>1. n \in 1 .. n /\ q[n] = s[4]
    BY <1>2, <1>6, <1>11
  <2>2. \A e : e \in Pending(q) <=> e \in Written(s[4])
    <3>1. \A i \in 1 .. n : Written(q[i]) = {} \/ i = n
      BY <1>2, <1>4, <1>6
    <3> QED BY <2>1, <3>1, PendingIn
  <2> QED BY <1>5, <1>8, <1>9, <1>11, <2>2
<1> QED BY <1>10, <1>11

(* The value that a request gives a field, if it is for that field.        *)
Value(r, p, g, f) ==
  IF r.name \in {"WRITE_REG", "val"} THEN 0
  ELSE CASE f = "val"    -> IF g = "LUM" THEN Number(r, p) % 8192 ELSE IF g = "CUR" THEN Number(r, p) % 256 ELSE r.n
         [] f = "rest"   -> (Number(r, p) \div 256) % 256
         [] f = "flip"   -> r.en
         [] f = "mirror" -> MirrorBit(p, r.en)
         [] f = "en"     -> r.en
         [] f = "h"      -> Number(r, p) % 32
         [] f = "v"      -> Vertical(r, p) % 32
         [] f = "idx"    -> r.n
         [] OTHER        -> 0

(* Only raw accesses set the bits that no setting is about; only offset    *)
(* sets numbers of an offset, too.                                         *)
Raw(r)       == r.name \in {"WRITE_REG", "val"}
Valued(r, e) ==
  /\ e = <<e[1], e[2], e[3], e[4]>> /\ e[1] \in Panel /\ e[2] \in Regs(Drv) /\ e[3] \in Fields(Drv, e[2])
  /\ e[4] = Value(r, e[1], e[2], e[3])
  /\ e[3] \in {"scan", "ctl"} => Raw(r)
  /\ e[3] \in {"h", "v"} => Raw(r) \/ r.name = "offset"

(* Fields of one register with their values.                               *)
LEMMA ValuedOn ==
  ASSUME NEW r, NEW p \in Panel, NEW g \in Regs(Drv), NEW set, DOMAIN set \subseteq Fields(Drv, g),
         \A f \in DOMAIN set : /\ set[f] = Value(r, p, g, f)
                               /\ f \in {"scan", "ctl"} => Raw(r)
                               /\ f \in {"h", "v"} => Raw(r) \/ r.name = "offset"
  PROVE  \A e \in On(p, g, set) : Valued(r, e)
<1>1. ASSUME NEW e \in On(p, g, set)
      PROVE  Valued(r, e)
  <2>1. PICK f \in DOMAIN set : e = <<p, g, f, set[f]>>
    BY <1>1 DEF On
  <2> QED BY <2>1 DEF Valued
<1> QED BY <1>1

(* A request gives a field one value.                                      *)
LEMMA EffectValued ==
  ASSUME NEW r, Requested(Drv, r), r.by # "show", Tame(r), sysfsReg \in Regs(Drv),
         \/ r.by = "ioctl" /\ r.name \in Ioctls
         \/ r.by = "store" /\ r.name \in Stores(Drv),
         NEW e \in Effect(r)
  PROVE  Valued(r, e)
<1>1. Drv \in Driver /\ r.p \in Panel /\ r.reg \in Regs(Drv) /\ r.en \in {0, 1} /\ "R" \in Panel
  BY PanelNames DEF Requested
<1>2. /\ {"LUM", "CUR", "FLIP", "OFFSET", "TEMP"} \subseteq Regs(Drv)
      /\ Fields(Drv, "LUM") = {"val", "rest"} /\ Fields(Drv, "CUR") = {"val", "rest"}
      /\ Fields(Drv, "FLIP") = {"flip", "mirror"} /\ {"h", "v"} \subseteq Fields(Drv, "OFFSET")
  BY <1>1, SharedWidths
<1>0. ~ Stub(scen.drv, r) /\ r.name # "OFFSET_SET"
  <2>1. ~ Stub(scen.drv, r)
    BY DEF Effect
  <2> QED BY <1>1, <2>1 DEF Tame, Stub, Commands, Stores, Drv
<1>a. r.ps \subseteq Panel /\ {r.p} \subseteq Panel
  BY DEF Requested
<1> DEFINE named == IF scen.drv = "jbd4020" THEN {r.p} ELSE r.ps
<1>b. named \subseteq Panel
  BY <1>a
<1>3. CASE r.name = "LUMIN_SET"
  <2> DEFINE n(p) == Number(r, p) % 8192
  <2>1. Effect(r) = UNION {On(p, "LUM", [val |-> Number(r, p) % 8192]) : p \in Panel}
    BY <1>3, <1>0 DEF Effect
  <2>2. Effect(r) = UNION {On(p, "LUM", [val |-> n(p)]) : p \in Panel}
    BY <2>1
  <2>3. \A p \in Panel : Value(r, p, "LUM", "val") = n(p)
    BY <1>3 DEF Value
  <2> HIDE DEF n
  <2>4. PICK p \in Panel : e \in On(p, "LUM", [val |-> n(p)])
    BY <2>2
  <2> DEFINE set == [val |-> n(p)]
  <2>5. DOMAIN set = {"val"} /\ set["val"] = n(p)
    OBVIOUS
  <2> HIDE DEF set
  <2>6. e \in On(p, "LUM", set)
    BY <2>4 DEF set
  <2> QED BY <1>2, <2>3, <2>5, <2>6, ValuedOn
<1>4. CASE r.name = "CURRENT_SET"
  <2> DEFINE n(p) == Number(r, p) % 256
  <2>1. Effect(r) = UNION {On(p, "CUR", [val |-> Number(r, p) % 256]) : p \in Panel}
    BY <1>4, <1>0 DEF Effect
  <2>2. Effect(r) = UNION {On(p, "CUR", [val |-> n(p)]) : p \in Panel}
    BY <2>1
  <2>3. \A p \in Panel : Value(r, p, "CUR", "val") = n(p)
    BY <1>4 DEF Value
  <2> HIDE DEF n
  <2>4. PICK p \in Panel : e \in On(p, "CUR", [val |-> n(p)])
    BY <2>2
  <2> DEFINE set == [val |-> n(p)]
  <2>5. DOMAIN set = {"val"} /\ set["val"] = n(p)
    OBVIOUS
  <2> HIDE DEF set
  <2>6. e \in On(p, "CUR", set)
    BY <2>4 DEF set
  <2> QED BY <1>2, <2>3, <2>5, <2>6, ValuedOn
<1>5. CASE r.name = "luminance"
  <2>1. PICK p \in Panel : e \in On(p, "LUM", [val |-> Number(r, p) % 8192])
    <3>1. Effect(r) = UNION {On(p, "LUM", [val |-> Number(r, p) % 8192]) : p \in named}
      BY <1>0, <1>5 DEF Effect
    <3> HIDE DEF named
    <3> QED BY <1>b, <3>1
  <2> DEFINE n == Number(r, p) % 8192
             set == [val |-> n]
  <2>2. Value(r, p, "LUM", "val") = n
    BY <1>5 DEF Value
  <2>3. e \in On(p, "LUM", set)
    BY <2>1
  <2> HIDE DEF n
  <2>4. DOMAIN set = {"val"} /\ set["val"] = n
    OBVIOUS
  <2> HIDE DEF set
  <2> QED BY <1>1, <1>2, <2>2, <2>3, <2>4, ValuedOn
<1>6. CASE r.name = "current"
  <2> DEFINE n(p) == Number(r, p) % 256
             m(p) == (Number(r, p) \div 256) % 256
  <2>1. PICK p \in Panel : e \in On(p, "CUR", [val |-> n(p)]) \/ e \in On(p, "CUR", [rest |-> m(p)])
    <3>1. Effect(r) = UNION {On(p, "CUR", [val |-> Number(r, p) % 256])
                             \cup IF scen.drv = "jbd4020" THEN {}
                                  ELSE On(p, "CUR", [rest |-> (Number(r, p) \div 256) % 256]) : p \in named}
      BY <1>0, <1>6 DEF Effect
    <3>2. Effect(r) = UNION {On(p, "CUR", [val |-> n(p)])
                             \cup IF scen.drv = "jbd4020" THEN {} ELSE On(p, "CUR", [rest |-> m(p)]) : p \in named}
      BY <3>1
    <3> HIDE DEF named, n, m
    <3> QED BY <1>b, <3>2
  <2>2. Value(r, p, "CUR", "val") = n(p) /\ Value(r, p, "CUR", "rest") = m(p)
    BY <1>6 DEF Value
  <2> HIDE DEF n, m
  <2>4. CASE e \in On(p, "CUR", [val |-> n(p)])
    <3> DEFINE set == [val |-> n(p)]
    <3>1. DOMAIN set = {"val"} /\ set["val"] = n(p)
      OBVIOUS
    <3> HIDE DEF set
    <3>2. e \in On(p, "CUR", set)
      BY <2>4 DEF set
    <3> QED BY <1>1, <1>2, <2>2, <3>1, <3>2, ValuedOn
  <2>5. CASE e \in On(p, "CUR", [rest |-> m(p)])
    <3> DEFINE set == [rest |-> m(p)]
    <3>1. DOMAIN set = {"rest"} /\ set["rest"] = m(p)
      OBVIOUS
    <3> HIDE DEF set
    <3>2. e \in On(p, "CUR", set)
      BY <2>5 DEF set
    <3> QED BY <1>1, <1>2, <2>2, <3>1, <3>2, ValuedOn
  <2> QED BY <2>1, <2>4, <2>5
<1>7. CASE r.name \in {"tx", "fps"}
  <2>1. Drv = "jbd4040"
    BY <1>1, <1>7 DEF Ioctls, Commands, Stores, Driver
  <2>2. "TX" \in Regs(Drv) /\ "FPS" \in Regs(Drv) /\ "val" \in Fields(Drv, "TX") /\ "idx" \in Fields(Drv, "FPS")
    BY <2>1, RegisterNames, Widths4040
  <2>3. CASE r.name = "tx"
    <3>1. Effect(r) = UNION {On(p, "TX", [val |-> r.n]) : p \in Panel}
      BY <2>3, <1>0 DEF Effect
    <3>2. \A p \in Panel : Value(r, p, "TX", "val") = r.n
      BY <2>3 DEF Value
    <3> DEFINE set == [val |-> r.n]
    <3>3. DOMAIN set = {"val"} /\ set["val"] = r.n
      OBVIOUS
    <3>4. PICK p \in Panel : e \in On(p, "TX", set)
      BY <3>1
    <3> HIDE DEF set
    <3> QED BY <2>2, <3>2, <3>3, <3>4, ValuedOn
  <2>4. CASE r.name = "fps"
    <3>1. Effect(r) = UNION {On(p, "FPS", [idx |-> r.n]) : p \in Panel}
      BY <2>4, <1>0 DEF Effect
    <3>2. \A p \in Panel : Value(r, p, "FPS", "idx") = r.n
      BY <2>4 DEF Value
    <3> DEFINE set == [idx |-> r.n]
    <3>3. DOMAIN set = {"idx"} /\ set["idx"] = r.n
      OBVIOUS
    <3>4. PICK p \in Panel : e \in On(p, "FPS", set)
      BY <3>1
    <3> HIDE DEF set
    <3> QED BY <2>2, <3>2, <3>3, <3>4, ValuedOn
  <2> QED BY <1>7, <2>3, <2>4
<1>8. CASE r.name \in {"FLIP_SET", "flip", "MIRROR_SET", "mirror"}
  <2> DEFINE flips == [p \in Panel |-> [flip |-> r.en]]
             mirrors == [p \in Panel |-> [mirror |-> MirrorBit(p, r.en)]]
             set == IF r.name \in {"FLIP_SET", "flip"} THEN flips ELSE mirrors
             both(p) == On(p, "FLIP", set[p]) \cup On(p, "VO", set[p])
  <2>1. /\ Drv = "jbd4020" => Effect(r) = both("R") \cup both("G") \cup both("B")
        /\ Drv = "jbd4040" => Effect(r) = On("R", "FLIP", set["R"]) \cup On("G", "FLIP", set["G"])
                                          \cup On("B", "FLIP", set["B"])
    <3>1. r.by \in {"ioctl", "store"}
      OBVIOUS
    <3>2. \/ r.name \in {"FLIP_SET", "flip"} /\ set = flips
          \/ r.name \in {"MIRROR_SET", "mirror"} /\ set = mirrors
      BY <1>8
    <3> HIDE DEF set
    <3> QED BY <1>0, <3>1, <3>2, TurnEffect
  <2>2. ASSUME NEW p \in Panel
        PROVE  /\ DOMAIN set[p] \subseteq {"flip", "mirror"}
               /\ \A g : \A f \in DOMAIN set[p] : set[p][f] = Value(r, p, g, f)
    <3>1. CASE r.name \in {"FLIP_SET", "flip"}
      BY <3>1 DEF Value
    <3>2. CASE r.name \in {"MIRROR_SET", "mirror"}
      BY <3>2 DEF Value
    <3> QED BY <1>8, <3>1, <3>2
  <2>3. Drv = "jbd4020" => "VO" \in Regs(Drv) /\ {"flip", "mirror"} \subseteq Fields(Drv, "VO")
    BY RegisterNames, Widths4020
  <2> HIDE DEF set
  <2>4. PICK p \in Panel : e \in On(p, "FLIP", set[p]) \/ (Drv = "jbd4020" /\ e \in On(p, "VO", set[p]))
    BY <1>1, <2>1, PanelNames DEF Driver
  <2>5. CASE e \in On(p, "FLIP", set[p])
    <3>1. DOMAIN set[p] \subseteq Fields(Drv, "FLIP")
      BY <1>2, <2>2
    <3> QED BY <1>2, <2>2, <2>5, <3>1, ValuedOn
  <2>6. CASE Drv = "jbd4020" /\ e \in On(p, "VO", set[p])
    <3>1. DOMAIN set[p] \subseteq Fields(Drv, "VO")
      BY <2>2, <2>3, <2>6
    <3> QED BY <2>2, <2>3, <2>6, <3>1, ValuedOn
  <2> QED BY <2>4, <2>5, <2>6
<1>9. CASE r.name = "offset"
  <2> DEFINE a(p) == Number(r, p) % 32
             b(p) == Vertical(r, p) % 32
             on == [en |-> r.en]
             hv(p) == [h |-> a(p), v |-> b(p)]
             paths == IF scen.drv = "jbd4020" THEN {"OFFSET", "VO"} ELSE {"OFFSET"}
  <2>1. PICK p \in Panel, g \in paths : (Drv = "jbd4020" /\ e \in On(p, g, on)) \/ e \in On(p, g, hv(p))
    <3>1. Effect(r) = (IF scen.drv = "jbd4020" THEN UNION {On(r.p, path, on) : path \in paths} ELSE {})
                      \cup (IF r.en = 1 /\ ~ r.short
                            THEN UNION {UNION {On(p, path, hv(p)) : path \in paths} : p \in named} ELSE {})
      BY <1>0, <1>9, Zenon DEF Effect
    <3> HIDE DEF paths, named, on, hv
    <3>2. \/ scen.drv = "jbd4020" /\ e \in UNION {On(r.p, path, on) : path \in paths}
          \/ e \in UNION {UNION {On(p, path, hv(p)) : path \in paths} : p \in named}
      BY <3>1
    <3> QED BY <1>b, <1>1, <3>2 DEF Drv
  <2>2. \A x : Value(r, p, x, "en") = r.en /\ Value(r, p, x, "h") = a(p) /\ Value(r, p, x, "v") = b(p)
    BY <1>9 DEF Value
  <2> HIDE DEF a, b
  <2>3. /\ DOMAIN on = {"en"} /\ \A f \in DOMAIN on : on[f] = Value(r, p, g, f)
        /\ DOMAIN hv(p) = {"h", "v"} /\ \A f \in DOMAIN hv(p) : hv(p)[f] = Value(r, p, g, f)
    BY <2>2
  <2>4. /\ g \in Regs(Drv) /\ {"h", "v"} \subseteq Fields(Drv, g)
        /\ Drv = "jbd4020" => "en" \in Fields(Drv, g)
    <3>1. CASE Drv = "jbd4020"
      BY <1>2, <2>1, <3>1, RegisterNames, Widths4020 DEF Drv
    <3>2. CASE Drv # "jbd4020"
      BY <1>2, <2>1, <3>2 DEF Drv
    <3> QED BY <3>1, <3>2
  <2> HIDE DEF on, hv, paths
  <2>5. CASE Drv = "jbd4020" /\ e \in On(p, g, on)
    BY <2>3, <2>4, <2>5, ValuedOn
  <2>6. CASE e \in On(p, g, hv(p))
    BY <1>9, <2>3, <2>4, <2>6, ValuedOn
  <2> QED BY <2>1, <2>5, <2>6
<1>10. CASE r.name \in {"WRITE_REG", "val"}
  <2> DEFINE set(g) == [f \in DOMAIN Width[scen.drv][g] |-> 0]
  <2>1. PICK g \in Regs(Drv) : Effect(r) = On("R", g, set(g))
    BY <1>1, <1>10, <1>0 DEF Effect
  <2>2. DOMAIN set(g) = Fields(Drv, g) /\ \A f \in DOMAIN set(g) : set(g)[f] = Value(r, "R", g, f)
    BY <1>10 DEF Value, Fields, Drv
  <2>3. Raw(r)
    BY <1>10 DEF Raw
  <2> HIDE DEF set
  <2> QED BY <1>1, <2>1, <2>2, <2>3, ValuedOn
<1>11. CASE r.name \notin {"LUMIN_SET", "CURRENT_SET", "luminance", "current", "tx", "fps", "FLIP_SET", "flip",
                           "MIRROR_SET", "mirror", "offset", "WRITE_REG", "val"}
  <2>1. Effect(r) = {}
    BY <1>11, <1>0 DEF Effect
  <2> QED BY <2>1
<1> QED BY <1>3, <1>4, <1>5, <1>6, <1>7, <1>8, <1>9, <1>10, <1>11

(* No request but that for the temperature switches sensors on.            *)
LEMMA NoSensorOn ==
  ASSUME scen \in Scenarios, sysfsReg \in Regs(Drv), NEW r \in scen.requests, Tame(r), NEW p \in Panel
  PROVE  <<p, "PVT", "ctl", 3>> \notin Effect(r)
<1>1. SUFFICES ASSUME <<p, "PVT", "ctl", 3>> \in Effect(r) PROVE FALSE
  OBVIOUS
<1>2. r.by # "show"
  BY <1>1, NoEffect
<1>3. Valued(r, <<p, "PVT", "ctl", 3>>)
  BY <1>1, <1>2, ScenarioRequest, EffectValued
<1>4. Value(r, p, "PVT", "ctl") = 0
  BY DEF Value
<1> QED BY <1>3, <1>4 DEF Valued

(* What a handler sets from its start.                                     *)
LEMMA HandlerUnit ==
  ASSUME scen \in Scenarios, sysfsReg \in Regs(Drv), NEW r \in scen.requests, Tame(r)
  PROVE  LET q == Steps(r) IN
         /\ q \in Seq(Kind(r)) /\ Pending(q) = Named(r) \cup Sensors(r) /\ OffLast(q)
         /\ ~ (r.by = "store" /\ r.name = "fps") => Aligned(q) /\ (q # << >> => Fresh(Drv, q[1]))
<1> DEFINE q == Steps(r)
<1>1. Requested(Drv, r) /\ Drv \in Driver
  BY ScenarioRequest
<1>2. CASE r.by = "ioctl" /\ r.name \in Ioctls
  <2>1. q = IoctlSteps(Drv, r)
    BY <1>2 DEF Steps, Drv
  <2>2. Named(r) = Effect(r) /\ Sensors(r) = {} /\ Kind(r) = Strict
    BY <1>2, NoCopies DEF Sensors, Kind
  <2>3. Unit(Strict, q, Effect(r))
    BY <1>1, <1>2, <2>1, CommandUnit
  <2> HIDE DEF q
  <2>4. OffLast(q)
    BY <2>3, NoSensorOn, QuietSensors DEF Unit
  <2>5. q \in Seq(Kind(r)) /\ Pending(q) = Named(r) \cup Sensors(r) /\ Aligned(q) /\ (q # << >> => Fresh(Drv, q[1]))
    BY <2>2, <2>3 DEF Unit
  <2> QED BY <2>4, <2>5 DEF q
<1>3. CASE r.by = "show" /\ r.name \in Shows(Drv)
  <2>1. q = ShowSteps(Drv, r)
    BY <1>3 DEF Steps, Drv
  <2>2. Named(r) = {} /\ Kind(r) = Plain
    <3>1. r.name # "reg"
      BY <1>3 DEF Shows
    <3> QED BY <1>3, <3>1, NoEffect, NoCopies DEF Named, Kind
  <2>3. Unit(Plain, q, Sensors(r)) /\ OffLast(q)
    BY <1>1, <1>3, <2>1, ShowUnit
  <2> HIDE DEF q
  <2>4. q \in Seq(Kind(r)) /\ Pending(q) = Named(r) \cup Sensors(r) /\ Aligned(q) /\ (q # << >> => Fresh(Drv, q[1]))
    BY <2>2, <2>3 DEF Unit
  <2> QED BY <2>3, <2>4 DEF q
<1>4. CASE r.by = "store" /\ r.name \in Stores(Drv) /\ r.name # "fps"
  <2>1. q = StoreSteps(Drv, r)
    BY <1>4 DEF Steps, Drv
  <2>2. Sensors(r) = {} /\ Named(r) \subseteq Effect(r)
    BY <1>4 DEF Sensors, Named
  <2>3. Unit(Kind(r), q, Named(r))
    BY <1>1, <1>4, <2>1, StoreUnit
  <2> HIDE DEF q
  <2>4. OffLast(q)
    BY <2>2, <2>3, NoSensorOn, QuietSensors DEF Unit
  <2>5. q \in Seq(Kind(r)) /\ Pending(q) = Named(r) \cup Sensors(r) /\ Aligned(q) /\ (q # << >> => Fresh(Drv, q[1]))
    BY <2>2, <2>3 DEF Unit
  <2> QED BY <2>4, <2>5 DEF q
<1>5. CASE r.by = "store" /\ r.name = "fps"
  <2>1. Drv = "jbd4040" /\ q = StoreFps(r) /\ [idx |-> r.n] \in Settings("jbd4040", "FPS")
    BY <1>5, FpsHandler
  <2>2. q \in Seq(StepSet(Drv)) /\ Len(q) = 4
    BY <2>1, FpsSteps
  <2>3. Sensors(r) = {} /\ Named(r) = Effect(r) /\ Kind(r) = Plain
    BY <1>5, NoCopies DEF Sensors, Kind
  <2> HIDE DEF q
  <2>4. Len(q) \in 0 .. 4 /\ q # << >> /\ \A i \in 1 .. Len(q) : q[i] = StoreFps(r)[i + (4 - Len(q))]
    <3>1. q # << >>
      BY <2>2, EmptySeq
    <3>2. \A i \in 1 .. Len(q) : i + (4 - Len(q)) = i
      BY <2>2
    <3> QED BY <2>1, <2>2, <3>1, <3>2
  <2>5. q \in Seq(Plain) /\ Pending(q) = Effect(r)
    BY <1>5, <2>1, <2>2, <2>4, FpsPending
  <2>6. OffLast(q)
    BY <2>5, NoSensorOn, QuietSensors
  <2> QED BY <1>5, <2>3, <2>5, <2>6 DEF q
<1> QED BY <1>2, <1>3, <1>4, <1>5, ScenarioRequest

(* A field is given one value.                                             *)
LEMMA OneValue ==
  ASSUME scen \in Scenarios, sysfsReg \in Regs(Drv), NEW r \in scen.requests, Tame(r),
         NEW e \in Effect(r), NEW d \in Effect(r), <<d[1], d[2], d[3]>> = <<e[1], e[2], e[3]>>
  PROVE  d[4] = e[4]
<1>1. r.by # "show"
  BY NoEffect
<1>2. Valued(r, d) /\ Valued(r, e)
  BY <1>1, ScenarioRequest, EffectValued
<1> QED BY <1>2 DEF Valued

(* A field of the panels that a request is for.                            *)
LEMMA EffectPlace ==
  ASSUME scen \in Scenarios, sysfsReg \in Regs(Drv), NEW r \in scen.requests, Tame(r), NEW e \in Effect(r)
  PROVE  e = <<e[1], e[2], e[3], e[4]>> /\ e[1] \in Panel /\ e[2] \in Regs(Drv) /\ e[3] \in Fields(Drv, e[2])
<1>1. r.by # "show"
  BY NoEffect
<1> QED BY <1>1, ScenarioRequest, EffectValued DEF Valued

-----------------------------------------------------------------------------
(* What a step does to what a handler still has to do.                     *)

(* What these are does not depend on the registers.                        *)
LEMMA SameEffect ==
  ASSUME NEW r, scen' = scen, sysfsReg' = sysfsReg
  PROVE  Effect(r)' = Effect(r) /\ Sensors(r)' = Sensors(r) /\ CopyNames(r)' = CopyNames(r) /\ Kind(r)' = Kind(r)
<1>1. Drv' = Drv
  BY DEF Drv
<1>2. Effect(r)' = Effect(r)
  BY DEF Effect
<1>3. Sensors(r)' = Sensors(r) /\ CopyNames(r)' = CopyNames(r)
  BY <1>1 DEF Sensors, CopyNames
<1>4. Kind(r)' = Kind(r)
  BY <1>1, <1>3 DEF Kind, Strict, Selects, Copying, Plain
<1> QED BY <1>2, <1>3, <1>4

(* Nor does what is pending.                                               *)
LEMMA SamePending ==
  ASSUME NEW q, scen' = scen, sysfsReg' = sysfsReg
  PROVE  Pending(q)' = Pending(q) /\ Aligned(q)' = Aligned(q)
<1>1. Drv' = Drv
  BY DEF Drv
<1>2. \A s : Written(s)' = Written(s)
  BY <1>1 DEF Written
<1> QED BY <1>1, <1>2 DEF Pending, Aligned

(* The next write finds in temp what the last read has put there.          *)
LEMMA TempStep ==
  ASSUME TInv, NEW t \in Threads, JobInv(t), job[t] # << >>, ~ SetsFps(t), UNCHANGED <<scen, req, sysfsReg>>,
         NEW k \in {0, Jump(job[t][1])}, job'[t] = Rest(job[t], k),
         k = 0 /\ job[t][1].op \in {"read", "readhv"} /\ job[t][1].fail.skip > 0
               /\ job[t][1].reg \in Regs(Drv) /\ job[t][1].at \in Panel
         => \A f \in Fields(Drv, job[t][1].reg) :
              \/ temp'[t][f] = regs'[job[t][1].at][job[t][1].reg][f]
              \/ <<job[t][1].at, job[t][1].reg, f>> \in CopyNames(req[t])
  PROVE  TempAgrees(t)'
<1> DEFINE q == job[t]
           r == Rest(q, k)
<1>1. Sound(Drv, q) /\ Aligned(q) /\ q \in Seq(StepSet(Drv)) /\ Len(q) \in Nat
  BY AtWork DEF TInv, HandlersOK, SoundOK, JobInv
<1>2. r # << >> => Fresh(Drv, r[1]) \/ (k = 0 /\ Feeds(Drv, q[1], r[1]))
  BY <1>1, SoundRest
<1>3. job'[t] = r /\ Drv' = Drv /\ CopyNames(req[t])' = CopyNames(req[t])
  BY SameEffect DEF Drv
<1>4. k = 0 /\ r # << >> => 1 \in 1 .. Len(q) - 1 /\ r[1] = q[1 + 1]
  <2>1. SUFFICES ASSUME k = 0, r # << >> PROVE 1 \in 1 .. Len(q) - 1 /\ r[1] = q[1 + 1]
    OBVIOUS
  <2>2. r \in Seq(StepSet(Drv)) /\ Len(r) \in Nat /\ \A i \in 1 .. Len(r) : i + k + 1 \in 1 .. Len(q) /\ r[i] = q[i + k + 1]
    <3>1. k \in Nat /\ q # << >>
      BY <2>1
    <3> HIDE DEF q
    <3> QED BY <1>1, <3>1, Remainder
  <2> HIDE DEF r
  <2>3. Len(r) > 0
    BY <2>1, <2>2, EmptySeq
  <2>4. 1 \in 1 .. Len(r) /\ 1 + k + 1 = 1 + 1
    BY <2>1, <2>2, <2>3
  <2> QED BY <1>1, <2>2, <2>4
<1> HIDE DEF r
<1>5. ASSUME r # << >>, Partial(Drv, r[1])
      PROVE  /\ r[1].at \in Panel
             /\ \A f \in Fields(Drv, r[1].reg) :
                  temp'[t][f] = regs'[r[1].at][r[1].reg][f] \/ <<r[1].at, r[1].reg, f>> \in CopyNames(req[t])
  <2>1. k = 0 /\ Feeds(Drv, q[1], r[1])
    BY <1>2, <1>5 DEF Fresh
  <2>2. q[1].op \in {"read", "readhv"} /\ q[1].reg = r[1].reg /\ q[1].fail.skip > 0
    BY <2>1, <1>5 DEF Feeds
  <2>3. q[1].reg \in Regs(Drv)
    <3>1. q[1].reg \in Regs(Drv) \cup {"sysfs"}
      BY <2>2, AtWork, StepKinds DEF Reads
    <3> QED BY <3>1, <2>2, <1>5 DEF Partial
  <2>4. q[1].at = r[1].at /\ q[1].at \in Panel
    BY <1>1, <1>4, <1>5, <2>1 DEF Aligned
  <2> QED BY <2>1, <2>2, <2>3, <2>4, <1>5
<1>6. TempAgrees(t)'
  <2>1. job'[t] # << >> /\ Partial(Drv, job'[t][1]) =>
          /\ job'[t][1].at \in Panel
          /\ \A f \in Fields(Drv, job'[t][1].reg) \ DOMAIN job'[t][1].set :
            \/ temp'[t][f] = regs'[job'[t][1].at][job'[t][1].reg][f]
            \/ <<job'[t][1].at, job'[t][1].reg, f>> \in CopyNames(req[t])
    BY <1>3, <1>5
  <2> QED BY <2>1, <1>3 DEF TempAgrees
<1> QED BY <1>6

(* The rest of what is said of a handler that runs.                        *)
LEMMA JobStep ==
  ASSUME TInv, NEW t \in Threads, JobInv(t), job[t] # << >>, UNCHANGED <<scen, loc, req, sysfsReg>>,
         NEW k \in Nat, job'[t] = Rest(job[t], k), ~ SetsFps(t) => TempAgrees(t)'
  PROVE  JobInv(t)'
<1> DEFINE q == job[t]
           r == req[t]
<1>1. /\ loc[t] = "run" /\ q \in Seq(Kind(r)) /\ Pending(q) \subseteq Effect(r) \cup Sensors(r)
      /\ (~ SetsFps(t) => Aligned(q))
  BY AtWork DEF JobInv
<1>2. /\ Effect(r)' = Effect(r) /\ Sensors(r)' = Sensors(r) /\ Kind(r)' = Kind(r)
      /\ \A x : Pending(x)' = Pending(x) /\ Aligned(x)' = Aligned(x)
  BY SameEffect, SamePending
<1>3. Rest(q, k) \in Seq(Kind(r)) /\ Pending(Rest(q, k)) \subseteq Pending(q)
  BY <1>1, Remainder, PendingRest
<1>4. ~ SetsFps(t) => Aligned(Rest(q, k))
  BY <1>1, AlignedRest
<1>5. SetsFps(t)' = SetsFps(t)
  BY DEF SetsFps
<1>6. Pending(job[t])' = Pending(Rest(q, k)) /\ (~ SetsFps(t) => Aligned(job[t])')
  BY <1>2, <1>4
<1>7. Effect(req[t])' = Effect(r) /\ Sensors(req[t])' = Sensors(r) /\ Kind(req[t])' = Kind(r)
  BY <1>2
<1>8. job'[t] \in Seq(Kind(req[t])')
  BY <1>3, <1>7
<1>9. Pending(job[t])' \subseteq Effect(req[t])' \cup Sensors(req[t])'
  BY <1>1, <1>3, <1>6, <1>7
<1> HIDE DEF r, q
<1> QED BY <1>5, <1>6, <1>8, <1>9 DEF JobInv

(* A write reaches the panels that its step names: a handler that has      *)
(* changed the address writes nothing before it has changed it back.       *)
LEMMA WriteTarget ==
  ASSUME TInv, NEW t \in Threads, At(t, {"write"})
  PROVE  Dest(t) = Target(job[t][1])
<1>1. At(t, Reads \cup {"write"}) /\ job[t] # << >> /\ Head(job[t]) = job[t][1] /\ job[t][1].op = "write"
  BY Transfer DEF At
<1>2. addr = Panel
  <2>1. SetsFps(t) => Len(job[t]) = 1
    BY <1>1, FpsPlace
  <2> QED BY <1>1, <2>1, AddrWhile
<1> QED BY <1>1, <1>2 DEF Dest, Target

(* What a write does to the registers.                                     *)
LEMMA WriteResult ==
  ASSUME TInv, NEW t \in Threads, Write(t), JobInv(t)
  PROVE  LET s == job[t][1] IN
         /\ \A e \in Written(s) : regs'[e[1]][e[2]][e[3]] = e[4]
         /\ \A p \in Panel : \A g \in Regs(Drv) : \A f \in Fields(Drv, g) :
              \/ regs'[p][g][f] = regs[p][g][f]
              \/ <<p, g, f, regs'[p][g][f]>> \in Written(s)
              \/ /\ <<p, g, f>> \in CopyNames(req[t]) /\ ~ SetsFps(t) /\ s.reg = "VO" /\ s.at = p
                 /\ regs'[p][g][f] = temp[t][f]
              \/ SetsFps(t) /\ g = "FPS" /\ f = "scan" /\ regs'[p][g][f] = temp[t]["scan"]
<1> DEFINE s == job[t][1]
           G == RegOf(t)
           m == Modified(t)
           F == Fields(Drv, G)
<1>1. At(t, {"write"}) /\ At(t, Reads \cup {"write"})
  BY DEF Write, At
<1>2. /\ job[t] # << >> /\ s.op = "write" /\ Drv \in Driver /\ s \in StepSet(Drv) /\ G \in Regs(Drv) /\ Head(job[t]) = s
      /\ loc[t] = "run" /\ (s.reg # "sysfs" => G = s.reg) /\ (s.reg = "sysfs" => G = sysfsReg)
  BY <1>1, Transfer, AtWork DEF At, RegOf
<1>3. Dest(t) = Target(s) /\ Target(s) \subseteq Panel
  <2>1. Dest(t) \in SUBSET Panel
    BY <1>1, Transfer
  <2> QED BY <1>1, <2>1, WriteTarget
<1>4. /\ \A p \in Panel : DOMAIN regs[p] = Regs(Drv)
      /\ \A p \in Panel : regs'[p] = IF p \in Target(s) THEN [regs[p] EXCEPT ![G] = m] ELSE regs[p]
  BY <1>3 DEF Write, TInv, Arrays
<1>5. \A p \in Panel : \A g \in Regs(Drv) : regs'[p][g] = IF p \in Target(s) /\ g = G THEN m ELSE regs[p][g]
  <2> HIDE DEF m, G, s
  <2> QED BY <1>2, <1>4
<1>6. m = [f \in F |-> IF s.reg # "sysfs" /\ f \in DOMAIN s.set THEN s.set[f]
                       ELSE IF s.reg # "sysfs" /\ f \in DOMAIN temp[t] THEN temp[t][f] ELSE 0]
  BY <1>2 DEF Modified, Fields, Drv
<1>7. CASE s.reg = "sysfs"
  <2>1. Written(s) = UNION {On(p, G, [f \in F |-> 0]) : p \in Target(s)}
    BY <1>2, <1>7 DEF Written
  <2>2. m = [f \in F |-> 0]
    BY <1>6, <1>7
  <2> HIDE DEF m, G, F, s
  <2>3. \A e : e \in Written(s) <=> \E p \in Target(s), f \in F : e = <<p, G, f, 0>>
    BY <2>1 DEF On
  <2>4. \A e \in Written(s) : regs'[e[1]][e[2]][e[3]] = e[4]
    BY <1>2, <1>3, <1>5, <2>2, <2>3
  <2>5. ASSUME NEW p \in Panel, NEW g \in Regs(Drv), NEW f \in Fields(Drv, g), regs'[p][g][f] # regs[p][g][f]
        PROVE  <<p, g, f, regs'[p][g][f]>> \in Written(s)
    <3>1. p \in Target(s) /\ g = G
      BY <1>5, <2>5
    <3>2. f \in F /\ regs'[p][g][f] = 0
      BY <1>5, <2>2, <3>1 DEF F
    <3> QED BY <2>3, <3>1, <3>2
  <2> QED BY <2>4, <2>5 DEF s
<1>8. CASE s.reg # "sysfs"
  <2>1. Written(s) = UNION {On(p, G, s.set) : p \in Target(s)}
    BY <1>2, <1>8 DEF Written
  <2>2. DOMAIN s.set \subseteq F
    BY <1>2, <1>8, StepKinds DEF Settings
  <2>3. \A f \in F : m[f] = IF f \in DOMAIN s.set THEN s.set[f] ELSE IF f \in DOMAIN temp[t] THEN temp[t][f] ELSE 0
    BY <1>6, <1>8
  <2>4. DOMAIN s.set # F => temp[t] \in Contents(Drv, G) /\ DOMAIN temp[t] = F
    <3>1. DOMAIN s.set # F => Partial(Drv, s)
      BY <1>2, <1>8 DEF Partial
    <3>2. CASE SetsFps(t)
      <4>1. Len(job[t]) = 1 /\ s.reg = "FPS" /\ Drv = "jbd4040"
        BY <1>2, <3>2, FpsPlace, FpsHead
      <4>2. temp[t] \in Contents(Drv, "FPS")
        BY <3>2, <4>1 DEF TInv, HandlersOK, FpsOK
      <4> QED BY <1>2, <1>8, <4>1, <4>2 DEF Contents
    <3>3. CASE ~ SetsFps(t)
      BY <1>2, <1>8, <3>1, <3>3 DEF TInv, HandlersOK, SoundOK, Contents
    <3> QED BY <3>2, <3>3
  <2>5. ASSUME NEW p \in Panel, NEW g \in Regs(Drv), NEW f \in Fields(Drv, g), regs'[p][g][f] # regs[p][g][f],
               f \in DOMAIN s.set
        PROVE  <<p, g, f, regs'[p][g][f]>> \in Written(s)
    <3> HIDE DEF m, G, F, s
    <3>1. p \in Target(s) /\ g = G /\ regs'[p][g] = m
      BY <1>5, <2>5
    <3>2. regs'[p][g][f] = s.set[f]
      BY <2>2, <2>3, <2>5, <3>1
    <3>3. <<p, G, f, s.set[f]>> \in On(p, G, s.set)
      BY <2>5 DEF On
    <3> QED BY <2>1, <3>1, <3>2, <3>3
  <2>6. ASSUME NEW p \in Panel, NEW g \in Regs(Drv), NEW f \in Fields(Drv, g), regs'[p][g][f] # regs[p][g][f],
               f \notin DOMAIN s.set
        PROVE  \/ /\ <<p, g, f>> \in CopyNames(req[t]) /\ ~ SetsFps(t) /\ s.reg = "VO" /\ s.at = p
                  /\ regs'[p][g][f] = temp[t][f]
               \/ SetsFps(t) /\ g = "FPS" /\ f = "scan" /\ regs'[p][g][f] = temp[t]["scan"]
    <3>1. p \in Target(s) /\ g = G /\ regs'[p][g] = m
      <4> HIDE DEF m, G, s
      <4> QED BY <1>5, <2>6
    <3>2. f \in F /\ DOMAIN s.set # F /\ regs'[p][g][f] = temp[t][f]
      <4>1. f \in F /\ DOMAIN s.set # F
        BY <2>6, <3>1
      <4> HIDE DEF m, G, s, F
      <4> QED BY <2>3, <2>4, <2>6, <3>1, <4>1
    <3>3. CASE SetsFps(t)
      <4>1. Len(job[t]) = 1 /\ s.reg = "FPS" /\ Drv = "jbd4040" /\ s.set = [idx |-> req[t].n]
        BY <1>2, <3>3, FpsPlace, FpsHead
      <4>2. f \in {"idx", "scan"} /\ f # "idx"
        BY <1>2, <1>8, <2>6, <3>2, <4>1, Widths4040
      <4> QED BY <1>2, <1>8, <3>1, <3>2, <3>3, <4>1, <4>2
    <3>4. CASE ~ SetsFps(t)
      <4>1. Partial(Drv, s) /\ g = s.reg
        BY <1>2, <1>8, <3>1, <3>2 DEF Partial
      <4>2. s.at \in Panel /\ (temp[t][f] = regs[s.at][s.reg][f] \/ <<s.at, s.reg, f>> \in CopyNames(req[t]))
        BY <1>2, <2>6, <3>2, <3>4, <4>1 DEF JobInv, TempAgrees
      <4>3. s.at = p
        <5>1. s.at # "client"
          BY <1>2, <4>2, NotRaw
        <5> QED BY <3>1, <5>1 DEF Target
      <4>4. <<p, g, f>> \in CopyNames(req[t])
        BY <2>6, <3>2, <4>1, <4>2, <4>3
      <4>5. s.reg = "VO"
        BY <4>1, <4>4 DEF CopyNames
      <4> QED BY <3>2, <3>4, <4>3, <4>4, <4>5
    <3> QED BY <3>3, <3>4
  <2>7. \A e \in Written(s) : regs'[e[1]][e[2]][e[3]] = e[4]
    <3> HIDE DEF m, G, F, s
    <3>1. ASSUME NEW e \in Written(s)
          PROVE  regs'[e[1]][e[2]][e[3]] = e[4]
      <4>1. PICK p \in Target(s) : e \in On(p, G, s.set)
        BY <2>1, <3>1
      <4>2. PICK f \in DOMAIN s.set : e = <<p, G, f, s.set[f]>>
        BY <4>1 DEF On
      <4>3. regs'[p][G] = m
        BY <1>2, <1>3, <1>5, <4>1
      <4> QED BY <2>2, <2>3, <4>2, <4>3
    <3> QED BY <3>1
  <2> QED BY <2>5, <2>6, <2>7
<1> QED BY <1>7, <1>8

-----------------------------------------------------------------------------
(* A command that returns success is complete.                             *)

CInv == \A t \in Threads : JobInv(t) /\ DoneInv(t)

(* It is about handlers that run, of which there is one.                   *)
LEMMA OnlyOne ==
  ASSUME NEW t \in Threads, \A u \in Threads \ {t} : loc'[u] # "run", JobInv(t)', DoneInv(t)'
  PROVE  CInv'
<1>1. ASSUME NEW u \in Threads \ {t}
      PROVE  JobInv(u)' /\ DoneInv(u)'
  BY <1>1 DEF JobInv, DoneInv
<1> QED BY <1>1 DEF CInv

(* The step of a handler is one of its kind.                               *)
LEMMA HeadKind ==
  ASSUME TInv, NEW t \in Threads, JobInv(t), job[t] # << >>
  PROVE  job[t][1] \in Kind(req[t])
<1>1. job[t] \in Seq(Kind(req[t])) /\ 1 \in 1 .. Len(job[t])
  BY AtWork DEF JobInv
<1> QED BY <1>1, LenProperties

(* What is done stays done while the registers do.                         *)
LEMMA DoneStep ==
  ASSUME TInv, NEW t \in Threads, DoneInv(t), job[t] # << >>, job[t][1].op # "write",
         UNCHANGED <<scen, loc, req, sysfsReg, regs, ok>>, job'[t] = Rest(job[t], 0)
  PROVE  DoneInv(t)'
<1> DEFINE q == job[t]
<1>1. Pending(job[t])' = Pending(Rest(q, 0)) /\ Effect(req[t])' = Effect(req[t])
  BY SamePending, SameEffect
<1>2. Pending(q) = Written(q[1]) \cup Pending(Rest(q, 0)) /\ Written(q[1]) = {}
  BY AtWork, PendingRest DEF Written
<1>3. Pending(job[t])' = Pending(job[t])
  BY <1>1, <1>2
<1> QED BY <1>1, <1>3 DEF DoneInv

(* Reads.                                                                  *)
LEMMA ReadEffect ==
  ASSUME TInv, CInv, NEW t \in Threads, ReadCombined(t) \/ Fetch(t)
  PROVE  CInv'
<1> DEFINE s == job[t][1]
<1>1. At(t, Reads) /\ At(t, Reads \cup {"write"})
  BY DEF ReadCombined, Fetch, At
<1>2. /\ job[t] # << >> /\ Head(job[t]) = s /\ s.op \in Reads /\ Drv \in Driver /\ s \in StepSet(Drv)
      /\ loc[t] = "run" /\ (s.reg # "sysfs" => RegOf(t) = s.reg) /\ RegOf(t) \in Regs(Drv)
      /\ \A u \in Threads \ {t} : loc[u] # "run"
  BY <1>1, Transfer, AtWork DEF At
<1>3. PICK p \in Dest(t) : Arrive(t, regs[p][RegOf(t)])
  <2>1. CASE ReadCombined(t)
    BY <2>1 DEF ReadCombined
  <2>2. CASE Fetch(t)
    BY <2>2 DEF Fetch, TInv, HandlersOK, SentOK
  <2> QED BY <2>1, <2>2
<1>4. UNCHANGED <<scen, regs, addr, sysfsReg, mutex, loc, req, saved, ok, faults>> /\ Continue(t, 0)
  BY <1>3 DEF Arrive
<1>5. job'[t] = Rest(job[t], 0)
  BY <1>2, <1>4, Continued
<1>6. JobInv(t) /\ DoneInv(t) /\ s \in Kind(req[t])
  BY <1>2, HeadKind DEF CInv
<1>7. ASSUME s.op \in {"read", "readhv"}, s.reg \in Regs(Drv), s.at \in Panel, NEW f \in Fields(Drv, s.reg)
      PROVE  temp'[t][f] = regs'[s.at][s.reg][f] \/ <<s.at, s.reg, f>> \in CopyNames(req[t])
  <2>1. s.reg # "sysfs" /\ s.at # "client"
    BY <1>2, <1>7, NotRaw
  <2>2. p = s.at /\ RegOf(t) = s.reg
    BY <1>2, <1>3, <2>1 DEF Dest
  <2> DEFINE v == regs[s.at][s.reg]
  <2>3. v \in Contents(Drv, s.reg) /\ DOMAIN temp = Threads
    BY <1>7 DEF TInv, Arrays
  <2>4. CASE s.op = "read"
    <3>1. temp'[t] = v
      BY <1>2, <1>3, <2>2, <2>3, <2>4 DEF Arrive
    <3> QED BY <3>1, <1>4
  <2>5. CASE s.op = "readhv"
    <3>1. temp'[t] = [v EXCEPT !.h = temp[t].h, !.v = temp[t].v]
      BY <1>2, <1>3, <2>2, <2>3, <2>5 DEF Arrive
    <3>2. s.reg = "VO"
      BY <1>2, <2>5, StepKinds
    <3>3. CopyNames(req[t]) = {<<s.at, "VO", "h">>, <<s.at, "VO", "v">>}
      <4>1. CopyNames(req[t]) # {} /\ s.at = req[t].p
        BY <1>6, <2>5 DEF Kind, Strict, Selects, Plain, Copying
      <4> QED BY <4>1 DEF CopyNames
    <3>4. CASE f \in {"h", "v"}
      BY <3>2, <3>3, <3>4
    <3>5. CASE f \notin {"h", "v"}
      <4>1. v \in [Fields(Drv, s.reg) -> Nat]
        BY <2>3 DEF Contents
      <4> HIDE DEF v, s
      <4>2. temp'[t][f] = v[f]
        BY <1>7, <3>1, <3>5, <4>1
      <4> QED BY <4>2, <1>4 DEF v
    <3> QED BY <3>4, <3>5
  <2> QED BY <1>7, <2>4, <2>5
<1>8. ~ SetsFps(t) => TempAgrees(t)'
  <2>1. SUFFICES ASSUME ~ SetsFps(t) PROVE TempAgrees(t)'
    OBVIOUS
  <2>2. UNCHANGED <<scen, req, sysfsReg>>
    BY <1>4
  <2> HIDE DEF s
  <2> QED BY <1>2, <1>5, <1>6, <1>7, <2>1, <2>2, TempStep DEF s
<1>9. JobInv(t)'
  BY <1>2, <1>4, <1>5, <1>6, <1>8, JobStep
<1>10. DoneInv(t)'
  <2>1. s.op # "write"
    BY <1>2 DEF Reads
  <2> QED BY <1>2, <1>4, <1>5, <1>6, <2>1, DoneStep
<1>11. \A u \in Threads \ {t} : loc'[u] # "run"
  BY <1>2, <1>4
<1> QED BY <1>9, <1>10, <1>11, OnlyOne

(* A transfer that fails: a command does not succeed any more.             *)
LEMMA FailEffect ==
  ASSUME TInv, CInv, NEW t \in Threads, Fails(t)
  PROVE  CInv'
<1> DEFINE s == job[t][1]
           k == s.fail.skip
<1>1. At(t, Reads \cup {"write"})
  BY DEF Fails
<1>2. /\ job[t] # << >> /\ Head(job[t]) = s /\ s.op \in Reads \cup {"write"} /\ s \in StepSet(Drv)
      /\ loc[t] = "run" /\ k = Jump(s) /\ k \in Nat
      /\ \A u \in Threads \ {t} : loc[u] # "run"
  <2>1. Jump(s) \in Nat
    BY <1>1, Transfer, AtWork, StepKinds
  <2> QED BY <1>1, <2>1, Transfer, AtWork
<1>3. UNCHANGED <<scen, regs, addr, sysfsReg, mutex, loc, req, saved>> /\ Continue(t, k)
      /\ ok' = [ok EXCEPT ![t] = @ /\ ~ s.fail.err]
  BY <1>2 DEF Fails, hw
<1>4. job'[t] = Rest(job[t], k)
  BY <1>2, <1>3, Continued
<1>5. JobInv(t) /\ DoneInv(t) /\ s \in Kind(req[t])
  BY <1>2, HeadKind DEF CInv
<1>6. ~ SetsFps(t) => TempAgrees(t)'
  <2>1. SUFFICES ASSUME ~ SetsFps(t) PROVE TempAgrees(t)'
    OBVIOUS
  <2>2. UNCHANGED <<scen, req, sysfsReg>>
    BY <1>3
  <2>3. k = 0 => ~ (s.fail.skip > 0)
    OBVIOUS
  <2>4. k \in {0, Jump(s)}
    BY <1>2
  <2> HIDE DEF k
  <2> QED BY <1>2, <1>4, <1>5, <2>1, <2>2, <2>3, <2>4, TempStep
<1>7. JobInv(t)'
  BY <1>2, <1>3, <1>4, <1>5, <1>6, JobStep
<1>8. DoneInv(t)'
  <2>1. CASE req[t].by = "ioctl"
    <3>1. s.fail.err
      BY <1>5, <2>1 DEF Kind, Strict
    <3>2. ~ ok'[t]
      BY <1>3, <3>1 DEF TInv, Arrays
    <3> QED BY <3>2 DEF DoneInv
  <2>2. CASE req[t].by # "ioctl"
    BY <1>3, <2>2 DEF DoneInv
  <2> QED BY <2>1, <2>2
<1>9. \A u \in Threads \ {t} : loc'[u] # "run"
  BY <1>2, <1>3
<1> QED BY <1>7, <1>8, <1>9, OnlyOne

(* Writes.                                                                 *)
LEMMA WriteEffect ==
  ASSUME NoOffsetSet, TInv, CInv, NEW t \in Threads, Write(t)
  PROVE  CInv'
<1> DEFINE s == job[t][1]
           r == req[t]
<1>1. At(t, {"write"}) /\ At(t, Reads \cup {"write"})
  BY DEF Write, At
<1>2. /\ job[t] # << >> /\ Head(job[t]) = s /\ s.op = "write" /\ loc[t] = "run"
      /\ r \in scen.requests /\ scen \in Scenarios /\ Tame(r) /\ sysfsReg \in Regs(Drv)
      /\ \A u \in Threads \ {t} : loc[u] # "run"
  BY <1>1, Transfer, AtWork DEF At, NoOffsetSet, Tame, Drv, TInv, Arrays
<1>3. UNCHANGED <<scen, addr, sysfsReg, mutex, loc, req, saved, ok, faults>> /\ Continue(t, 0)
  BY DEF Write
<1>4. job'[t] = Rest(job[t], 0)
  BY <1>2, <1>3, Continued
<1>5. JobInv(t) /\ DoneInv(t)
  BY DEF CInv
<1>6. ~ SetsFps(t) => TempAgrees(t)'
  <2>1. SUFFICES ASSUME ~ SetsFps(t) PROVE TempAgrees(t)'
    OBVIOUS
  <2>2. UNCHANGED <<scen, req, sysfsReg>>
    BY <1>3
  <2> QED BY <1>2, <1>4, <1>5, <2>1, <2>2, TempStep
<1>7. JobInv(t)'
  BY <1>2, <1>3, <1>4, <1>5, <1>6, JobStep
<1>8. DoneInv(t)'
  <2>1. SUFFICES ASSUME r.by = "ioctl", ok[t], NEW e \in Effect(r)
                 PROVE  e \in Pending(Rest(job[t], 0)) \/ regs'[e[1]][e[2]][e[3]] = e[4]
    <3>1. Pending(job[t])' = Pending(Rest(job[t], 0)) /\ Effect(req[t])' = Effect(r)
      BY <1>3, <1>4, SamePending, SameEffect
    <3> QED BY <1>3, <3>1 DEF DoneInv
  <2>2. Pending(job[t]) = Written(s) \cup Pending(Rest(job[t], 0))
    BY <1>2, AtWork, PendingRest
  <2>3. /\ \A d \in Written(s) : regs'[d[1]][d[2]][d[3]] = d[4]
        /\ \A p \in Panel : \A g \in Regs(Drv) : \A f \in Fields(Drv, g) :
             \/ regs'[p][g][f] = regs[p][g][f]
             \/ <<p, g, f, regs'[p][g][f]>> \in Written(s)
             \/ <<p, g, f>> \in CopyNames(r)
             \/ SetsFps(t)
    <3> HIDE DEF s
    <3> QED BY <1>5, WriteResult DEF s
  <2>4. CopyNames(r) = {} /\ Sensors(r) = {} /\ ~ SetsFps(t)
    BY <2>1 DEF CopyNames, Sensors, SetsFps
  <2>5. Written(s) \subseteq Effect(r)
    BY <1>2, <1>5, <2>2, <2>4 DEF JobInv
  <2>6. e \in Written(s) \/ e \in Pending(Rest(job[t], 0)) \/ regs[e[1]][e[2]][e[3]] = e[4]
    BY <1>2, <1>5, <2>1, <2>2 DEF DoneInv
  <2>7. e = <<e[1], e[2], e[3], e[4]>> /\ e[1] \in Panel /\ e[2] \in Regs(Drv) /\ e[3] \in Fields(Drv, e[2])
    BY <1>2, <2>1, EffectPlace
  <2>8. CASE regs[e[1]][e[2]][e[3]] = e[4]
    <3> DEFINE x == regs'[e[1]][e[2]][e[3]]
               d == <<e[1], e[2], e[3], x>>
    <3>1. x = regs[e[1]][e[2]][e[3]] \/ d \in Written(s)
      BY <2>3, <2>4, <2>7
    <3>2. CASE d \in Written(s)
      <4>1. d \in Effect(r) /\ <<d[1], d[2], d[3]>> = <<e[1], e[2], e[3]>>
        BY <2>5, <3>2
      <4> HIDE DEF d
      <4>2. d[4] = e[4]
        BY <1>2, <2>1, <4>1, OneValue
      <4> QED BY <4>2 DEF d
    <3> QED BY <2>8, <3>1, <3>2
  <2> QED BY <2>3, <2>6, <2>8
<1>9. \A u \in Threads \ {t} : loc'[u] # "run"
  BY <1>2, <1>3
<1> QED BY <1>7, <1>8, <1>9, OnlyOne

(* A thread whose variables and registers stay as they are.                *)
LEMMA Undisturbed ==
  ASSUME NEW t \in Threads, JobInv(t), DoneInv(t), UNCHANGED <<scen, regs, sysfsReg>>,
         loc'[t] = loc[t], req'[t] = req[t], job'[t] = job[t], temp'[t] = temp[t], ok'[t] = ok[t]
  PROVE  JobInv(t)' /\ DoneInv(t)'
<1>1. Drv' = Drv
  BY DEF Drv
<1>2. Effect(req[t])' = Effect(req[t]) /\ Sensors(req[t])' = Sensors(req[t]) /\ CopyNames(req[t])' = CopyNames(req[t])
      /\ Kind(req[t])' = Kind(req[t])
  BY SameEffect
<1>3. Pending(job[t])' = Pending(job[t]) /\ Aligned(job[t])' = Aligned(job[t])
  BY SamePending
<1>4. SetsFps(t)' = SetsFps(t)
  BY DEF SetsFps
<1>5. TempAgrees(t) => TempAgrees(t)'
  BY <1>1, <1>2 DEF TempAgrees, Partial
<1>6. JobInv(t)'
  BY <1>2, <1>3, <1>4, <1>5 DEF JobInv
<1>7. DoneInv(t)'
  BY <1>2, <1>3 DEF DoneInv
<1> QED BY <1>6, <1>7

(* The address of a read.                                                  *)
LEMMA SendAddressEffect ==
  ASSUME TInv, CInv, NEW t \in Threads, SendAddress(t)
  PROVE  CInv'
<1>1. UNCHANGED <<scen, regs, sysfsReg, loc, req, job, temp, ok>>
  BY DEF SendAddress
<1>2. ASSUME NEW u \in Threads
      PROVE  JobInv(u)' /\ DoneInv(u)'
  BY <1>1, Undisturbed DEF CInv
<1> QED BY <1>2 DEF CInv

(* The change of the address, and back.                                    *)
LEMMA AddrEffect ==
  ASSUME TInv, CInv, NEW t \in Threads, ChangeAddr(t) \/ RestoreAddr(t)
  PROVE  CInv'
<1> DEFINE s == job[t][1]
<1>1. job[t] # << >> /\ s.op \in {"take", "give"} /\ \A u \in Threads \ {t} : loc[u] # "run"
  BY AtWork DEF ChangeAddr, RestoreAddr, At
<1>2. SetsFps(t)
  <2>1. SUFFICES ASSUME ~ SetsFps(t) PROVE FALSE
    OBVIOUS
  <2>2. Sound(Drv, job[t]) /\ Len(job[t]) > 0 /\ Len(job[t]) \in Nat
    BY <1>1, <2>1, AtWork DEF TInv, HandlersOK, SoundOK
  <2> QED BY <1>1, <2>2 DEF Sound
<1>3. UNCHANGED <<scen, regs, sysfsReg, loc, req, temp, ok>>
  BY DEF ChangeAddr, RestoreAddr
<1>4. PICK k \in Nat : Continue(t, k)
  BY DEF ChangeAddr, RestoreAddr, End
<1>5. job'[t] = Rest(job[t], k)
  BY <1>1, <1>3, <1>4, Continued
<1>6. JobInv(t)'
  BY <1>1, <1>2, <1>3, <1>5, JobStep DEF CInv
<1>7. DoneInv(t)'
  BY <1>2, <1>3 DEF DoneInv, SetsFps
<1>8. \A u \in Threads \ {t} : loc'[u] # "run"
  BY <1>1, <1>3
<1> QED BY <1>6, <1>7, <1>8, OnlyOne

(* The question whether a sensor is on.                                    *)
LEMMA AskEffect ==
  ASSUME TInv, CInv, NEW t \in Threads, AskIfOn(t)
  PROVE  CInv'
<1> DEFINE s == job[t][1]
<1>1. job[t] # << >> /\ s.op = "ask" /\ \A u \in Threads \ {t} : loc[u] # "run"
  BY AtWork DEF AskIfOn, At
<1>2. ~ SetsFps(t) /\ Jump(s) = 1
  BY <1>1, FpsPlace DEF Jump
<1>3. UNCHANGED <<scen, regs, sysfsReg, loc, req, temp, ok>>
  BY DEF AskIfOn, hw
<1>4. PICK k \in {0, Jump(s)} : Continue(t, k)
  BY <1>2 DEF AskIfOn
<1>5. k \in Nat
  BY <1>2
<1>6. job'[t] = Rest(job[t], k)
  BY <1>1, <1>3, <1>4, <1>5, Continued
<1>7. JobInv(t) /\ s \in Kind(req[t])
  BY <1>1, HeadKind DEF CInv
<1>8. TempAgrees(t)'
  <2>1. s.op \notin {"read", "readhv"} /\ UNCHANGED <<scen, req, sysfsReg>>
    BY <1>1, <1>3
  <2> HIDE DEF s
  <2> QED BY <1>1, <1>2, <1>4, <1>6, <1>7, <2>1, TempStep DEF s
<1>9. JobInv(t)'
  BY <1>1, <1>3, <1>5, <1>6, <1>7, <1>8, JobStep
<1>10. req[t].by # "ioctl"
  BY <1>1, <1>7 DEF Kind, Strict
<1>11. DoneInv(t)' /\ \A u \in Threads \ {t} : loc'[u] # "run"
  BY <1>1, <1>3, <1>10 DEF DoneInv
<1> QED BY <1>9, <1>11, OnlyOne

(* Steps that do not write set nothing.                                    *)
LEMMA NoWrites ==
  ASSUME NEW q, \A i \in 1 .. Len(q) : q[i].op # "write"
  PROVE  Pending(q) = {} /\ Pending(q)' = {} /\ OffLast(q)'
<1>1. \A i \in 1 .. Len(q) : Written(q[i]) = {}
  BY DEF Written
<1>2. \A i \in 1 .. Len(q) : Written(q[i])' = {}
  BY DEF Written
<1> QED BY <1>1, <1>2 DEF Pending, OffLast

(* The choice of a register for val: that handler does nothing else.       *)
LEMMA SelectEffect ==
  ASSUME TInv, CInv, NEW t \in Threads, SelectReg(t)
  PROVE  CInv'
<1> DEFINE s == job[t][1]
           r == req[t]
           q == Rest(job[t], 0)
<1>1. job[t] # << >> /\ s.op = "select" /\ loc[t] = "run" /\ \A u \in Threads \ {t} : loc[u] # "run"
  BY AtWork DEF SelectReg, At
<1>2. ~ SetsFps(t)
  BY <1>1, FpsPlace
<1>3. UNCHANGED <<scen, regs, loc, req, temp, ok>> /\ Continue(t, 0) /\ Drv' = Drv
  BY DEF SelectReg, Drv
<1>4. job'[t] = q
  BY <1>1, <1>3, Continued
<1>5. JobInv(t) /\ s \in Kind(r)
  BY <1>1, HeadKind DEF CInv
<1>6. r.by # "ioctl" /\ r.name = "reg" /\ Kind(r) = Selects(r)
  BY <1>1, <1>5 DEF Kind, Strict, Copying, Plain
<1>7. Kind(r)' = Selects(r)
  BY <1>3, <1>6 DEF Kind, Selects
<1>8. q \in Seq(Selects(r)) /\ Len(q) \in Nat /\ Aligned(q)
  BY <1>1, <1>2, <1>5, <1>6, Remainder, AlignedRest DEF JobInv
<1> HIDE DEF q
<1>9. \A i \in 1 .. Len(q) : q[i].op = "select"
  BY <1>8, LenProperties DEF Selects
<1>10. Pending(job[t])' = {}
  <2>1. \A i \in 1 .. Len(q) : q[i].op # "write"
    BY <1>9
  <2> QED BY <1>4, <2>1, NoWrites
<1>11. Aligned(job[t])'
  BY <1>3, <1>4, <1>8 DEF Aligned
<1>12. TempAgrees(t)'
  <2>1. q # << >> => q[1].op = "select"
    BY <1>8, <1>9, EmptySeq
  <2> QED BY <1>4, <2>1 DEF TempAgrees, Partial
<1>13. JobInv(t)'
  BY <1>3, <1>4, <1>7, <1>8, <1>10, <1>11, <1>12 DEF JobInv
<1>14. DoneInv(t)' /\ \A u \in Threads \ {t} : loc'[u] # "run"
  BY <1>1, <1>3, <1>6 DEF DoneInv
<1> QED BY <1>13, <1>14, OnlyOne

(* A handler begins with all of its work to do.                            *)
LEMMA BeginEffect ==
  ASSUME NoOffsetSet, TInv, NEW t \in Threads, NEW r \in scen.requests, req'[t] = r,
         \A u \in Threads \ {t} : loc'[u] # "run", UNCHANGED <<scen, hw>>, job'[t] = Steps(r)
  PROVE  CInv'
<1>1. scen \in Scenarios /\ sysfsReg \in Regs(Drv) /\ Tame(r) /\ sysfsReg' = sysfsReg /\ Drv' = Drv
  BY DEF NoOffsetSet, Tame, TInv, Arrays, hw, Drv
<1> DEFINE q == Steps(r)
<1>2. /\ q \in Seq(Kind(r)) /\ Pending(q) = Named(r) \cup Sensors(r)
      /\ ~ (r.by = "store" /\ r.name = "fps") => Aligned(q) /\ (q # << >> => Fresh(Drv, q[1]))
  BY <1>1, HandlerUnit
<1> HIDE DEF q
<1>3. Pending(job[t])' = Pending(q) /\ Effect(req[t])' = Effect(r) /\ Sensors(req[t])' = Sensors(r)
      /\ Kind(req[t])' = Kind(r) /\ Aligned(job[t])' = Aligned(q)
  BY <1>1, SameEffect, SamePending DEF q
<1>4. Named(r) \subseteq Effect(r)
  BY DEF Named
<1>5. ~ SetsFps(t)' => TempAgrees(t)' \/ loc'[t] # "run"
  <2>1. SUFFICES ASSUME ~ SetsFps(t)', loc'[t] = "run" PROVE TempAgrees(t)'
    OBVIOUS
  <2>2. q # << >> => ~ Partial(Drv, q[1])
    BY <1>2, <2>1 DEF SetsFps, Fresh
  <2> QED BY <1>1, <2>2 DEF TempAgrees, q
<1>6. ~ SetsFps(t)' => Aligned(q) \/ loc'[t] # "run"
  BY <1>2 DEF SetsFps
<1>7. job'[t] \in Seq(Kind(req[t])') /\ Pending(job[t])' \subseteq Effect(req[t])' \cup Sensors(req[t])'
  BY <1>2, <1>3, <1>4 DEF q
<1>8. JobInv(t)'
  BY <1>3, <1>5, <1>6, <1>7 DEF JobInv
<1>9. DoneInv(t)'
  <2>1. r.by = "ioctl" => Named(r) = Effect(r)
    BY NoCopies
  <2>2. r.by = "ioctl" => \A e \in Effect(r) : e \in Pending(q)
    BY <1>2, <2>1
  <2> QED BY <1>3, <2>2 DEF DoneInv
<1> QED BY <1>8, <1>9, OnlyOne

(* An attribute is opened; an ioctl gets the mutex, and nobody else runs.  *)
LEMMA StartEffect ==
  ASSUME NoOffsetSet, TInv, NEW t \in Threads, StartAttribute(t) \/ Lock(t)
  PROVE  /\ \E r \in scen.requests : req'[t] = r /\ job'[t] = Steps(r) /\ Begin(t, r)
         /\ \A u \in Threads \ {t} : loc[u] # "run" /\ loc'[u] # "run" /\ job'[u] = << >>
         /\ UNCHANGED <<scen, hw, faults>> /\ CInv'
<1>1. /\ loc \in [Threads -> {"idle", "wait", "run"}] /\ req \in [Threads -> scen.requests \cup {NoReq}]
      /\ DOMAIN job = Threads
  BY DEF TInv, Arrays
<1>2. UNCHANGED <<scen, hw, faults>>
  BY DEF StartAttribute, Lock
<1>3. PICK r \in scen.requests : req'[t] = r /\ Begin(t, r)
  <2>1. CASE StartAttribute(t)
    <3>1. PICK r \in scen.requests : req' = [req EXCEPT ![t] = r] /\ Begin(t, r)
      BY <2>1 DEF StartAttribute
    <3>2. req'[t] = r
      BY <1>1, <3>1
    <3> QED BY <3>1, <3>2
  <2>2. CASE Lock(t)
    <3>1. Begin(t, req[t]) /\ req' = req /\ loc[t] = "wait"
      BY <2>2 DEF Lock
    <3>2. req[t] \in scen.requests
      BY <1>1, <3>1 DEF TInv, RestInv
    <3> QED BY <3>1, <3>2
  <2> QED BY <2>1, <2>2
<1>4. loc' = [loc EXCEPT ![t] = "run"] /\ job' = [job EXCEPT ![t] = Steps(r)]
  BY <1>3 DEF Begin
<1>5. job'[t] = Steps(r) /\ \A u \in Threads \ {t} : loc'[u] = loc[u] /\ job'[u] = job[u]
  BY <1>1, <1>4
<1>6. ASSUME NEW u \in Threads \ {t}
      PROVE  loc[u] # "run"
  <2>1. CASE StartAttribute(t)
    BY <2>1 DEF StartAttribute, MayStart
  <2>2. CASE Lock(t)
    <3>1. loc[t] = "wait" /\ mutex = NoThread
      BY <2>2 DEF Lock
    <3>2. SUFFICES ASSUME loc[u] = "run" PROVE FALSE
      OBVIOUS
    <3>3. req[u].by = "ioctl"
      BY <3>1, <3>2 DEF TInv, ApartInv
    <3>4. mutex = u
      BY <3>2, <3>3 DEF TInv, RestInv
    <3> QED BY <3>1, <3>4, NoThreadAssumption
  <2> QED BY <2>1, <2>2
<1>7. \A u \in Threads \ {t} : loc'[u] # "run" /\ job'[u] = << >>
  BY <1>5, <1>6 DEF TInv, RestInv
<1>8. CInv'
  BY <1>2, <1>3, <1>5, <1>7, BeginEffect
<1> QED BY <1>2, <1>3, <1>5, <1>6, <1>7, <1>8

(* An ioctl is called, a handler returns, or nothing happens.              *)
LEMMA OtherEffect ==
  ASSUME TInv, CInv, NEW t \in Threads, StartIoctl(t) \/ Return(t) \/ UNCHANGED vars
  PROVE  CInv'
<1>1. loc \in [Threads -> {"idle", "wait", "run"}] /\ DOMAIN req = Threads /\ DOMAIN temp = Threads /\ DOMAIN ok = Threads
  BY DEF TInv, Arrays
<1>2. UNCHANGED <<scen, regs, sysfsReg, job>>
  BY DEF StartIoctl, Return, vars, hw
<1>3. ASSUME NEW u \in Threads
      PROVE  \/ loc'[u] # "run"
             \/ loc'[u] = loc[u] /\ req'[u] = req[u] /\ temp'[u] = temp[u] /\ ok'[u] = ok[u]
  <2>1. CASE StartIoctl(t)
    BY <1>1, <2>1 DEF StartIoctl
  <2>2. CASE Return(t)
    BY <1>1, <2>2 DEF Return
  <2>3. CASE UNCHANGED vars
    BY <2>3 DEF vars
  <2> QED BY <2>1, <2>2, <2>3
<1>4. ASSUME NEW u \in Threads
      PROVE  JobInv(u)' /\ DoneInv(u)'
  <2>1. CASE loc'[u] # "run"
    BY <2>1 DEF JobInv, DoneInv
  <2>2. CASE ~ (loc'[u] # "run")
    BY <1>2, <1>3, <2>2, Undisturbed DEF CInv
  <2> QED BY <2>1, <2>2
<1> QED BY <1>4 DEF CInv

(* Every step keeps what handlers promise.                                 *)
LEMMA NextEffect == NoOffsetSet /\ TInv /\ CInv /\ [Next]_vars => CInv'
<1> SUFFICES ASSUME NoOffsetSet, TInv, CInv, [Next]_vars PROVE CInv'
  OBVIOUS
<1>1. CASE UNCHANGED vars
  <2>1. CASE Threads = {}
    BY <2>1 DEF CInv
  <2>2. CASE Threads # {}
    BY <1>1, <2>2, OtherEffect
  <2> QED BY <2>1, <2>2
<1>2. CASE Next
  <2>1. PICK t \in Threads : StartAttribute(t) \/ StartIoctl(t) \/ Lock(t) \/ Proceed(t)
    BY <1>2 DEF Next
  <2>2. CASE StartAttribute(t) \/ Lock(t)
    BY <2>2, StartEffect
  <2>3. CASE StartIoctl(t) \/ Return(t)
    BY <2>3, OtherEffect
  <2>4. CASE SendAddress(t)
    BY <2>4, SendAddressEffect
  <2>5. CASE ReadCombined(t) \/ Fetch(t)
    BY <2>5, ReadEffect
  <2>6. CASE Fails(t)
    BY <2>6, FailEffect
  <2>7. CASE Write(t)
    BY <2>7, WriteEffect
  <2>8. CASE ChangeAddr(t) \/ RestoreAddr(t)
    BY <2>8, AddrEffect
  <2>9. CASE SelectReg(t)
    BY <2>9, SelectEffect
  <2>10. CASE AskIfOn(t)
    BY <2>10, AskEffect
  <2> QED BY <2>1, <2>2, <2>3, <2>4, <2>5, <2>6, <2>7, <2>8, <2>9, <2>10 DEF Proceed
<1> QED BY <1>1, <1>2

(* They hold always.                                                       *)
LEMMA EffectInvariance == ASSUME NoOffsetSet PROVE Spec => [](TInv /\ CInv)
<1>1. Init => TInv /\ CInv
  <2>1. Init => CInv
    BY DEF Init, CInv, JobInv, DoneInv
  <2> QED BY <2>1, InitTInv
<1>2. TInv /\ CInv /\ [Next]_vars => TInv' /\ CInv'
  BY NextKeeps, NextEffect
<1> QED BY <1>1, <1>2, PTL DEF Spec

(* SuccessIsComplete: an ioctl that returns success, and is not a stub,    *)
(* has set every field it was called for, whatever has failed before or    *)
(* during it.                                                              *)
THEOREM SuccessIsCompleteCorrect == ASSUME NoOffsetSet PROVE Spec => []SuccessIsComplete
<1>1. TInv /\ CInv => SuccessIsComplete
  <2> SUFFICES ASSUME CInv, NEW t \in Threads, AtEnd(t), req[t].by = "ioctl", ok[t], NEW e \in Effect(req[t])
               PROVE  regs[e[1]][e[2]][e[3]] = e[4]
    BY DEF SuccessIsComplete
  <2>1. loc[t] = "run" /\ job[t] = << >>
    BY DEF AtEnd
  <2>2. e \in Pending(job[t]) \/ regs[e[1]][e[2]][e[3]] = e[4]
    BY <2>1 DEF CInv, DoneInv
  <2>3. Pending(job[t]) = {}
    <3>1. Len(job[t]) = 0
      BY <2>1
    <3> QED BY <3>1 DEF Pending
  <2> QED BY <2>2, <2>3
<1> QED BY <1>1, EffectInvariance, PTL

-----------------------------------------------------------------------------
(* The scan bit of FPS.                                                    *)

(* A raw access is for the register that it names.                         *)
LEMMA RawPlace ==
  ASSUME NEW r, Raw(r), NEW e \in Effect(r)
  PROVE  e[2] = IF r.name = "val" THEN sysfsReg ELSE r.reg
<1>1. CASE r.name = "WRITE_REG"
  <2>1. Effect(r) \subseteq On("R", r.reg, [f \in Fields(Drv, r.reg) |-> 0])
    BY <1>1 DEF Effect, Fields, Drv
  <2> QED BY <1>1, <2>1 DEF On
<1>2. CASE r.name = "val"
  <2>1. Effect(r) \subseteq On("R", sysfsReg, [f \in Fields(Drv, sysfsReg) |-> 0])
    BY <1>2 DEF Effect, Fields, Drv
  <2> QED BY <1>2, <2>1 DEF On
<1> QED BY <1>1, <1>2 DEF Raw

(* No other request is for the scan bit.                                   *)
LEMMA ScanUnnamed ==
  ASSUME NoOffsetSet, RawElsewhere, TInv, NEW r \in scen.requests, sysfsReg \notin Paired, NEW e \in Effect(r)
  PROVE  ~ (e[2] = "FPS" /\ e[3] = "scan")
<1>1. SUFFICES ASSUME e[2] = "FPS", e[3] = "scan" PROVE FALSE
  OBVIOUS
<1>2. scen \in Scenarios /\ sysfsReg \in Regs(Drv) /\ Tame(r)
  BY DEF TInv, Arrays, NoOffsetSet, Tame, Drv
<1>3. Valued(r, e)
  <2>1. r.by # "show"
    BY NoEffect
  <2> QED BY <1>2, <2>1, ScenarioRequest, EffectValued
<1>4. Raw(r)
  BY <1>1, <1>3 DEF Valued
<1>5. e[2] = IF r.name = "val" THEN sysfsReg ELSE r.reg
  BY <1>4, RawPlace
<1>6. CASE r.name = "val"
  BY <1>1, <1>5, <1>6 DEF Paired
<1>7. CASE r.name = "WRITE_REG"
  <2>1. r.reg \notin Paired
    BY <1>2, <1>7 DEF RawElsewhere
  <2> QED BY <1>1, <1>5, <1>7, <2>1 DEF Paired
<1> QED BY <1>4, <1>6, <1>7 DEF Raw

(* What holds of the registers and of the handler that runs.               *)
LEMMA ScanKept ==
  ASSUME ScanInv, NEW t \in Threads, UNCHANGED <<scen, regs>>, sysfsReg' \notin Paired, HoldsScan(t)',
         \A u \in Threads \ {t} : loc'[u] # "run"
  PROVE  ScanInv'
<1>1. Drv' = Drv
  BY DEF Drv
<1>2. ASSUME NEW u \in Threads PROVE HoldsScan(u)'
  <2>1. CASE u = t
    BY <2>1
  <2>2. CASE u # t
    BY <2>2 DEF HoldsScan, SetsFps
  <2> QED BY <2>1, <2>2
<1> QED BY <1>1, <1>2 DEF ScanInv

(* A handler other than store_fps, and one that has just begun.            *)
LEMMA ScanElse ==
  ASSUME NEW t \in Threads, ~ SetsFps(t)' \/ Len(job'[t]) \notin {1, 2}
  PROVE  HoldsScan(t)'
  BY DEF HoldsScan

(* No write changes the bit.                                               *)
LEMMA WriteScan ==
  ASSUME NoOffsetSet, RawElsewhere, TInv, CInv, ScanInv, Drv = "jbd4040", NEW t \in Threads, Write(t), NEW p \in Panel
  PROVE  regs'[p]["FPS"]["scan"] = regs[p]["FPS"]["scan"]
<1> DEFINE s == job[t][1]
           x == regs'[p]["FPS"]["scan"]
           e == <<p, "FPS", "scan", x>>
<1>1. At(t, {"write"}) /\ At(t, Reads \cup {"write"})
  BY DEF Write, At
<1>2. /\ job[t] # << >> /\ s.op = "write" /\ loc[t] = "run" /\ req[t] \in scen.requests /\ JobInv(t)
  BY <1>1, Transfer, AtWork DEF At, CInv
<1>3. "FPS" \in Regs(Drv) /\ "scan" \in Fields(Drv, "FPS")
  BY DEF Regs, Width, Fields
<1>4. \/ x = regs[p]["FPS"]["scan"]
      \/ e \in Written(s)
      \/ <<p, "FPS", "scan">> \in CopyNames(req[t])
      \/ SetsFps(t) /\ x = temp[t]["scan"]
  <2> HIDE DEF s
  <2> QED BY <1>2, <1>3, WriteResult DEF s
<1>5. e \notin Written(s)
  <2>1. Written(s) \subseteq Effect(req[t]) \cup Sensors(req[t])
    BY <1>2, AtWork, PendingRest DEF JobInv
  <2>2. e[2] = "FPS" /\ e[3] = "scan"
    OBVIOUS
  <2> HIDE DEF e
  <2>3. e \notin Effect(req[t])
    BY <1>2, <2>2, ScanUnnamed DEF ScanInv
  <2>4. e \notin Sensors(req[t])
    BY <2>2 DEF Sensors
  <2> QED BY <2>1, <2>3, <2>4
<1>6. <<p, "FPS", "scan">> \notin CopyNames(req[t])
  BY DEF CopyNames
<1>7. SetsFps(t) => temp[t]["scan"] = regs[p]["FPS"]["scan"]
  <2>1. SetsFps(t) => Len(job[t]) = 1
    BY <1>2, FpsPlace
  <2> QED BY <2>1 DEF ScanInv, HoldsScan
<1> QED BY <1>4, <1>5, <1>6, <1>7

(* Writes.                                                                 *)
LEMMA ScanAfterWrite ==
  ASSUME NoOffsetSet, RawElsewhere, TInv, CInv, ScanInv, NEW t \in Threads, Write(t)
  PROVE  ScanInv'
<1>1. At(t, {"write"}) /\ At(t, Reads \cup {"write"})
  BY DEF Write, At
<1>2. /\ job[t] # << >> /\ job[t][1].op = "write" /\ \A u \in Threads \ {t} : loc[u] # "run"
  BY <1>1, Transfer, AtWork DEF At
<1>3. UNCHANGED <<scen, addr, sysfsReg, mutex, loc, req, saved, ok, faults>> /\ Continue(t, 0) /\ Drv' = Drv
  BY DEF Write, Drv
<1>4. job'[t] = Rest(job[t], 0)
  BY <1>2, <1>3, Continued
<1>5. ASSUME Drv = "jbd4040", NEW p \in Panel
      PROVE  regs'[p]["FPS"]["scan"] = regs'["R"]["FPS"]["scan"]
  <2>1. /\ regs'[p]["FPS"]["scan"] = regs[p]["FPS"]["scan"]
        /\ regs'["R"]["FPS"]["scan"] = regs["R"]["FPS"]["scan"]
    BY <1>5, WriteScan, PanelNames
  <2> QED BY <1>5, <2>1 DEF ScanInv
<1>6. ASSUME NEW u \in Threads
      PROVE  HoldsScan(u)'
  <2>1. CASE u = t /\ SetsFps(t)
    <3>1. Len(job[t]) = 1
      BY <1>2, <2>1, FpsPlace
    <3>2. Len(job'[t]) = Len(job[t]) - 1
      BY <1>2, <1>4, <2>1, FpsNext
    <3>3. Len(job'[t]) = 0
      BY <3>1, <3>2
    <3> QED BY <2>1, <3>3, ScanElse
  <2>2. CASE ~ (u = t /\ SetsFps(t))
    <3>1. ~ SetsFps(u)'
      BY <1>2, <1>3, <2>2 DEF SetsFps
    <3> QED BY <3>1, ScanElse
  <2> QED BY <2>1, <2>2
<1> QED BY <1>3, <1>5, <1>6 DEF ScanInv

(* Steps of the running handler that do not write.                         *)
LEMMA ScanWhile ==
  ASSUME TInv, CInv, ScanInv, NEW t \in Threads,
         ReadCombined(t) \/ Fetch(t) \/ Fails(t) \/ ChangeAddr(t) \/ RestoreAddr(t) \/ AskIfOn(t)
  PROVE  ScanInv'
<1> DEFINE s == job[t][1]
           n == Len(job[t])
<1>1. job[t] # << >> /\ Head(job[t]) = s /\ \A u \in Threads \ {t} : loc[u] # "run"
  BY AtWork DEF ReadCombined, Fetch, Fails, ChangeAddr, RestoreAddr, AskIfOn, At
<1>2. UNCHANGED <<scen, regs, sysfsReg, loc, req>>
  BY DEF ReadCombined, Fetch, Arrive, Fails, ChangeAddr, RestoreAddr, AskIfOn, hw
<1>3. SetsFps(t)' = SetsFps(t)
  BY <1>2 DEF SetsFps
<1>4. ASSUME SetsFps(t)
      PROVE  HoldsScan(t)'
  <2>1. Drv = "jbd4040" /\ n \in 1 .. 4
    BY <1>1, <1>4, FpsHead
  <2>2. CASE ReadCombined(t) \/ Fetch(t)
    <3>1. At(t, Reads) /\ At(t, Reads \cup {"write"})
      BY <2>2 DEF ReadCombined, Fetch, At
    <3>2. n = 3 /\ s.op = "read" /\ s.reg = "FPS"
      BY <1>1, <1>4, <3>1, FpsPlace DEF At
    <3>3. Dest(t) \in SUBSET Panel /\ RegOf(t) = "FPS" /\ DOMAIN temp = Threads
      BY <3>1, <3>2, Transfer DEF TInv, Arrays
    <3>4. PICK p \in Dest(t) : Arrive(t, regs[p]["FPS"])
      <4>1. CASE ReadCombined(t)
        BY <3>3, <4>1 DEF ReadCombined
      <4>2. CASE Fetch(t)
        BY <3>3, <4>2 DEF Fetch, TInv, HandlersOK, SentOK
      <4> QED BY <2>2, <4>1, <4>2
    <3>5. temp'[t] = regs[p]["FPS"]
      BY <1>1, <3>2, <3>3, <3>4 DEF Arrive
    <3> QED BY <1>2, <2>1, <3>3, <3>5 DEF ScanInv, HoldsScan
  <2>3. CASE Fails(t)
    <3>1. At(t, Reads \cup {"write"}) /\ Continue(t, s.fail.skip) /\ ok' = [ok EXCEPT ![t] = @ /\ ~ s.fail.err]
      BY <1>1, <2>3 DEF Fails
    <3>2. s.fail = Note /\ (n = 1 \/ n = 3)
      BY <1>1, <1>4, <3>1, FpsPlace DEF At
    <3>3. s.fail.err /\ s.fail.skip = 0
      BY <3>2 DEF Note
    <3>4. ~ ok'[t]
      BY <3>1, <3>3 DEF TInv, Arrays
    <3>5. Continue(t, 0)
      BY <3>1, <3>3
    <3>6. job'[t] = Rest(job[t], 0)
      BY <1>1, <1>2, <3>5, Continued
    <3>7. Len(job'[t]) = n - 1
      BY <1>1, <1>4, <3>6, FpsNext
    <3>8. Len(job'[t]) # 1
      <4> DEFINE m == Len(job'[t])
      <4>1. m = n - 1 /\ (n = 1 \/ n = 3)
        BY <3>2, <3>7
      <4> HIDE DEF m, n
      <4>2. m # 1
        BY <4>1
      <4> QED BY <4>2 DEF m
    <3> QED BY <3>4, <3>8 DEF HoldsScan
  <2>4. CASE ChangeAddr(t)
    <3>1. s.op = "take" /\ Continue(t, 0)
      BY <1>1, <2>4 DEF ChangeAddr, At
    <3>2. job'[t] = Rest(job[t], 0) /\ n = 4
      BY <1>1, <1>2, <1>4, <3>1, Continued, FpsPlace
    <3>3. Len(job'[t]) = n - 1
      BY <1>1, <1>4, <3>2, FpsNext
    <3>4. Len(job'[t]) = 3
      BY <3>2, <3>3
    <3> QED BY <3>4, ScanElse
  <2>5. CASE RestoreAddr(t)
    <3>1. s.op = "give" /\ UNCHANGED <<temp, ok>> /\ Continue(t, IF ok[t] THEN 0 ELSE End.skip)
      BY <1>1, <2>5 DEF RestoreAddr, At
    <3>2. n = 2
      BY <1>1, <1>4, <3>1, FpsPlace
    <3>3. CASE ok[t]
      BY <1>2, <1>3, <1>4, <3>1, <3>2, <3>3 DEF ScanInv, HoldsScan
    <3>4. CASE ~ ok[t]
      <4>1. job'[t] = Rest(job[t], 99)
        BY <1>1, <1>2, <3>1, <3>4, Continued DEF End
      <4>2. Len(Rest(job[t], 99)) = IF 99 + 1 <= n THEN n - (99 + 1) ELSE 0
        BY <1>1, <1>4, FpsRest
      <4>3. Len(job'[t]) = 0
        BY <3>2, <4>1, <4>2
      <4> QED BY <4>3, ScanElse
    <3> QED BY <3>3, <3>4
  <2>6. CASE AskIfOn(t)
    BY <1>1, <1>4, <2>6, FpsPlace DEF AskIfOn, At
  <2> QED BY <2>2, <2>3, <2>4, <2>5, <2>6
<1>5. HoldsScan(t)' /\ \A u \in Threads \ {t} : loc'[u] # "run"
  BY <1>1, <1>2, <1>3, <1>4, ScanElse
<1> QED BY <1>2, <1>5, ScanKept DEF ScanInv

(* Steps in which no handler that runs takes anything from its list.       *)
LEMMA ScanAside ==
  ASSUME ScanInv, UNCHANGED <<scen, regs, sysfsReg>>,
         \A u \in Threads : \/ ~ SetsFps(u)'
                            \/ /\ SetsFps(u) /\ job'[u] = job[u] /\ temp'[u] = temp[u] /\ ok'[u] = ok[u]
                            \/ Len(job'[u]) \notin {1, 2}
  PROVE  ScanInv'
<1>1. Drv' = Drv
  BY DEF Drv
<1>2. \A u \in Threads : HoldsScan(u)'
  BY DEF ScanInv, HoldsScan
<1> QED BY <1>1, <1>2 DEF ScanInv

(* Every step.                                                             *)
LEMMA NextScan == NoOffsetSet /\ RawElsewhere /\ TInv /\ CInv /\ ScanInv /\ [Next]_vars => ScanInv'
<1> SUFFICES ASSUME NoOffsetSet, RawElsewhere, TInv, CInv, ScanInv, [Next]_vars PROVE ScanInv'
  OBVIOUS
<1>1. CASE UNCHANGED vars
  BY <1>1, ScanAside DEF vars, hw, SetsFps
<1>2. CASE Next
  <2>1. PICK t \in Threads : StartAttribute(t) \/ StartIoctl(t) \/ Lock(t) \/ Proceed(t)
    BY <1>2 DEF Next
  <2>2. CASE StartAttribute(t) \/ Lock(t)
    <3>1. PICK r \in scen.requests : req'[t] = r /\ job'[t] = Steps(r)
      BY <2>2, StartEffect
    <3>2. UNCHANGED <<scen, hw>> /\ \A u \in Threads \ {t} : loc'[u] # "run"
      BY <2>2, StartEffect
    <3>3. SetsFps(t)' => Len(job'[t]) = 4
      <4>1. SUFFICES ASSUME r.by = "store", r.name = "fps" PROVE Len(job'[t]) = 4
        BY <3>1 DEF SetsFps
      <4> QED BY <3>1, <4>1, FpsHandler DEF TInv, Arrays
    <3> QED BY <3>2, <3>3, ScanAside DEF SetsFps, hw
  <2>3. CASE StartIoctl(t)
    <3>1. loc \in [Threads -> {"idle", "wait", "run"}] /\ DOMAIN req = Threads
      BY DEF TInv, Arrays
    <3>2. UNCHANGED <<scen, hw, job, temp, ok>> /\ loc'[t] # "run"
      BY <2>3, <3>1 DEF StartIoctl
    <3>3. \A u \in Threads \ {t} : loc'[u] = loc[u] /\ req'[u] = req[u]
      BY <2>3, <3>1 DEF StartIoctl
    <3> QED BY <3>2, <3>3, ScanAside DEF SetsFps, hw
  <2>4. CASE SendAddress(t)
    BY <2>4, ScanAside DEF SendAddress, SetsFps
  <2>5. CASE Write(t)
    BY <2>5, ScanAfterWrite
  <2>6. CASE ReadCombined(t) \/ Fetch(t) \/ Fails(t) \/ ChangeAddr(t) \/ RestoreAddr(t) \/ AskIfOn(t)
    BY <2>6, ScanWhile
  <2>7. CASE SelectReg(t)
    <3> DEFINE s == job[t][1]
    <3>1. job[t] # << >> /\ s.op = "select" /\ loc[t] = "run" /\ Head(job[t]) = s
          /\ req[t] \in scen.requests /\ scen \in Scenarios /\ \A u \in Threads \ {t} : loc[u] # "run"
      BY <2>7, AtWork DEF SelectReg, At
    <3>2. s \in Kind(req[t])
      BY <3>1, HeadKind DEF CInv
    <3>3. req[t].name = "reg" /\ s.reg = req[t].reg
      BY <3>1, <3>2 DEF Kind, Strict, Selects, Copying, Plain
    <3>4. sysfsReg' \notin Paired
      BY <2>7, <3>1, <3>3 DEF SelectReg, RawElsewhere
    <3>5. ~ SetsFps(t)' /\ UNCHANGED <<scen, regs>> /\ \A u \in Threads \ {t} : loc'[u] # "run"
      BY <2>7, <3>1, <3>3 DEF SelectReg, SetsFps
    <3> QED BY <3>4, <3>5, ScanElse, ScanKept
  <2>8. CASE Return(t)
    <3>1. /\ loc[t] = "run" /\ loc' = [loc EXCEPT ![t] = "idle"] /\ UNCHANGED <<scen, hw>>
          /\ loc \in [Threads -> {"idle", "wait", "run"}]
      BY <2>8 DEF Return, AtEnd, TInv, Arrays
    <3>2. \A u \in Threads : loc'[u] # "run"
      BY <3>1, OneRuns DEF TInv
    <3> QED BY <3>1, <3>2, ScanAside DEF SetsFps, hw
  <2> QED BY <2>1, <2>2, <2>3, <2>4, <2>5, <2>6, <2>7, <2>8 DEF Proceed
<1> QED BY <1>1, <1>2

(* The panel drivers leave panels that agree.                              *)
LEMMA InitScan == Init => ScanInv
<1> SUFFICES ASSUME Init PROVE ScanInv
  OBVIOUS
<1>1. sysfsReg \notin Paired
  BY DEF Init, Paired
<1>2. ASSUME Drv = "jbd4040", NEW p \in Panel
      PROVE  regs[p]["FPS"]["scan"] = regs["R"]["FPS"]["scan"]
  <2>1. regs[p] = Booted("jbd4040", p) /\ regs["R"] = Booted("jbd4040", "R")
    BY <1>2, PanelNames DEF Init, Drv
  <2>2. \A x : Booted("jbd4040", x)["FPS"]["scan"] = 1
    BY DEF Booted
  <2> QED BY <2>1, <2>2
<1>3. \A t \in Threads : HoldsScan(t)
  BY DEF Init, HoldsScan, SetsFps
<1> QED BY <1>1, <1>2, <1>3 DEF ScanInv

(* Only a write changes a register.                                        *)
LEMMA ChangedByWrite ==
  ASSUME [Next]_vars, regs' # regs
  PROVE  \E t \in Threads : Write(t)
  BY DEF Next, Proceed, vars, hw, StartAttribute, StartIoctl, Lock, SendAddress, ReadCombined, Fetch, Arrive, Fails,
         ChangeAddr, RestoreAddr, SelectReg, AskIfOn, Return

(* FPS is a register of the JBD4040.                                       *)
LEMMA FpsDriver ==
  ASSUME TInv, "FPS" \in Regs(Drv)
  PROVE  Drv = "jbd4040"
<1>1. Drv \in {"jbd4020", "jbd4040"}
  BY ScenariosAssumption DEF TInv, Arrays, Drv
<1> QED BY <1>1 DEF Regs, Width

(* OnlyNamedFieldsChange: a transfer changes no field that the handler it  *)
(* is part of was not called for, in any register of any panel.            *)
THEOREM OnlyNamedFieldsChangeCorrect == ASSUME NoOffsetSet, RawElsewhere PROVE Spec => OnlyNamedFieldsChange
<1> DEFINE Kept == \A p \in Panel : \A r \in Regs(scen.drv) : \A f \in DOMAIN Width[scen.drv][r] :
                     regs'[p][r][f] # regs[p][r][f] =>
                       \E t \in Threads : loc[t] = "run" /\ <<p, r, f>> \in {<<e[1], e[2], e[3]>> : e \in Reach(t)}
<1>1. Init => TInv /\ CInv /\ ScanInv
  <2>1. Init => CInv
    BY DEF Init, CInv, JobInv, DoneInv
  <2> QED BY <2>1, InitTInv, InitScan
<1>2. TInv /\ CInv /\ ScanInv /\ [Next]_vars => TInv' /\ CInv' /\ ScanInv'
  BY NextKeeps, NextEffect, NextScan
<1>3. TInv /\ CInv /\ ScanInv /\ [Next]_vars => Kept
  <2> SUFFICES ASSUME TInv, CInv, ScanInv, [Next]_vars, NEW p \in Panel, NEW r \in Regs(Drv), NEW f \in Fields(Drv, r),
                      regs'[p][r][f] # regs[p][r][f]
               PROVE  \E t \in Threads : loc[t] = "run" /\ <<p, r, f>> \in {<<e[1], e[2], e[3]>> : e \in Reach(t)}
    BY DEF Drv, Fields
  <2>1. PICK t \in Threads : Write(t)
    BY ChangedByWrite
  <2>2. job[t] # << >> /\ loc[t] = "run" /\ req[t] \in scen.requests /\ JobInv(t)
    BY <2>1, AtWork DEF Write, At, CInv
  <2> DEFINE x == regs'[p][r][f]
             e == <<p, r, f, x>>
             s == job[t][1]
  <2>3. \/ e \in Written(s)
        \/ <<p, r, f>> \in CopyNames(req[t])
        \/ SetsFps(t) /\ r = "FPS" /\ f = "scan"
    <3> HIDE DEF s
    <3> QED BY <2>1, <2>2, WriteResult DEF s
  <2>4. ~ (r = "FPS" /\ f = "scan")
    BY <2>1, WriteScan, FpsDriver
  <2>5. CASE e \in Written(s)
    <3>1. e \in Effect(req[t]) \cup Sensors(req[t])
      BY <2>2, <2>5, AtWork, PendingRest DEF JobInv
    <3>2. <<e[1], e[2], e[3]>> = <<p, r, f>>
      OBVIOUS
    <3> HIDE DEF e
    <3>3. CASE e \in Effect(req[t])
      BY <2>2, <3>2, <3>3 DEF Reach
    <3>4. CASE e \in Sensors(req[t])
      <4>1. req[t].name = "temperature" /\ scen.drv = "jbd4040" /\ <<p, r, f>> = <<p, "PVT", "ctl">>
        BY <3>2, <3>4 DEF Sensors, Drv
      <4>2. <<p, "PVT", "ctl">> \in Reach(t)
        BY <4>1 DEF Reach
      <4> QED BY <2>2, <4>1, <4>2
    <3> QED BY <3>1, <3>3, <3>4
  <2>6. CASE <<p, r, f>> \in CopyNames(req[t])
    <3>1. req[t].name = "offset" /\ req[t].by = "store" /\ <<p, r, f>> \in {<<req[t].p, "VO", g>> : g \in {"h", "v"}}
      BY <2>6 DEF CopyNames
    <3>2. <<p, r, f>> \in Reach(t)
      BY <3>1 DEF Reach
    <3> QED BY <2>2, <3>2
  <2> QED BY <2>3, <2>4, <2>5, <2>6
<1> QED BY <1>1, <1>2, <1>3, PTL DEF Spec, OnlyNamedFieldsChange

-----------------------------------------------------------------------------
(* What is wanted.                                                         *)

(* What is left of a list switches off what it switches on.                *)
LEMMA OffRest ==
  ASSUME NEW S, NEW q \in Seq(S), q # << >>, OffLast(q), NEW k \in Nat
  PROVE  OffLast(Rest(q, k))
<1> DEFINE r == Rest(q, k)
<1>1. /\ Len(q) \in Nat /\ Len(r) \in Nat
      /\ k + 1 <= Len(q) => Len(r) = Len(q) - (k + 1)
      /\ \A i \in 1 .. Len(r) : i + k + 1 \in 1 .. Len(q) /\ r[i] = q[i + k + 1]
  BY Remainder, LenProperties
<1> HIDE DEF r
<1>2. ASSUME NEW i \in 1 .. Len(r), NEW p \in Panel, <<p, "PVT", "ctl", 3>> \in Written(r[i])
      PROVE  \E j \in i + 1 .. Len(r) : <<p, "PVT", "ctl", 0>> \in Written(r[j])
  <2>1. i + k + 1 \in 1 .. Len(q) /\ r[i] = q[i + k + 1]
    BY <1>1
  <2>2. PICK m \in (i + k + 1) + 1 .. Len(q) : <<p, "PVT", "ctl", 0>> \in Written(q[m])
    BY <1>2, <2>1 DEF OffLast
  <2> DEFINE j == m - (k + 1)
  <2>3. j \in i + 1 .. Len(r) /\ j \in 1 .. Len(r) /\ j + k + 1 = m
    BY <1>1, <2>1, <2>2
  <2>4. r[j] = q[m]
    BY <1>1, <2>3
  <2> QED BY <2>2, <2>3, <2>4
<1>3. OffLast(r)
  BY <1>2 DEF OffLast
<1> QED BY <1>3 DEF r

(* The registers after a request: what it asks for, and the rest as before.*)
LEMMA ApplyEffect ==
  ASSUME NoOffsetSet, TInv, File(goal), NEW r \in scen.requests
  PROVE  LET new == Apply(r, goal) IN
         /\ new = [p \in Panel |-> [g \in Regs(Drv) |-> [f \in Fields(Drv, g) |-> new[p][g][f]]]]
         /\ \A p \in Panel : \A g \in Regs(Drv) : \A f \in Fields(Drv, g) :
              \/ <<p, g, f, new[p][g][f]>> \in Effect(r)
              \/ new[p][g][f] = goal[p][g][f] /\ \A x : <<p, g, f, x>> \notin Effect(r)
<1> DEFINE new == Apply(r, goal)
           set(p, g, f) == {e[4] : e \in {d \in Effect(r) : <<d[1], d[2], d[3]>> = <<p, g, f>>}}
           y(p, g, f) == IF set(p, g, f) = {} THEN goal[p][g][f] ELSE CHOOSE v \in set(p, g, f) : TRUE
<1>1. scen \in Scenarios /\ sysfsReg \in Regs(Drv) /\ Tame(r)
  BY DEF NoOffsetSet, Tame, Drv, TInv, Arrays
<1>2. new = [p \in Panel |-> [g \in DOMAIN goal[p] |-> [f \in DOMAIN goal[p][g] |-> y(p, g, f)]]]
  BY DEF Apply
<1>3. \A p \in Panel : DOMAIN goal[p] = Regs(Drv) /\ \A g \in Regs(Drv) : DOMAIN goal[p][g] = Fields(Drv, g)
  BY DEF File
<1>4. \A p, g, f : set(p, g, f) = {} => \A x : <<p, g, f, x>> \notin Effect(r)
  <2>1. ASSUME NEW p, NEW g, NEW f, NEW x, <<p, g, f, x>> \in Effect(r)
        PROVE  set(p, g, f) # {}
    <3> DEFINE e == <<p, g, f, x>>
    <3>1. e \in {d \in Effect(r) : <<d[1], d[2], d[3]>> = <<p, g, f>>}
      BY <2>1
    <3>2. e[4] \in set(p, g, f)
      BY <3>1
    <3> QED BY <3>2
  <2> QED BY <2>1
<1>5. ASSUME NEW p, NEW g, NEW f, set(p, g, f) # {}
      PROVE  <<p, g, f, CHOOSE v \in set(p, g, f) : TRUE>> \in Effect(r)
  <2> DEFINE c == CHOOSE v \in set(p, g, f) : TRUE
  <2>1. c \in set(p, g, f)
    BY <1>5
  <2> HIDE DEF c
  <2>2. PICK e \in Effect(r) : <<e[1], e[2], e[3]>> = <<p, g, f>> /\ c = e[4]
    BY <2>1
  <2>3. e = <<e[1], e[2], e[3], e[4]>>
    BY <1>1, EffectPlace
  <2>4. <<p, g, f, c>> \in Effect(r)
    BY <2>2, <2>3
  <2> QED BY <2>4 DEF c
<1> HIDE DEF set, new
<1>6. \A p \in Panel : \A g \in Regs(Drv) : \A f \in Fields(Drv, g) : new[p][g][f] = y(p, g, f)
  BY <1>2, <1>3
<1>7. new = [p \in Panel |-> [g \in Regs(Drv) |-> [f \in Fields(Drv, g) |-> y(p, g, f)]]]
  BY <1>2, <1>3
<1>8. new = [p \in Panel |-> [g \in Regs(Drv) |-> [f \in Fields(Drv, g) |-> new[p][g][f]]]]
  <2> HIDE DEF y
  <2> QED BY <1>6, <1>7
<1>9. \A p \in Panel : \A g \in Regs(Drv) : \A f \in Fields(Drv, g) :
        \/ <<p, g, f, new[p][g][f]>> \in Effect(r)
        \/ new[p][g][f] = goal[p][g][f] /\ \A x : <<p, g, f, x>> \notin Effect(r)
  BY <1>4, <1>5, <1>6
<1> QED BY <1>8, <1>9 DEF new

(* A request is for the offset of a panel in SRAM and in its video path.   *)
LEMMA EffectCopies ==
  ASSUME NoOffsetSet, RawElsewhere, TInv, sysfsReg \notin Paired, Drv = "jbd4020",
         NEW r \in scen.requests, NEW p \in Panel, NEW f \in {"h", "v"}, NEW x
  PROVE  <<p, "VO", f, x>> \in Effect(r) <=> <<p, "OFFSET", f, x>> \in Effect(r)
<1>1. scen \in Scenarios /\ sysfsReg \in Regs(Drv) /\ Tame(r)
  BY DEF TInv, Arrays, NoOffsetSet, Tame, Drv
<1>2. CASE r.by = "show"
  BY <1>2, NoEffect
<1>3. CASE Raw(r)
  <2>1. \A e \in Effect(r) : e[2] = IF r.name = "val" THEN sysfsReg ELSE r.reg
    BY <1>3, RawPlace
  <2>2. (IF r.name = "val" THEN sysfsReg ELSE r.reg) \notin Paired
    BY <1>1, <1>3 DEF Raw, RawElsewhere
  <2>3. \A e \in Effect(r) : e[2] \notin Paired
    BY <2>1, <2>2
  <2> QED BY <2>3 DEF Paired
<1>4. CASE r.by # "show" /\ r.name = "offset"
  <2> DEFINE a == Number(r, r.p) % 32
             b == Vertical(r, r.p) % 32
             on == [en |-> r.en]
             hv == [h |-> a, v |-> b]
             given == r.en = 1 /\ ~ r.short
  <2>1. Effect(r) = (On(r.p, "OFFSET", on) \cup On(r.p, "VO", on))
                    \cup (IF given THEN On(r.p, "OFFSET", hv) \cup On(r.p, "VO", hv) ELSE {})
    BY <1>4, OffsetEffect
  <2>2. DOMAIN on = {"en"} /\ DOMAIN hv = {"h", "v"}
    OBVIOUS
  <2> HIDE DEF on, hv, given
  <2>3. /\ \A g : <<p, g, f, x>> \notin On(r.p, "OFFSET", on) /\ <<p, g, f, x>> \notin On(r.p, "VO", on)
        /\ <<p, "VO", f, x>> \notin On(r.p, "OFFSET", hv) /\ <<p, "OFFSET", f, x>> \notin On(r.p, "VO", hv)
        /\ <<p, "VO", f, x>> \in On(r.p, "VO", hv) <=> <<p, "OFFSET", f, x>> \in On(r.p, "OFFSET", hv)
    BY <2>2 DEF On
  <2>4. <<p, "VO", f, x>> \in Effect(r) <=> given /\ <<p, "VO", f, x>> \in On(r.p, "VO", hv)
    BY <2>1, <2>3
  <2>5. <<p, "OFFSET", f, x>> \in Effect(r) <=> given /\ <<p, "OFFSET", f, x>> \in On(r.p, "OFFSET", hv)
    BY <2>1, <2>3
  <2> QED BY <2>3, <2>4, <2>5
<1>5. CASE r.by # "show" /\ r.name # "offset" /\ ~ Raw(r)
  <2>1. \A e \in Effect(r) : Valued(r, e)
    BY <1>1, <1>5, ScenarioRequest, EffectValued
  <2>2. \A e \in Effect(r) : e[3] \notin {"h", "v"}
    BY <1>5, <2>1 DEF Valued
  <2> QED BY <2>2
<1> QED BY <1>2, <1>3, <1>4, <1>5

(* A sensor stays off, but for a time.                                     *)
LEMMA SensorOff ==
  ASSUME NoOffsetSet, TInv, NEW r \in scen.requests, NEW p, NEW x, <<p, "PVT", "ctl", x>> \in Effect(r)
  PROVE  x = 0
<1> DEFINE e == <<p, "PVT", "ctl", x>>
<1>1. scen \in Scenarios /\ sysfsReg \in Regs(Drv) /\ Tame(r) /\ r.by # "show"
  BY NoEffect DEF TInv, Arrays, NoOffsetSet, Tame, Drv
<1>2. e \in Effect(r) /\ e[2] = "PVT" /\ e[3] = "ctl" /\ e[4] = x
  OBVIOUS
<1> HIDE DEF e
<1>3. Valued(r, e)
  BY <1>1, <1>2, ScenarioRequest, EffectValued
<1>4. Raw(r)
  BY <1>2, <1>3 DEF Valued
<1> QED BY <1>2, <1>3, <1>4 DEF Valued, Raw, Value

(* When nobody runs, the registers are what is wanted.                     *)
LEMMA Settled ==
  ASSUME TInv, GoalInv, faults = 0, \A t \in Threads : loc[t] # "run"
  PROVE  regs = goal
<1>1. \A p \in Panel : \A g \in Regs(Drv) : \A f \in Fields(Drv, g) : regs[p][g][f] = goal[p][g][f]
  BY DEF GoalInv, DueInv, Due
<1>2. File(regs) /\ File(goal)
  BY DEF GoalInv, Wanting
<1>3. [p \in Panel |-> [g \in Regs(Drv) |-> [f \in Fields(Drv, g) |-> regs[p][g][f]]]]
      = [p \in Panel |-> [g \in Regs(Drv) |-> [f \in Fields(Drv, g) |-> goal[p][g][f]]]]
  BY <1>1
<1> QED BY <1>2, <1>3 DEF File

(* A request changes what is wanted.                                       *)
LEMMA WantingNext ==
  ASSUME NoOffsetSet, RawElsewhere, TInv, sysfsReg \notin Paired, Wanting, scen' = scen,
         NEW r \in scen.requests, goal' = Apply(r, goal)
  PROVE  Wanting'
<1>1. Drv' = Drv /\ File(goal)
  BY DEF Drv, Wanting
<1>2. /\ goal' = [p \in Panel |-> [g \in Regs(Drv) |-> [f \in Fields(Drv, g) |-> goal'[p][g][f]]]]
      /\ \A p \in Panel : \A g \in Regs(Drv) : \A f \in Fields(Drv, g) :
           \/ <<p, g, f, goal'[p][g][f]>> \in Effect(r)
           \/ goal'[p][g][f] = goal[p][g][f] /\ \A x : <<p, g, f, x>> \notin Effect(r)
  BY <1>1, ApplyEffect
<1>3. File(goal)'
  BY <1>1, <1>2 DEF File
<1>4. ASSUME Drv = "jbd4020", NEW p \in Panel, NEW f \in {"h", "v"}
      PROVE  goal'[p]["VO"][f] = goal'[p]["OFFSET"][f]
  <2>1. "VO" \in Regs(Drv) /\ "OFFSET" \in Regs(Drv) /\ f \in Fields(Drv, "VO") /\ f \in Fields(Drv, "OFFSET")
    BY <1>4, RegisterNames, Widths4020
  <2> DEFINE x == goal'[p]["VO"][f]
             y == goal'[p]["OFFSET"][f]
  <2>2. /\ <<p, "VO", f, x>> \in Effect(r) \/ (x = goal[p]["VO"][f] /\ \A z : <<p, "VO", f, z>> \notin Effect(r))
        /\ <<p, "OFFSET", f, y>> \in Effect(r) \/ (y = goal[p]["OFFSET"][f] /\ \A z : <<p, "OFFSET", f, z>> \notin Effect(r))
    BY <1>2, <2>1
  <2> HIDE DEF x, y
  <2>3. \A z : <<p, "VO", f, z>> \in Effect(r) <=> <<p, "OFFSET", f, z>> \in Effect(r)
    BY <1>4, EffectCopies
  <2>4. CASE <<p, "VO", f, x>> \in Effect(r)
    <3>1. <<p, "OFFSET", f, x>> \in Effect(r) /\ <<p, "OFFSET", f, y>> \in Effect(r)
      BY <2>2, <2>3, <2>4
    <3> DEFINE d == <<p, "OFFSET", f, x>>
               e == <<p, "OFFSET", f, y>>
    <3>2. d \in Effect(r) /\ e \in Effect(r) /\ <<d[1], d[2], d[3]>> = <<e[1], e[2], e[3]>> /\ d[4] = x /\ e[4] = y
      BY <3>1
    <3> HIDE DEF d, e
    <3>3. d[4] = e[4]
      BY <3>2, OneValue DEF TInv, Arrays, NoOffsetSet, Tame, Drv
    <3> QED BY <3>2, <3>3 DEF x, y
  <2>5. CASE <<p, "VO", f, x>> \notin Effect(r)
    <3>1. x = goal[p]["VO"][f] /\ y = goal[p]["OFFSET"][f]
      BY <2>2, <2>3, <2>5
    <3>2. x = y
      BY <1>4, <3>1 DEF Wanting
    <3> QED BY <3>2 DEF x, y
  <2> QED BY <2>4, <2>5
<1>5. ASSUME Drv = "jbd4040", NEW p \in Panel
      PROVE  goal'[p]["PVT"]["ctl"] = 0
  <2>1. "PVT" \in Regs(Drv) /\ "ctl" \in Fields(Drv, "PVT")
    BY <1>5 DEF Regs, Width, Fields
  <2>2. <<p, "PVT", "ctl", goal'[p]["PVT"]["ctl"]>> \in Effect(r) \/ goal'[p]["PVT"]["ctl"] = goal[p]["PVT"]["ctl"]
    BY <1>2, <2>1
  <2> QED BY <1>5, <2>2, SensorOff DEF Wanting
<1> QED BY <1>1, <1>3, <1>4, <1>5 DEF Wanting

(* What switches off sensors does not depend on the registers.             *)
LEMMA SameOff ==
  ASSUME NEW q, scen' = scen, sysfsReg' = sysfsReg
  PROVE  OffLast(q)' = OffLast(q)
<1>1. Drv' = Drv
  BY DEF Drv
<1>2. \A x : Written(x)' = Written(x)
  BY <1>1 DEF Written
<1> QED BY <1>2 DEF OffLast

(* A handler begins: it has to see to all that is newly wanted.            *)
LEMMA BeginGoal ==
  ASSUME NoOffsetSet, RawElsewhere, TInv, ScanInv, GoalInv, NEW t \in Threads, NEW r \in scen.requests,
         req'[t] = r, job'[t] = Steps(r), Begin(t, r), loc'[t] = "run", UNCHANGED <<scen, hw, faults, ok>>,
         loc[t] # "run", \A u \in Threads \ {t} : loc[u] # "run" /\ loc'[u] # "run"
  PROVE  GoalInv'
<1>1. /\ scen \in Scenarios /\ sysfsReg \in Regs(Drv) /\ Tame(r) /\ Drv' = Drv
      /\ UNCHANGED <<regs, sysfsReg>> /\ sysfsReg \notin Paired
  BY DEF NoOffsetSet, Tame, TInv, Arrays, hw, Drv, ScanInv
<1>2. File(regs)'
  BY <1>1 DEF GoalInv, File
<1>3. SUFFICES ASSUME faults = 0
               PROVE  Wanting' /\ DueInv' /\ \A u \in Threads : AimInv(u)' /\ ok'[u]
  BY <1>2 DEF GoalInv
<1>4. regs = goal /\ Wanting /\ \A u \in Threads : ok'[u]
  <2>1. \A u \in Threads : loc[u] # "run"
    OBVIOUS
  <2> QED BY <1>3, <2>1, Settled DEF GoalInv
<1>5. goal' = Apply(r, goal)
  BY <1>3 DEF Begin
<1>6. Wanting'
  BY <1>1, <1>4, <1>5, WantingNext
<1>7. \A p \in Panel : \A g \in Regs(Drv) : \A f \in Fields(Drv, g) :
        \/ <<p, g, f, goal'[p][g][f]>> \in Effect(r)
        \/ goal'[p][g][f] = goal[p][g][f] /\ \A x : <<p, g, f, x>> \notin Effect(r)
  BY <1>4, <1>5, ApplyEffect DEF Wanting
<1> DEFINE q == Steps(r)
<1>8. Pending(q) = Named(r) \cup Sensors(r) /\ OffLast(q)
  BY <1>1, HandlerUnit
<1>9. CopyNames(r) # {} => /\ Len(q) = 4 /\ q[1].op = "read" /\ q[2].op = "write" /\ q[2].reg = "OFFSET"
                           /\ q[3].op = "readhv" /\ q[4].op = "write" /\ q[4].reg = "VO"
  <2>1. SUFFICES ASSUME CopyNames(r) # {} PROVE Len(q) = 4 /\ q[1].op = "read" /\ q[2].op = "write" /\ q[2].reg = "OFFSET"
                           /\ q[3].op = "readhv" /\ q[4].op = "write" /\ q[4].reg = "VO"
    OBVIOUS
  <2>2. r.by = "store" /\ r.name = "offset" /\ Drv = "jbd4020"
    BY <2>1 DEF CopyNames
  <2>3. q = Store4020Offset(r)
    BY <2>2 DEF Steps, StoreSteps, Drv
  <2> QED BY <1>1, <2>2, <2>3, StoreOffset4020, ScenarioRequest
<1> HIDE DEF q
<1>10. /\ Pending(job[t])' = Pending(q) /\ Sensors(req[t])' = Sensors(r) /\ CopyNames(req[t])' = CopyNames(r)
       /\ OffLast(job[t])' = OffLast(q)
  BY <1>1, SameEffect, SamePending, SameOff DEF q
<1>11. DueInv'
  <2>1. SUFFICES ASSUME NEW p \in Panel, NEW g \in Regs(Drv), NEW f \in Fields(Drv, g)
                 PROVE  regs'[p][g][f] = goal'[p][g][f] \/ Due(t, p, g, f)'
    BY <1>1 DEF DueInv
  <2> DEFINE e == <<p, g, f, goal'[p][g][f]>>
  <2>2. CASE e \in Named(r)
    <3>1. e \in Pending(job[t])'
      BY <1>8, <1>10, <2>2
    <3> QED BY <3>1 DEF Due
  <2>3. CASE <<p, g, f>> \in CopyNames(r)
    <3>1. Len(q) = 4
      BY <1>9, <2>3
    <3>2. q # << >>
      <4>1. Len(<< >>) # 4
        OBVIOUS
      <4> QED BY <3>1, <4>1, Zenon
    <3> QED BY <1>10, <2>3, <3>2 DEF Due, q
  <2>4. CASE e \notin Effect(r)
    BY <1>1, <1>4, <1>7, <2>4
  <2>5. e \in Effect(r) => e \in Named(r) \/ <<p, g, f>> \in CopyNames(r)
    <3>1. <<e[1], e[2], e[3]>> = <<p, g, f>>
      OBVIOUS
    <3> HIDE DEF e
    <3> QED BY <3>1 DEF Named
  <2> QED BY <2>2, <2>3, <2>4, <2>5
<1>12. ASSUME NEW e \in Named(r)
       PROVE  e[4] = goal'[e[1]][e[2]][e[3]]
  <2>1. e \in Effect(r)
    BY DEF Named
  <2>2. e = <<e[1], e[2], e[3], e[4]>> /\ e[1] \in Panel /\ e[2] \in Regs(Drv) /\ e[3] \in Fields(Drv, e[2])
    BY <1>1, <2>1, EffectPlace
  <2> DEFINE d == <<e[1], e[2], e[3], goal'[e[1]][e[2]][e[3]]>>
  <2>3. d \in Effect(r)
    BY <1>7, <2>1, <2>2
  <2>4. d[4] = goal'[e[1]][e[2]][e[3]] /\ <<d[1], d[2], d[3]>> = <<e[1], e[2], e[3]>>
    OBVIOUS
  <2> HIDE DEF d
  <2>5. d[4] = e[4]
    BY <1>1, <2>1, <2>3, <2>4, OneValue
  <2> QED BY <2>4, <2>5
<1>13. CopyInv(t)'
  <2>1. SUFFICES ASSUME CopyNames(r) # {}
                 PROVE  /\ \A i \in 1 .. Len(q) - 1 : q[i + 1].op = "write" /\ q[i + 1].reg = "VO" => q[i].op = "readhv"
                        /\ q[Len(q)].op = "write" /\ q[Len(q)].reg = "VO"
                        /\ q[1].op # "readhv" /\ q[1].op # "write"
    BY <1>10 DEF CopyInv, q
  <2>2. Len(q) = 4
    BY <1>9, <2>1
  <2>3. \A i \in 1 .. 3 : i \in {1, 2, 3}
    OBVIOUS
  <2>4. q[1 + 1] = q[2] /\ q[2 + 1] = q[3] /\ q[3 + 1] = q[4]
    OBVIOUS
  <2>5. ASSUME NEW i \in 1 .. Len(q) - 1
        PROVE  q[i + 1].op = "write" /\ q[i + 1].reg = "VO" => q[i].op = "readhv"
    <3>1. i = 1 \/ i = 2 \/ i = 3
      BY <2>2
    <3> QED BY <1>9, <2>1, <2>4, <3>1
  <2> QED BY <1>9, <2>1, <2>2, <2>5
<1>14. ASSUME NEW u \in Threads
       PROVE  AimInv(u)'
  <2>1. CASE u = t
    <3>1. \A e \in Pending(job[t])' : e[4] = goal'[e[1]][e[2]][e[3]] \/ e \in Sensors(req[t])'
      BY <1>8, <1>10, <1>12
    <3> QED BY <1>8, <1>10, <1>13, <2>1, <3>1 DEF AimInv
  <2>2. CASE u # t
    BY <2>2 DEF AimInv
  <2> QED BY <2>1, <2>2
<1> QED BY <1>4, <1>6, <1>11, <1>14

(* Steps that no handler that runs takes.                                  *)
LEMMA GoalAside ==
  ASSUME GoalInv, UNCHANGED <<scen, regs, sysfsReg, goal, faults>>,
         \A u \in Threads :
           /\ ok[u] => ok'[u]
           /\ \/ loc'[u] # "run" /\ (loc[u] # "run" \/ job[u] = << >>)
              \/ loc'[u] = loc[u] /\ req'[u] = req[u] /\ job'[u] = job[u] /\ temp'[u] = temp[u]
  PROVE  GoalInv'
<1>1. Drv' = Drv
  BY DEF Drv
<1>2. File(regs)'
  BY <1>1 DEF GoalInv, File
<1>3. SUFFICES ASSUME faults = 0
               PROVE  Wanting' /\ DueInv' /\ \A u \in Threads : AimInv(u)' /\ ok'[u]
  BY <1>2 DEF GoalInv
<1>4. Wanting'
  BY <1>1, <1>3 DEF GoalInv, Wanting, File
<1>5. Pending(<< >>) = {}
  BY DEF Pending
<1>6. DueInv'
  <2>1. SUFFICES ASSUME NEW p \in Panel, NEW g \in Regs(Drv), NEW f \in Fields(Drv, g)
                 PROVE  regs'[p][g][f] = goal'[p][g][f] \/ \E u \in Threads : Due(u, p, g, f)'
    BY <1>1 DEF DueInv
  <2>2. regs[p][g][f] = goal[p][g][f] \/ \E u \in Threads : Due(u, p, g, f)
    BY <1>3 DEF GoalInv, DueInv
  <2>3. ASSUME NEW u \in Threads, Due(u, p, g, f)
        PROVE  Due(u, p, g, f)'
    <3>1. loc[u] = "run" /\ job[u] # << >>
      BY <1>5, <2>3 DEF Due
    <3>2. loc'[u] = loc[u] /\ req'[u] = req[u] /\ job'[u] = job[u]
      BY <3>1
    <3>3. Pending(job[u])' = Pending(job[u]) /\ CopyNames(req[u])' = CopyNames(req[u])
      BY <3>2, SamePending, SameEffect
    <3> QED BY <2>3, <3>2, <3>3 DEF Due
  <2> QED BY <2>2, <2>3
<1>7. ASSUME NEW u \in Threads
      PROVE  AimInv(u)'
  <2>1. CASE loc'[u] # "run"
    BY <2>1 DEF AimInv
  <2>2. CASE loc'[u] = loc[u] /\ req'[u] = req[u] /\ job'[u] = job[u] /\ temp'[u] = temp[u]
    <3>1. /\ Pending(job[u])' = Pending(job[u]) /\ CopyNames(req[u])' = CopyNames(req[u])
          /\ Sensors(req[u])' = Sensors(req[u]) /\ OffLast(job[u])' = OffLast(job[u])
      BY <2>2, SamePending, SameEffect, SameOff
    <3>2. AimInv(u)
      BY <1>3 DEF GoalInv
    <3>3. CopyInv(u) => CopyInv(u)'
      BY <2>2, <3>1 DEF CopyInv
    <3> QED BY <2>2, <3>1, <3>2, <3>3 DEF AimInv
  <2> QED BY <2>1, <2>2
<1> QED BY <1>3, <1>4, <1>6, <1>7 DEF GoalInv

(* Steps that do not write can be left out.                                *)
LEMMA PendingSkip ==
  ASSUME NEW S, NEW q \in Seq(S), q # << >>, NEW k \in {0, 1}, q[1].op # "write",
         k = 1 /\ Len(q) > 1 => q[2].op # "write"
  PROVE  Pending(Rest(q, k)) = Pending(q)
<1>1. Written(q[1]) = {}
  BY DEF Written
<1>2. CASE k = 0
  BY <1>1, <1>2, PendingRest
<1>3. CASE k = 1
  <2> DEFINE r == Rest(q, 1)
  <2>1. /\ Len(q) \in Nat /\ Len(r) \in Nat
        /\ 1 + 1 <= Len(q) => Len(r) = Len(q) - (1 + 1)
        /\ \A i \in 1 .. Len(r) : r[i] = q[i + 1 + 1]
    BY Remainder, LenProperties
  <2> HIDE DEF r
  <2>2. Pending(r) \subseteq Pending(q)
    BY PendingRest DEF r
  <2>3. ASSUME NEW e \in Pending(q)
        PROVE  e \in Pending(r)
    <3>1. PICK i \in 1 .. Len(q) : e \in Written(q[i])
      BY <2>3, PendingIn
    <3>2. i # 1
      BY <1>1, <3>1
    <3>3. i # 2
      <4>1. SUFFICES ASSUME i = 2 PROVE FALSE
        OBVIOUS
      <4>2. Len(q) > 1
        BY <3>1, <4>1, <2>1
      <4>3. Written(q[2]) = {}
        BY <1>3, <4>2 DEF Written
      <4> QED BY <3>1, <4>1, <4>3
    <3>4. i - 2 \in 1 .. Len(r) /\ (i - 2) + 1 + 1 = i
      BY <2>1, <3>1, <3>2, <3>3
    <3>5. r[i - 2] = q[i]
      BY <2>1, <3>4
    <3> QED BY <3>1, <3>4, <3>5, PendingIn
  <2>4. Pending(r) = Pending(q)
    BY <2>2, <2>3
  <2> QED BY <1>3, <2>4 DEF r
<1> QED BY <1>2, <1>3

(* The copy of the offset, a step later.                                   *)
LEMMA CopyNext ==
  ASSUME TInv, NEW t \in Threads, CopyInv(t), job[t] # << >>, UNCHANGED <<scen, loc, req>>,
         job'[t] = Rest(job[t], 0),
         LET q == job'[t] IN
         CopyNames(req[t]) # {} /\ q # << >> /\ (q[1].op = "readhv" \/ (q[1].op = "write" /\ q[1].reg = "VO"))
         => \A f \in {"h", "v"} : temp'[t][f] = regs'[req[t].p]["OFFSET"][f]
  PROVE  CopyInv(t)'
<1> DEFINE q == job[t]
           r == Rest(q, 0)
           copies(s) == s.op = "write" /\ s.reg = "VO"
<1>1. CopyNames(req[t])' = CopyNames(req[t]) /\ job'[t] = r /\ loc[t] = "run"
  <2>1. CopyNames(req[t])' = CopyNames(req[t])
    BY DEF CopyNames, Drv
  <2> QED BY <2>1, AtWork
<1>2. SUFFICES ASSUME CopyNames(req[t]) # {}, r # << >>
               PROVE  /\ \A i \in 1 .. Len(r) - 1 : copies(r[i + 1]) => r[i].op = "readhv"
                      /\ copies(r[Len(r)])
                      /\ r[1].op = "readhv" \/ copies(r[1])
                         => \A f \in {"h", "v"} : temp'[t][f] = regs'[req[t].p]["OFFSET"][f]
  BY <1>1 DEF CopyInv
<1>3. /\ Len(q) \in Nat /\ Len(r) \in Nat /\ Len(q) > 0 /\ r \in Seq(StepSet(Drv))
      /\ 0 + 1 <= Len(q) => Len(r) = Len(q) - (0 + 1)
      /\ \A i \in 1 .. Len(r) : i + 0 + 1 \in 1 .. Len(q) /\ r[i] = q[i + 0 + 1]
  BY Remainder, AtWork
<1>4. Len(r) > 0 /\ Len(q) = Len(r) + 1
  <2>1. Len(r) # 0
    BY <1>2, <1>3, EmptySeq
  <2> QED BY <1>3, <2>1
<1>5. /\ \A i \in 1 .. Len(q) - 1 : copies(q[i + 1]) => q[i].op = "readhv"
      /\ copies(q[Len(q)])
  BY <1>1, <1>2 DEF CopyInv
<1>6. r[1].op = "readhv" \/ copies(r[1]) => \A f \in {"h", "v"} : temp'[t][f] = regs'[req[t].p]["OFFSET"][f]
  BY <1>1, <1>2
<1> HIDE DEF r, q
<1>7. copies(r[Len(r)])
  <2>1. Len(r) \in 1 .. Len(r) /\ Len(r) + 0 + 1 = Len(q)
    BY <1>3, <1>4
  <2>2. r[Len(r)] = q[Len(q)]
    BY <1>3, <2>1
  <2> QED BY <1>5, <2>2
<1>8. ASSUME NEW i \in 1 .. Len(r) - 1, copies(r[i + 1])
      PROVE  r[i].op = "readhv"
  <2>1. /\ i \in 1 .. Len(r) /\ i + 1 \in 1 .. Len(r) /\ i + 0 + 1 = i + 1 /\ (i + 1) + 0 + 1 = (i + 1) + 1
        /\ i + 1 \in 1 .. Len(q) - 1
    BY <1>3, <1>4
  <2>2. r[i] = q[i + 1] /\ r[i + 1] = q[(i + 1) + 1]
    BY <1>3, <2>1
  <2> QED BY <1>5, <1>8, <2>1, <2>2
<1> QED BY <1>6, <1>7, <1>8

(* Steps of the running handler that leave the registers alone.            *)
LEMMA GoalWhile ==
  ASSUME TInv, GoalInv, NEW t \in Threads, job[t] # << >>, job[t][1].op # "write",
         UNCHANGED <<scen, regs, sysfsReg, loc, req, goal, faults, ok>>,
         NEW k \in {0, 1}, job'[t] = Rest(job[t], k),
         k = 1 => CopyNames(req[t]) = {} /\ (Len(job[t]) > 1 => job[t][2].op # "write"),
         faults = 0 => CopyInv(t)'
  PROVE  GoalInv'
<1> DEFINE q == job[t]
           r == Rest(q, k)
<1>1. Drv' = Drv /\ loc[t] = "run" /\ q \in Seq(StepSet(Drv)) /\ \A u \in Threads \ {t} : loc[u] # "run"
  BY AtWork DEF Drv
<1>2. File(regs)'
  BY <1>1 DEF GoalInv, File
<1>3. SUFFICES ASSUME faults = 0
               PROVE  Wanting' /\ DueInv' /\ \A u \in Threads : AimInv(u)' /\ ok'[u]
  BY <1>2 DEF GoalInv
<1>4. Wanting' /\ \A u \in Threads : ok'[u]
  BY <1>1, <1>3 DEF GoalInv, Wanting, File
<1>5. AimInv(t)
  BY <1>3 DEF GoalInv
<1>6. Pending(r) = Pending(q) /\ OffLast(r)
  <2>1. k \in Nat /\ OffLast(q)
    BY <1>1, <1>5 DEF AimInv
  <2> QED BY <1>1, <2>1, PendingSkip, OffRest
<1>7. /\ Pending(job[t])' = Pending(q) /\ OffLast(job[t])'
      /\ CopyNames(req[t])' = CopyNames(req[t]) /\ Sensors(req[t])' = Sensors(req[t])
  BY <1>6, SamePending, SameEffect, SameOff
<1>8. CopyNames(req[t]) # {} => job'[t] # << >>
  <2>1. SUFFICES ASSUME CopyNames(req[t]) # {}, r = << >> PROVE FALSE
    OBVIOUS
  <2>2. k = 0 /\ q[Len(q)].op = "write"
    BY <1>1, <1>5, <2>1 DEF AimInv, CopyInv
  <2>3. Len(q) \in Nat /\ Len(q) > 0 /\ Len(q) # 1
    BY <1>1, <2>2, AtWork
  <2>4. 0 + 1 <= Len(q) => Len(Rest(q, 0)) = Len(q) - (0 + 1)
    BY <1>1, Remainder
  <2>5. Len(r) # 0
    BY <2>2, <2>3, <2>4
  <2>6. Len(r) = 0
    BY <2>1
  <2> QED BY <2>5, <2>6
<1>9. DueInv'
  <2>1. SUFFICES ASSUME NEW p \in Panel, NEW g \in Regs(Drv), NEW f \in Fields(Drv, g)
                 PROVE  regs'[p][g][f] = goal'[p][g][f] \/ \E u \in Threads : Due(u, p, g, f)'
    BY <1>1 DEF DueInv
  <2>2. regs[p][g][f] = goal[p][g][f] \/ \E u \in Threads : Due(u, p, g, f)
    BY <1>3 DEF GoalInv, DueInv
  <2>3. ASSUME NEW u \in Threads, Due(u, p, g, f)
        PROVE  Due(t, p, g, f)'
    <3>1. u = t
      BY <1>1, <2>3 DEF Due
    <3> QED BY <1>1, <1>7, <1>8, <2>3, <3>1 DEF Due
  <2> QED BY <2>2, <2>3
<1>10. ASSUME NEW u \in Threads
       PROVE  AimInv(u)'
  <2>1. CASE u = t
    BY <1>3, <1>5, <1>7, <2>1 DEF AimInv
  <2>2. CASE u # t
    BY <1>1, <2>2 DEF AimInv
  <2> QED BY <2>1, <2>2
<1> QED BY <1>4, <1>9, <1>10

(* A handler that sets no offset copies none.                              *)
LEMMA NoCopyInv ==
  ASSUME NEW t \in Threads, UNCHANGED <<scen, req>>, CopyNames(req[t]) = {}
  PROVE  CopyInv(t)'
<1>1. CopyNames(req[t])' = {}
  BY DEF CopyNames, Drv
<1> QED BY <1>1 DEF CopyInv

(* Reads: readhv leaves in temp the numbers that are to be copied.         *)
LEMMA GoalAfterRead ==
  ASSUME TInv, CInv, GoalInv, NEW t \in Threads, ReadCombined(t) \/ Fetch(t)
  PROVE  GoalInv'
<1> DEFINE s == job[t][1]
           q == job[t]
           r == Rest(q, 0)
<1>1. At(t, Reads) /\ At(t, Reads \cup {"write"})
  BY DEF ReadCombined, Fetch, At
<1>2. /\ q # << >> /\ Head(q) = s /\ s.op \in Reads /\ Dest(t) \in SUBSET Panel /\ RegOf(t) \in Regs(Drv)
      /\ (s.reg # "sysfs" => RegOf(t) = s.reg) /\ DOMAIN temp = Threads /\ s \in Kind(req[t])
  BY <1>1, Transfer, HeadKind DEF At, CInv, TInv, Arrays
<1>3. PICK p \in Dest(t) : Arrive(t, regs[p][RegOf(t)])
  <2>1. CASE ReadCombined(t)
    BY <2>1 DEF ReadCombined
  <2>2. CASE Fetch(t)
    BY <2>2 DEF Fetch, TInv, HandlersOK, SentOK
  <2> QED BY <2>1, <2>2
<1>4. UNCHANGED <<scen, regs, sysfsReg, loc, req, goal, faults, ok>> /\ Continue(t, 0)
  BY <1>3 DEF Arrive
<1>5. job'[t] = r
  BY <1>2, <1>4, Continued
<1>6. ASSUME faults = 0
      PROVE  CopyInv(t)'
  <2>1. CopyInv(t)
    BY <1>2, <1>6, AtWork DEF GoalInv, AimInv
  <2>2. ASSUME CopyNames(req[t]) # {}, r # << >>, r[1].op = "readhv" \/ (r[1].op = "write" /\ r[1].reg = "VO"),
               NEW f \in {"h", "v"}
        PROVE  temp'[t][f] = regs'[req[t].p]["OFFSET"][f]
    <3>1. ~ SetsFps(t) /\ Drv = "jbd4020"
      BY <2>2 DEF CopyNames, SetsFps
    <3>2. CASE r[1].op = "readhv"
      <4>1. Sound(Drv, q)
        BY <1>2, <3>1, AtWork DEF TInv, HandlersOK, SoundOK
      <4>2. Fresh(Drv, r[1]) \/ Feeds(Drv, s, r[1])
        BY <1>2, <2>2, <4>1, SoundRest
      <4> QED BY <1>2, <3>2, <4>2 DEF Fresh, Feeds, Reads
    <3>3. CASE r[1].op = "write" /\ r[1].reg = "VO"
      <4>1. /\ Len(q) \in Nat /\ Len(q) > 0 /\ q \in Seq(StepSet(Drv)) /\ loc[t] = "run"
        BY <1>2, AtWork
      <4>2. /\ 0 + 1 <= Len(q) => Len(r) = Len(q) - (0 + 1)
            /\ \A i \in 1 .. Len(r) : r[i] = q[i + 0 + 1]
        BY <1>2, <4>1, Remainder
      <4>3. Len(r) # 0 /\ Len(r) \in Nat
        BY <1>2, <2>2, <4>1, Remainder, EmptySeq
      <4>4. 1 \in 1 .. Len(q) - 1 /\ r[1] = q[1 + 1]
        <5>1. 1 \in 1 .. Len(r) /\ 1 + 0 + 1 = 1 + 1
          BY <4>3
        <5>2. r[1] = q[1 + 0 + 1]
          BY <4>2, <5>1
        <5> QED BY <4>1, <4>2, <4>3, <5>1, <5>2
      <4>5. s.op = "readhv"
        BY <1>2, <2>1, <2>2, <3>3, <4>1, <4>4 DEF CopyInv
      <4>6. temp[t][f] = regs[req[t].p]["OFFSET"][f]
        BY <1>2, <2>1, <2>2, <4>1, <4>5 DEF CopyInv
      <4>7. s.reg = "VO" /\ RegOf(t) = "VO"
        BY <1>2, <4>5, AtWork, StepKinds
      <4> DEFINE v == regs[p]["VO"]
      <4>8. temp'[t] = [v EXCEPT !.h = temp[t].h, !.v = temp[t].v]
        BY <1>2, <1>3, <4>5, <4>7 DEF Arrive
      <4>9. v \in Contents(Drv, "VO") /\ "VO" \in Regs(Drv)
        BY <1>2, <1>3, <4>7 DEF TInv, Arrays
      <4>10. v \in [Fields(Drv, "VO") -> Nat] /\ "h" \in Fields(Drv, "VO") /\ "v" \in Fields(Drv, "VO")
        BY <3>1, <4>9, Widths4020 DEF Contents
      <4> HIDE DEF v
      <4>11. temp'[t][f] = temp[t][f]
        <5>1. temp'[t]["h"] = temp[t]["h"] /\ temp'[t]["v"] = temp[t]["v"]
          BY <4>8, <4>10
        <5> QED BY <5>1
      <4> QED BY <1>4, <4>6, <4>11
    <3> QED BY <2>2, <3>2, <3>3
  <2> QED BY <1>2, <1>4, <1>5, <2>1, <2>2, CopyNext
<1>7. s.op # "write"
  BY <1>2 DEF Reads
<1> QED BY <1>2, <1>4, <1>5, <1>6, <1>7, GoalWhile

(* Transfers that fail end all promises.                                   *)
LEMMA GoalAfterFail ==
  ASSUME TInv, GoalInv, NEW t \in Threads, Fails(t)
  PROVE  GoalInv'
<1>1. faults' = faults + 1 /\ faults \in Nat /\ UNCHANGED <<scen, regs>>
  <2>1. scen.faults \in Nat
    BY ScenariosAssumption DEF TInv, Arrays
  <2> QED BY <2>1 DEF Fails, hw, TInv, Arrays
<1>2. faults' # 0 /\ Drv' = Drv
  BY <1>1 DEF Drv
<1> QED BY <1>1, <1>2 DEF GoalInv, File

(* The change of the address, and the question whether a sensor is on.     *)
LEMMA GoalAfterOwn ==
  ASSUME TInv, CInv, GoalInv, NEW t \in Threads, ChangeAddr(t) \/ RestoreAddr(t) \/ AskIfOn(t)
  PROVE  GoalInv'
<1> DEFINE s == job[t][1]
<1>1. job[t] # << >> /\ Head(job[t]) = s /\ s.op \in {"take", "give", "ask"} /\ s \in Kind(req[t])
  BY AtWork, HeadKind DEF ChangeAddr, RestoreAddr, AskIfOn, At, CInv
<1>2. UNCHANGED <<scen, regs, sysfsReg, loc, req, goal, faults, ok>>
  BY DEF ChangeAddr, RestoreAddr, AskIfOn, hw
<1>3. CopyNames(req[t]) = {}
  <2>1. s \notin Copying(req[t])
    BY <1>1 DEF Copying
  <2>2. req[t].by = "ioctl" \/ req[t].name = "reg" => CopyNames(req[t]) = {}
    BY DEF CopyNames
  <2> QED BY <1>1, <2>1, <2>2 DEF Kind
<1>4. faults = 0 => \E k \in {0, 1} : Continue(t, k) /\ (k = 1 => s.op = "ask")
  BY <1>1 DEF ChangeAddr, RestoreAddr, AskIfOn, At, GoalInv
<1>5. CASE faults # 0
  <2>1. Drv' = Drv
    BY <1>2 DEF Drv
  <2> QED BY <1>2, <1>5, <2>1 DEF GoalInv, File
<1>6. CASE faults = 0
  <2>1. PICK k \in {0, 1} : Continue(t, k) /\ (k = 1 => s.op = "ask")
    BY <1>4, <1>6
  <2>2. k \in Nat
    OBVIOUS
  <2>3. job'[t] = Rest(job[t], k)
    BY <1>1, <1>2, <2>1, <2>2, Continued
  <2>4. s.op = "ask" /\ Len(job[t]) > 1 => job[t][2].op # "write"
    <3>1. SUFFICES ASSUME s.op = "ask", Len(job[t]) > 1 PROVE job[t][2].op # "write"
      OBVIOUS
    <3>2. ~ SetsFps(t) /\ Len(job[t]) \in Nat /\ loc[t] = "run"
      BY <1>1, <3>1, FpsPlace, AtWork
    <3>3. Aligned(job[t]) /\ 1 \in 1 .. Len(job[t]) - 1
      BY <3>1, <3>2 DEF CInv, JobInv
    <3>4. job[t][1 + 1].op = "get"
      BY <3>1, <3>3 DEF Aligned
    <3> QED BY <3>4
  <2>5. CopyInv(t)'
    BY <1>2, <1>3, NoCopyInv
  <2>6. s.op # "write"
    BY <1>1
  <2> QED BY <1>1, <1>2, <1>3, <2>1, <2>3, <2>4, <2>5, <2>6, GoalWhile
<1> QED BY <1>5, <1>6

(* The choice of a register for val, by a handler that sets nothing.       *)
LEMMA GoalAfterSelect ==
  ASSUME TInv, CInv, GoalInv, NEW t \in Threads, SelectReg(t)
  PROVE  GoalInv'
<1> DEFINE q == job[t]
           r == Rest(q, 0)
<1>1. q # << >> /\ q[1].op = "select" /\ loc[t] = "run" /\ \A u \in Threads \ {t} : loc[u] # "run"
  BY AtWork DEF SelectReg, At
<1>2. UNCHANGED <<scen, regs, loc, req, goal, faults, ok>> /\ Continue(t, 0) /\ Drv' = Drv
  BY DEF SelectReg, Drv
<1>3. job'[t] = r
  BY <1>1, <1>2, Continued
<1>4. JobInv(t) /\ q[1] \in Kind(req[t])
  BY <1>1, HeadKind DEF CInv
<1>5. req[t].by # "ioctl" /\ req[t].name = "reg" /\ Kind(req[t]) = Selects(req[t])
  BY <1>1, <1>4 DEF Kind, Strict, Copying, Plain
<1>6. q \in Seq(Selects(req[t])) /\ r \in Seq(Selects(req[t]))
  <2>1. q \in Seq(Selects(req[t]))
    BY <1>1, <1>4, <1>5 DEF JobInv
  <2> QED BY <1>1, <2>1, Remainder
<1>7. /\ \A i \in 1 .. Len(q) : q[i].op # "write"
      /\ \A i \in 1 .. Len(r) : r[i].op # "write"
  BY <1>6, LenProperties DEF Selects
<1>8. Pending(q) = {} /\ Pending(job[t])' = {} /\ OffLast(job[t])'
  <2> HIDE DEF q, r
  <2>1. Pending(q) = {}
    BY <1>7, NoWrites
  <2> QED BY <1>3, <1>7, <2>1, NoWrites
<1>9. CopyNames(req[t]) = {} /\ CopyInv(t)'
  <2>1. CopyNames(req[t]) = {}
    BY <1>5 DEF CopyNames
  <2> QED BY <1>2, <2>1, NoCopyInv
<1>10. File(regs)'
  BY <1>2 DEF GoalInv, File
<1>11. SUFFICES ASSUME faults = 0
                PROVE  Wanting' /\ DueInv' /\ \A u \in Threads : AimInv(u)' /\ ok'[u]
  BY <1>2, <1>10 DEF GoalInv
<1>12. Wanting' /\ \A u \in Threads : ok'[u]
  BY <1>2, <1>11 DEF GoalInv, Wanting, File
<1>13. ASSUME NEW p \in Panel, NEW g \in Regs(Drv), NEW f \in Fields(Drv, g)
       PROVE  regs[p][g][f] = goal[p][g][f]
  <2>1. ASSUME NEW u \in Threads PROVE ~ Due(u, p, g, f)
    BY <1>1, <1>8, <1>9 DEF Due
  <2> QED BY <1>11, <2>1 DEF GoalInv, DueInv
<1>14. DueInv'
  BY <1>2, <1>13 DEF DueInv
<1>15. ASSUME NEW u \in Threads
       PROVE  AimInv(u)'
  <2>1. CASE u = t
    BY <1>8, <1>9, <2>1 DEF AimInv
  <2>2. CASE u # t
    BY <1>1, <1>2, <2>2 DEF AimInv
  <2> QED BY <2>1, <2>2
<1> QED BY <1>12, <1>14, <1>15

(* Registers with all their fields and no others.                          *)
LEMMA IsFile ==
  ASSUME NEW rs, rs = [p \in Panel |-> rs[p]], \A p \in Panel : rs[p] = [g \in Regs(Drv) |-> rs[p][g]],
         \A p \in Panel : \A g \in Regs(Drv) : rs[p][g] = [f \in Fields(Drv, g) |-> rs[p][g][f]]
  PROVE  File(rs)
<1>1. ASSUME NEW p \in Panel
      PROVE  rs[p] = [g \in Regs(Drv) |-> [f \in Fields(Drv, g) |-> rs[p][g][f]]]
  <2>1. [g \in Regs(Drv) |-> rs[p][g]] = [g \in Regs(Drv) |-> [f \in Fields(Drv, g) |-> rs[p][g][f]]]
    OBVIOUS
  <2> QED BY <2>1
<1>2. [p \in Panel |-> rs[p]] = [p \in Panel |-> [g \in Regs(Drv) |-> [f \in Fields(Drv, g) |-> rs[p][g][f]]]]
  BY <1>1
<1> QED BY <1>2 DEF File

(* A write puts what it makes of temp into the panels and into temp.       *)
LEMMA WritePlace ==
  ASSUME TInv, NEW t \in Threads, Write(t)
  PROVE  /\ \A p \in Dest(t) : regs'[p][RegOf(t)] = Modified(t)
         /\ temp'[t] = Modified(t)
         /\ File(regs) => File(regs)'
<1> DEFINE m == Modified(t)
           G == RegOf(t)
<1>1. At(t, {"write"}) /\ At(t, Reads \cup {"write"})
  BY DEF Write, At
<1>2. G \in Regs(Drv) /\ Dest(t) \in SUBSET Panel /\ Head(job[t]) = job[t][1]
  BY <1>1, Transfer
<1>3. /\ \A p \in Panel : DOMAIN regs[p] = Regs(Drv)
      /\ regs' = [p \in Panel |-> IF p \in Dest(t) THEN [regs[p] EXCEPT ![G] = m] ELSE regs[p]]
      /\ temp'[t] = m /\ Drv' = Drv
  BY DEF Write, TInv, Arrays, Drv
<1>4. m = [f \in Fields(Drv, G) |-> m[f]]
  BY DEF Modified, Fields, Drv
<1> HIDE DEF m, G
<1>5. \A p \in Dest(t) : regs'[p][G] = m
  BY <1>2, <1>3
<1>6. ASSUME File(regs)
      PROVE  File(regs)'
  <2>1. \A p \in Panel : \A g \in Regs(Drv) : regs[p][g] = [f \in Fields(Drv, g) |-> regs[p][g][f]]
    BY <1>6 DEF File
  <2>2. \A p \in Panel : regs[p] = [g \in Regs(Drv) |-> regs[p][g]]
    BY <1>6 DEF File
  <2>3. regs' = [p \in Panel |-> regs'[p]]
    BY <1>3
  <2>4. \A p \in Panel : regs'[p] = [g \in Regs(Drv) |-> regs'[p][g]]
    BY <1>2, <1>3, <2>2
  <2>5. \A p \in Panel : \A g \in Regs(Drv) : regs'[p][g] = IF p \in Dest(t) /\ g = G THEN m ELSE regs[p][g]
    BY <1>2, <1>3
  <2>6. \A p \in Panel : \A g \in Regs(Drv) : regs'[p][g] = [f \in Fields(Drv, g) |-> regs'[p][g][f]]
    BY <1>4, <2>1, <2>5
  <2>7. File(regs')
    BY <2>3, <2>4, <2>6, IsFile
  <2> QED BY <1>3, <2>7 DEF File
<1> QED BY <1>3, <1>5, <1>6 DEF m, G

(* The last step of the attribute offset puts the numbers of SRAM, which   *)
(* by then are those that are wanted, into the video path.                 *)
LEMMA CopyDone ==
  ASSUME TInv, CInv, GoalInv, faults = 0, NEW t \in Threads, Write(t), Rest(job[t], 0) = << >>,
         CopyNames(req[t]) # {}, NEW f \in {"h", "v"}
  PROVE  regs'[req[t].p]["VO"][f] = goal[req[t].p]["VO"][f]
<1> DEFINE q == job[t]
           s == job[t][1]
           p == req[t].p
<1>1. At(t, {"write"}) /\ At(t, Reads \cup {"write"})
  BY DEF Write, At
<1>2. /\ q # << >> /\ s.op = "write" /\ q \in Seq(StepSet(Drv)) /\ Len(q) \in Nat /\ Len(q) > 0 /\ loc[t] = "run"
      /\ s \in StepSet(Drv) /\ Head(q) = s /\ (s.reg # "sysfs" => RegOf(t) = s.reg) /\ p \in Panel
      /\ \A u \in Threads \ {t} : loc[u] # "run"
  BY <1>1, Transfer, AtWork DEF At, Requested
<1>3. Drv = "jbd4020" /\ ~ SetsFps(t) /\ Kind(req[t]) = Copying(req[t])
  BY DEF CopyNames, SetsFps, Kind
<1>4. JobInv(t) /\ AimInv(t) /\ s.at = p
  BY <1>2, <1>3, HeadKind DEF CInv, GoalInv, Copying
<1>5. Len(q) = 1
  <2>1. 0 + 1 <= Len(q) => Len(Rest(q, 0)) = Len(q) - (0 + 1)
    BY <1>2, Remainder
  <2>2. Len(Rest(q, 0)) = 0
    OBVIOUS
  <2> DEFINE n == Len(q)
  <2>3. n \in Nat /\ n > 0 /\ (0 + 1 <= n => 0 = n - (0 + 1))
    BY <1>2, <2>1, <2>2
  <2> HIDE DEF n
  <2>4. n = 1
    BY <2>3
  <2> QED BY <2>4 DEF n
<1>6. s.reg = "VO" /\ RegOf(t) = "VO" /\ temp[t][f] = regs[p]["OFFSET"][f]
  BY <1>2, <1>4, <1>5 DEF AimInv, CopyInv
<1>7. "VO" \in Regs(Drv) /\ "OFFSET" \in Regs(Drv) /\ f \in Fields(Drv, "VO") /\ f \in Fields(Drv, "OFFSET")
  BY <1>3, RegisterNames, Widths4020
<1>8. Dest(t) = {p} /\ p # "client"
  <2>1. p # "client"
    BY <1>2 DEF Panel
  <2> QED BY <1>2, <1>4, <2>1 DEF Dest
<1>9. regs'[p]["VO"] = Modified(t)
  BY <1>6, <1>8, WritePlace
<1>10. CASE f \in DOMAIN s.set
  <2> DEFINE e == <<p, "VO", f, s.set[f]>>
  <2>1. e \in On(p, "VO", s.set)
    BY <1>10 DEF On
  <2>2. e \in Written(s)
    <3>1. Target(s) = {p} /\ s.reg # "sysfs"
      BY <1>4, <1>6, <1>8 DEF Target
    <3> HIDE DEF e, s, p
    <3>2. Written(s) = UNION {On(y, s.reg, s.set) : y \in Target(s)}
      BY <1>2, <3>1 DEF Written
    <3> QED BY <1>6, <2>1, <3>1, <3>2
  <2>3. e[1] = p /\ e[2] = "VO" /\ e[3] = f
    OBVIOUS
  <2> HIDE DEF e
  <2>4. e \in Pending(q)
    BY <1>2, <2>2, PendingRest
  <2>5. e[4] = goal[p]["VO"][f]
    <3>1. e \notin Sensors(req[t])
      BY <2>3 DEF Sensors
    <3> QED BY <1>2, <1>4, <2>3, <2>4, <3>1 DEF AimInv
  <2>6. regs'[e[1]][e[2]][e[3]] = e[4]
    BY <1>4, <2>2, WriteResult
  <2> QED BY <2>3, <2>5, <2>6
<1>11. CASE f \notin DOMAIN s.set
  <2>1. Partial(Drv, s)
    BY <1>2, <1>6, <1>7, <1>11 DEF Partial
  <2>2. temp[t] \in Contents(Drv, "VO")
    BY <1>2, <1>3, <1>6, <2>1 DEF TInv, HandlersOK, SoundOK
  <2>3. f \in DOMAIN temp[t]
    BY <1>7, <2>2 DEF Contents
  <2>4. Modified(t)[f] = temp[t][f]
    BY <1>2, <1>6, <1>7, <1>11, <2>3 DEF Modified, Fields, Drv
  <2>5. ASSUME NEW u \in Threads PROVE ~ Due(u, p, "OFFSET", f)
    <3>1. CASE u = t
      <4>1. ASSUME NEW x PROVE <<p, "OFFSET", f, x>> \notin Pending(q)
        <5> DEFINE e == <<p, "OFFSET", f, x>>
        <5>1. Pending(Rest(q, 0)) = {}
          BY DEF Pending
        <5>2. Pending(q) = Written(s)
          <6>1. Pending(q) = Written(q[1]) \cup Pending(Rest(q, 0))
            BY <1>2, PendingRest
          <6> QED BY <5>1, <6>1
        <5>3. s.reg # "sysfs"
          BY <1>6
        <5>4. \A d \in Written(s) : d[2] = s.reg
          <6> HIDE DEF s
          <6> QED BY <5>3 DEF Written, On
        <5>5. e[2] = "OFFSET"
          OBVIOUS
        <5> HIDE DEF e
        <5> QED BY <1>6, <5>2, <5>4, <5>5 DEF e
      <4>2. <<p, "OFFSET", f>> \notin CopyNames(req[t])
        BY DEF CopyNames
      <4> QED BY <3>1, <4>1, <4>2 DEF Due
    <3>2. CASE u # t
      BY <1>2, <3>2 DEF Due
    <3> QED BY <3>1, <3>2
  <2>6. regs[p]["OFFSET"][f] = goal[p]["OFFSET"][f]
    BY <1>2, <1>7, <2>5 DEF GoalInv, DueInv
  <2>7. goal[p]["VO"][f] = goal[p]["OFFSET"][f]
    BY <1>2, <1>3 DEF GoalInv, Wanting
  <2> QED BY <1>6, <1>9, <2>4, <2>6, <2>7
<1> QED BY <1>10, <1>11

(* A sensor that a handler switches on is one that it will switch off.     *)
LEMMA SensorDue ==
  ASSUME NEW S, NEW q \in Seq(S), q # << >>, OffLast(q), NEW p \in Panel, <<p, "PVT", "ctl", 3>> \in Written(q[1])
  PROVE  <<p, "PVT", "ctl", 0>> \in Pending(Rest(q, 0))
<1> DEFINE r == Rest(q, 0)
           e == <<p, "PVT", "ctl", 0>>
<1>1. /\ Len(q) \in Nat /\ Len(q) > 0 /\ Len(r) \in Nat
      /\ 0 + 1 <= Len(q) => Len(r) = Len(q) - (0 + 1)
      /\ \A i \in 1 .. Len(r) : r[i] = q[i + 0 + 1]
  BY Remainder, EmptySeq, LenProperties
<1> HIDE DEF r, e
<1>2. 1 \in 1 .. Len(q)
  BY <1>1
<1>3. PICK j \in 1 + 1 .. Len(q) : e \in Written(q[j])
  BY <1>2 DEF OffLast, e
<1>4. j - 1 \in 1 .. Len(r) /\ (j - 1) + 0 + 1 = j
  BY <1>1, <1>3
<1>5. r[j - 1] = q[j]
  BY <1>1, <1>4
<1> QED BY <1>3, <1>4, <1>5, PendingIn DEF r, e

(* What a write sets is wanted, or will be set again.                      *)
LEMMA DueAfterWrite ==
  ASSUME NoOffsetSet, RawElsewhere, TInv, CInv, ScanInv, GoalInv, faults = 0, NEW t \in Threads, Write(t),
         NEW p \in Panel, NEW g \in Regs(Drv), NEW f \in Fields(Drv, g)
  PROVE  \/ regs'[p][g][f] = goal[p][g][f]
         \/ <<p, g, f, goal[p][g][f]>> \in Pending(Rest(job[t], 0))
         \/ Rest(job[t], 0) # << >> /\ <<p, g, f>> \in CopyNames(req[t])
<1> DEFINE q == job[t]
           s == job[t][1]
           r == Rest(q, 0)
           x == regs'[p][g][f]
           y == goal[p][g][f]
           e == <<p, g, f, x>>
           d == <<p, g, f, y>>
<1>1. At(t, {"write"})
  BY DEF Write
<1>2. q # << >> /\ q \in Seq(StepSet(Drv)) /\ loc[t] = "run" /\ \A u \in Threads \ {t} : loc[u] # "run"
  BY <1>1, AtWork DEF At
<1>3. JobInv(t) /\ AimInv(t) /\ Wanting
  BY DEF CInv, GoalInv
<1>4. Pending(q) = Written(s) \cup Pending(r)
  BY <1>2, PendingRest
<1>5. e[1] = p /\ e[2] = g /\ e[3] = f /\ e[4] = x /\ d[1] = p /\ d[2] = g /\ d[3] = f /\ d[4] = y
  OBVIOUS
<1>6. \/ x = regs[p][g][f]
      \/ e \in Written(s)
      \/ <<p, g, f>> \in CopyNames(req[t])
  <2>1. \/ x = regs[p][g][f]
        \/ e \in Written(s)
        \/ <<p, g, f>> \in CopyNames(req[t])
        \/ g = "FPS" /\ f = "scan"
    <3> HIDE DEF s
    <3> QED BY <1>3, WriteResult DEF s
  <2>2. g = "FPS" /\ f = "scan" => x = regs[p][g][f]
    BY FpsDriver, WriteScan
  <2> QED BY <2>1, <2>2
<1>7. CASE <<p, g, f>> \in CopyNames(req[t])
  <2>1. CASE r = << >>
    <3>1. p = req[t].p /\ g = "VO" /\ f \in {"h", "v"} /\ CopyNames(req[t]) # {}
      BY <1>7 DEF CopyNames
    <3> QED BY <2>1, <3>1, CopyDone
  <2> QED BY <1>7, <2>1
<1>8. CASE e \in Written(s)
  <2>1. e \in Pending(q)
    BY <1>4, <1>8
  <2>2. x = y \/ e \in Sensors(req[t])
    <3> HIDE DEF e, x, y
    <3> QED BY <1>2, <1>3, <1>5, <2>1 DEF AimInv, y
  <2>3. CASE e \in Sensors(req[t])
    <3>1. g = "PVT" /\ f = "ctl" /\ x \in {0, 3} /\ Drv = "jbd4040"
      BY <2>3 DEF Sensors
    <3>2. y = 0
      BY <1>3, <3>1 DEF Wanting
    <3>3. CASE x = 3
      <4>1. <<p, "PVT", "ctl", 3>> \in Written(q[1])
        BY <1>8, <3>1, <3>3
      <4>2. <<p, "PVT", "ctl", 0>> \in Pending(r)
        BY <1>2, <1>3, <4>1, SensorDue DEF AimInv
      <4> QED BY <3>1, <3>2, <4>2
    <3> QED BY <3>1, <3>2, <3>3
  <2> QED BY <2>2, <2>3
<1>9. CASE x = regs[p][g][f]
  <2>1. CASE regs[p][g][f] = y
    BY <1>9, <2>1
  <2>2. CASE regs[p][g][f] # y
    <3>1. PICK u \in Threads : Due(u, p, g, f)
      BY <2>2 DEF GoalInv, DueInv
    <3>2. u = t
      BY <1>2, <3>1 DEF Due
    <3>3. d \in Pending(q) \/ <<p, g, f>> \in CopyNames(req[t])
      BY <3>1, <3>2 DEF Due
    <3>4. d \in Written(s) => x = y
      <4>1. ASSUME d \in Written(s) PROVE regs'[d[1]][d[2]][d[3]] = d[4]
        <5> HIDE DEF d, s
        <5> QED BY <1>3, <4>1, WriteResult DEF s
      <4> QED BY <1>5, <4>1
    <3> QED BY <1>4, <1>7, <3>3, <3>4
  <2> QED BY <2>1, <2>2
<1> QED BY <1>6, <1>7, <1>8, <1>9

(* Writes.                                                                 *)
LEMMA GoalAfterWrite ==
  ASSUME NoOffsetSet, RawElsewhere, TInv, CInv, ScanInv, GoalInv, NEW t \in Threads, Write(t)
  PROVE  GoalInv'
<1> DEFINE q == job[t]
           s == job[t][1]
           r == Rest(q, 0)
<1>1. At(t, {"write"}) /\ At(t, Reads \cup {"write"})
  BY DEF Write, At
<1>2. /\ q # << >> /\ q \in Seq(StepSet(Drv)) /\ loc[t] = "run" /\ \A u \in Threads \ {t} : loc[u] # "run"
      /\ s.op = "write" /\ Head(q) = s /\ (s.reg # "sysfs" => RegOf(t) = s.reg) /\ Dest(t) \in SUBSET Panel
      /\ s \in Kind(req[t]) /\ req[t].p \in Panel
  BY <1>1, Transfer, AtWork, HeadKind DEF At, CInv, Requested
<1>3. UNCHANGED <<scen, sysfsReg, loc, req, goal, faults, ok>> /\ Continue(t, 0) /\ Drv' = Drv
  BY DEF Write, Drv
<1>4. job'[t] = r
  BY <1>2, <1>3, Continued
<1>5. File(regs)'
  BY WritePlace DEF GoalInv
<1>6. SUFFICES ASSUME faults = 0
               PROVE  Wanting' /\ DueInv' /\ \A u \in Threads : AimInv(u)' /\ ok'[u]
  BY <1>3, <1>5 DEF GoalInv
<1>7. Wanting' /\ \A u \in Threads : ok'[u]
  BY <1>3, <1>6 DEF GoalInv, Wanting, File
<1>8. /\ Pending(job[t])' = Pending(r) /\ OffLast(job[t])' = OffLast(r)
      /\ CopyNames(req[t])' = CopyNames(req[t]) /\ Sensors(req[t])' = Sensors(req[t])
  <2>1. CopyNames(req[t])' = CopyNames(req[t]) /\ Sensors(req[t])' = Sensors(req[t])
    BY <1>3, SameEffect
  <2>2. Pending(job[t])' = Pending(r) /\ OffLast(job[t])' = OffLast(r)
    BY <1>3, <1>4, SamePending, SameOff
  <2> QED BY <2>1, <2>2
<1>9. DueInv'
  <2>1. SUFFICES ASSUME NEW p \in Panel, NEW g \in Regs(Drv), NEW f \in Fields(Drv, g)
                 PROVE  regs'[p][g][f] = goal'[p][g][f] \/ Due(t, p, g, f)'
    BY <1>3 DEF DueInv
  <2>2. \/ regs'[p][g][f] = goal[p][g][f]
        \/ <<p, g, f, goal[p][g][f]>> \in Pending(r)
        \/ r # << >> /\ <<p, g, f>> \in CopyNames(req[t])
    BY <1>6, DueAfterWrite
  <2> HIDE DEF r
  <2> QED BY <1>2, <1>3, <1>4, <1>8, <2>2 DEF Due
<1>10. AimInv(t)
  BY <1>6 DEF GoalInv
<1>11. CopyInv(t)'
  <2>1. CopyInv(t)
    BY <1>2, <1>10 DEF AimInv
  <2>2. ASSUME CopyNames(req[t]) # {}, r # << >>, r[1].op = "readhv" \/ (r[1].op = "write" /\ r[1].reg = "VO"),
               NEW f \in {"h", "v"}
        PROVE  temp'[t][f] = regs'[req[t].p]["OFFSET"][f]
    <3>1. ~ SetsFps(t) /\ Kind(req[t]) = Copying(req[t])
      BY <2>2 DEF CopyNames, SetsFps, Kind
    <3>2. CASE r[1].op = "readhv"
      <4>1. Sound(Drv, q)
        BY <1>2, <3>1 DEF TInv, HandlersOK, SoundOK
      <4>2. Fresh(Drv, r[1]) \/ Feeds(Drv, s, r[1])
        BY <1>2, <2>2, <4>1, SoundRest
      <4>3. s.reg = "OFFSET" /\ RegOf(t) = "OFFSET"
        BY <1>2, <3>2, <4>2 DEF Fresh, Feeds
      <4>4. Dest(t) = {req[t].p}
        <5>1. s.at = req[t].p
          BY <1>2, <3>1 DEF Copying
        <5>2. req[t].p # "client"
          BY <1>2 DEF Panel
        <5> QED BY <1>2, <5>1, <5>2 DEF Dest
      <4>5. regs'[req[t].p]["OFFSET"] = Modified(t) /\ temp'[t] = Modified(t)
        BY <4>3, <4>4, WritePlace
      <4> QED BY <4>5
    <3>3. CASE r[1].op = "write" /\ r[1].reg = "VO"
      <4>1. /\ Len(q) \in Nat /\ Len(q) > 0 /\ Len(r) \in Nat
            /\ 0 + 1 <= Len(q) => Len(r) = Len(q) - (0 + 1)
            /\ \A i \in 1 .. Len(r) : r[i] = q[i + 0 + 1]
        BY <1>2, AtWork, Remainder
      <4>2. Len(r) # 0
        BY <1>2, <2>2, Remainder, EmptySeq
      <4> HIDE DEF r
      <4>3. 1 \in 1 .. Len(q) - 1 /\ 1 \in 1 .. Len(r) /\ 1 + 0 + 1 = 1 + 1
        BY <4>1, <4>2
      <4>4. r[1] = q[1 + 1]
        BY <4>1, <4>3
      <4>5. s.op = "readhv"
        BY <1>2, <2>1, <2>2, <3>3, <4>3, <4>4 DEF CopyInv
      <4> QED BY <1>2, <4>5
    <3> QED BY <2>2, <3>2, <3>3
  <2> QED BY <1>2, <1>3, <1>4, <2>1, <2>2, CopyNext
<1>12. AimInv(t)'
  <2>1. Pending(r) \subseteq Pending(q) /\ OffLast(r)
    BY <1>2, <1>10, PendingRest, OffRest DEF AimInv
  <2> HIDE DEF r
  <2> QED BY <1>2, <1>3, <1>8, <1>10, <1>11, <2>1 DEF AimInv
<1>13. ASSUME NEW u \in Threads
       PROVE  AimInv(u)'
  <2>1. CASE u = t
    BY <1>12, <2>1
  <2>2. CASE u # t
    BY <1>2, <1>3, <2>2 DEF AimInv
  <2> QED BY <2>1, <2>2
<1> QED BY <1>7, <1>9, <1>13

(* Every step.                                                             *)
LEMMA NextGoal ==
  NoOffsetSet /\ RawElsewhere /\ TInv /\ CInv /\ ScanInv /\ GoalInv /\ [Next]_vars => GoalInv'
<1> SUFFICES ASSUME NoOffsetSet, RawElsewhere, TInv, CInv, ScanInv, GoalInv, [Next]_vars PROVE GoalInv'
  OBVIOUS
<1>1. CASE UNCHANGED vars
  BY <1>1, GoalAside DEF vars, hw
<1>2. CASE Next
  <2>1. PICK t \in Threads : StartAttribute(t) \/ StartIoctl(t) \/ Lock(t) \/ Proceed(t)
    BY <1>2 DEF Next
  <2>2. /\ loc \in [Threads -> {"idle", "wait", "run"}] /\ DOMAIN req = Threads /\ DOMAIN temp = Threads
        /\ ok \in [Threads -> BOOLEAN]
    BY DEF TInv, Arrays
  <2>3. CASE StartAttribute(t) \/ Lock(t)
    <3>1. PICK r \in scen.requests : req'[t] = r /\ job'[t] = Steps(r) /\ Begin(t, r)
      BY <2>3, StartEffect
    <3>2. /\ UNCHANGED <<scen, hw, faults>> /\ \A u \in Threads \ {t} : loc[u] # "run" /\ loc'[u] # "run"
      BY <2>3, StartEffect
    <3>3. loc[t] # "run" /\ loc'[t] = "run" /\ ok' = ok
      BY <2>2, <2>3, <3>1 DEF StartAttribute, Lock, Begin
    <3> QED BY <3>1, <3>2, <3>3, BeginGoal
  <2>4. CASE StartIoctl(t)
    <3>1. UNCHANGED <<scen, regs, sysfsReg, goal, faults, job, temp, ok>>
      BY <2>4 DEF StartIoctl, hw
    <3>2. loc'[t] = "wait" /\ loc[t] = "idle" /\ \A u \in Threads \ {t} : loc'[u] = loc[u] /\ req'[u] = req[u]
      BY <2>2, <2>4 DEF StartIoctl
    <3>3. \A u \in Threads :
            \/ loc'[u] # "run" /\ (loc[u] # "run" \/ job[u] = << >>)
            \/ loc'[u] = loc[u] /\ req'[u] = req[u] /\ job'[u] = job[u] /\ temp'[u] = temp[u]
      BY <3>1, <3>2
    <3> QED BY <3>1, <3>3, GoalAside
  <2>5. CASE SendAddress(t)
    BY <2>5, GoalAside DEF SendAddress
  <2>6. CASE ReadCombined(t) \/ Fetch(t)
    BY <2>6, GoalAfterRead
  <2>7. CASE Fails(t)
    BY <2>7, GoalAfterFail
  <2>8. CASE Write(t)
    BY <2>8, GoalAfterWrite
  <2>9. CASE ChangeAddr(t) \/ RestoreAddr(t) \/ AskIfOn(t)
    BY <2>9, GoalAfterOwn
  <2>10. CASE SelectReg(t)
    BY <2>10, GoalAfterSelect
  <2>11. CASE Return(t)
    <3>1. UNCHANGED <<scen, regs, sysfsReg, goal, faults, job>> /\ job[t] = << >>
      BY <2>11 DEF Return, AtEnd, hw
    <3>2. /\ loc'[t] = "idle"
          /\ \A u \in Threads \ {t} : loc'[u] = loc[u] /\ req'[u] = req[u] /\ temp'[u] = temp[u] /\ ok'[u] = ok[u]
      BY <2>2, <2>11 DEF Return
    <3>3. \A u \in Threads : ok[u] => ok'[u]
      BY <2>2, <2>11 DEF Return
    <3>4. \A u \in Threads :
            \/ loc'[u] # "run" /\ (loc[u] # "run" \/ job[u] = << >>)
            \/ loc'[u] = loc[u] /\ req'[u] = req[u] /\ job'[u] = job[u] /\ temp'[u] = temp[u]
      BY <3>1, <3>2
    <3> QED BY <3>1, <3>3, <3>4, GoalAside
  <2> QED BY <2>1, <2>3, <2>4, <2>5, <2>6, <2>7, <2>8, <2>9, <2>10, <2>11 DEF Proceed
<1> QED BY <1>1, <1>2

(* The panels as the panel drivers leave them.                             *)
LEMMA InitGoal == Init => GoalInv
<1> SUFFICES ASSUME Init PROVE GoalInv
  OBVIOUS
<1>1. goal = regs /\ Drv \in {"jbd4020", "jbd4040"} /\ regs = [p \in Panel |-> Booted(Drv, p)]
  BY ScenariosAssumption DEF Init, Drv
<1>2. File(regs)
  <2>1. \A p \in Panel : \A g \in Regs(Drv) : regs[p][g] \in Contents(Drv, g)
    BY InitTInv DEF TInv, Arrays
  <2>2. \A p \in Panel : \A g \in Regs(Drv) : regs[p][g] = [f \in Fields(Drv, g) |-> regs[p][g][f]]
    BY <2>1 DEF Contents
  <2>3. \A p \in Panel : regs[p] = [g \in Regs(Drv) |-> regs[p][g]]
    <3>1. CASE Drv = "jbd4020"
      BY <1>1, <3>1 DEF Booted, Regs, Width
    <3>2. CASE Drv = "jbd4040"
      BY <1>1, <3>2 DEF Booted, Regs, Width
    <3> QED BY <1>1, <3>1, <3>2
  <2>4. regs = [p \in Panel |-> regs[p]]
    BY <1>1
  <2> QED BY <2>2, <2>3, <2>4, IsFile
<1>3. ASSUME Drv = "jbd4020", NEW p \in Panel, NEW f \in {"h", "v"}
      PROVE  goal[p]["VO"][f] = goal[p]["OFFSET"][f]
  <2>1. goal[p] = Booted("jbd4020", p)
    BY <1>1, <1>3
  <2>2. Booted("jbd4020", p)["VO"][f] = 12 /\ Booted("jbd4020", p)["OFFSET"][f] = 12
    BY DEF Booted
  <2> QED BY <2>1, <2>2
<1>4. ASSUME Drv = "jbd4040", NEW p \in Panel
      PROVE  goal[p]["PVT"]["ctl"] = 0
  <2>1. goal[p] = Booted("jbd4040", p)
    BY <1>1, <1>4
  <2>2. Booted("jbd4040", p)["PVT"]["ctl"] = 0
    BY DEF Booted
  <2> QED BY <2>1, <2>2
<1>5. Wanting
  BY <1>1, <1>2, <1>3, <1>4 DEF Wanting
<1>6. DueInv
  BY <1>1 DEF DueInv
<1>7. \A t \in Threads : AimInv(t) /\ ok[t]
  BY DEF Init, AimInv
<1> QED BY <1>2, <1>5, <1>6, <1>7 DEF GoalInv

(* SettingsFollowRequests: when nothing runs and no transfer has failed,   *)
(* the registers of all panels are what the commands and attributes served *)
(* so far ask for, in whatever order their transfers went out.             *)
THEOREM SettingsFollowRequestsCorrect ==
  ASSUME NoOffsetSet, RawElsewhere PROVE Spec => []SettingsFollowRequests
<1>1. Init => TInv /\ CInv /\ ScanInv /\ GoalInv
  <2>1. Init => CInv
    BY DEF Init, CInv, JobInv, DoneInv
  <2> QED BY <2>1, InitTInv, InitScan, InitGoal
<1>2. TInv /\ CInv /\ ScanInv /\ GoalInv /\ [Next]_vars => TInv' /\ CInv' /\ ScanInv' /\ GoalInv'
  BY NextKeeps, NextEffect, NextScan, NextGoal
<1>3. TInv /\ GoalInv => SettingsFollowRequests
  BY Settled DEF SettingsFollowRequests, Quiet
<1> QED BY <1>1, <1>2, <1>3, PTL DEF Spec

-----------------------------------------------------------------------------
(* A command that reads has seen one moment.                               *)

(* Lists that show nothing and ask no sensor; steps that only show.        *)
Silent(q) == \E S : q \in Seq(S) /\ \A s \in S : s.op \notin {"get", "ask"}
Gets      == [op : {"get"}, at : Panel, reg : Regs(Drv) \cup {"sysfs"}, fail : Outcomes]
Asks(r)   == r.by = "show" /\ r.name = "temperature" /\ Drv = "jbd4040"

(* A list of steps that are neither.                                       *)
LEMMA SilentSteps ==
  ASSUME NEW S, NEW q \in Seq(S), \A s \in S : s.op # "get" /\ s.op # "ask"
  PROVE  Silent(q)
<1>1. \A s \in S : s.op \notin {"get", "ask"}
  OBVIOUS
<1> QED BY <1>1 DEF Silent

(* One step.                                                               *)
LEMMA SilentOne ==
  ASSUME NEW s, s.op \notin {"get", "ask"}
  PROVE  Silent(<< s >>)
<1> DEFINE q == << s >>
           S == {s}
<1>1. q \in Seq(S) /\ \A x \in S : x.op # "get" /\ x.op # "ask"
  OBVIOUS
<1> HIDE DEF q, S
<1>2. Silent(q)
  BY <1>1, SilentSteps
<1> QED BY <1>2 DEF q

(* Two steps.                                                              *)
LEMMA SilentTwo ==
  ASSUME NEW s, NEW r, s.op \notin {"get", "ask"}, r.op \notin {"get", "ask"}
  PROVE  Silent(<< s, r >>)
<1> DEFINE q == << s, r >>
           S == {s, r}
<1>1. q \in Seq(S) /\ \A x \in S : x.op # "get" /\ x.op # "ask"
  OBVIOUS
<1> HIDE DEF q, S
<1>2. Silent(q)
  BY <1>1, SilentSteps
<1> QED BY <1>2 DEF q

(* One list after the other.                                               *)
LEMMA SilentJoin ==
  ASSUME NEW a, NEW b, Silent(a), Silent(b)
  PROVE  Silent(a \o b)
<1>1. PICK S : a \in Seq(S) /\ \A s \in S : s.op \notin {"get", "ask"}
  BY DEF Silent
<1>2. PICK T : b \in Seq(T) /\ \A s \in T : s.op \notin {"get", "ask"}
  BY DEF Silent
<1> DEFINE U == S \cup T
<1>3. a \in Seq(U) /\ b \in Seq(U)
  BY <1>1, <1>2
<1>4. a \o b \in Seq(U)
  BY <1>3, ConcatProperties
<1>5. \A s \in U : s.op \notin {"get", "ask"}
  BY <1>1, <1>2
<1> QED BY <1>4, <1>5 DEF Silent

(* One for each panel.                                                     *)
LEMMA SilentThree ==
  ASSUME NEW a, NEW b, NEW c, Silent(a), Silent(b), Silent(c)
  PROVE  Silent(a \o b \o c)
<1>1. Silent(a \o b)
  BY SilentJoin
<1> QED BY <1>1, SilentJoin

(* What handlers read for a write and what they write is not shown.        *)
LEMMA SilentPieces ==
  ASSUME NEW at, NEW g, NEW set, NEW fail, NEW n
  PROVE  /\ Silent(Rmw(at, g, set)) /\ Silent(AttrRmw(at, g, set, n))
         /\ Silent(<< Wr(at, g, set, fail) >>) /\ Silent(<< Select(g) >>) /\ Silent(<< >>)
         /\ Silent(<< Rd(at, g, End), Wr(at, g, set, fail) >>)
         /\ Silent(<< [Rd(at, g, Skip(1)) EXCEPT !.op = "readhv"], Wr(at, g, set, fail) >>)
<1>1. \A x : Rd(at, g, x).op = "read" /\ Wr(at, g, set, x).op = "write"
  BY DEF Rd, Wr
<1>2. Select(g).op = "select" /\ [Rd(at, g, Skip(1)) EXCEPT !.op = "readhv"].op = "readhv"
  BY DEF Select, Rd
<1>3. Silent(<< >>)
  <2> DEFINE q == << >>
             S == {}
  <2>1. q \in Seq(S) /\ \A x \in S : x.op # "get" /\ x.op # "ask"
    OBVIOUS
  <2> HIDE DEF q, S
  <2>2. Silent(q)
    BY <2>1, SilentSteps
  <2> QED BY <2>2 DEF q
<1>4. Silent(Rmw(at, g, set))
  BY <1>1, SilentTwo DEF Rmw
<1>5. Silent(AttrRmw(at, g, set, n))
  BY <1>1, SilentTwo DEF AttrRmw
<1>6. Silent(<< Wr(at, g, set, fail) >>) /\ Silent(<< Select(g) >>)
  BY <1>1, <1>2, SilentOne
<1>7. /\ Silent(<< Rd(at, g, End), Wr(at, g, set, fail) >>)
      /\ Silent(<< [Rd(at, g, Skip(1)) EXCEPT !.op = "readhv"], Wr(at, g, set, fail) >>)
  BY <1>1, <1>2, SilentTwo
<1> QED BY <1>3, <1>4, <1>5, <1>6, <1>7

(* The commands that set something show nothing ...                        *)
LEMMA SilentCommands ==
  ASSUME NEW r
  PROVE  /\ Silent(LuminSet(r)) /\ Silent(CurrentSet(r)) /\ Silent(FlipSet(r)) /\ Silent(MirrorSet(r))
         /\ Silent(WriteReg(Drv, r))
<1> DEFINE L(p) == Rmw(p, "LUM", [val |-> Number(r, p) % 8192])
           C(p) == Rmw(p, "CUR", [val |-> Number(r, p) % 256])
           F(p) == Rmw(p, "FLIP", [flip |-> r.en]) \o Rmw(p, "VO", [flip |-> r.en])
           M(p) == Rmw(p, "FLIP", [mirror |-> MirrorBit(p, r.en)]) \o Rmw(p, "VO", [mirror |-> MirrorBit(p, r.en)])
<1>1. ASSUME NEW p
      PROVE  Silent(L(p)) /\ Silent(C(p)) /\ Silent(F(p)) /\ Silent(M(p))
  <2> DEFINE l == [val |-> Number(r, p) % 8192]
             c == [val |-> Number(r, p) % 256]
             f == [flip |-> r.en]
             m == [mirror |-> MirrorBit(p, r.en)]
  <2> HIDE DEF l, c, f, m
  <2>1. /\ Silent(Rmw(p, "LUM", l)) /\ Silent(Rmw(p, "CUR", c)) /\ Silent(Rmw(p, "FLIP", f))
        /\ Silent(Rmw(p, "VO", f)) /\ Silent(Rmw(p, "FLIP", m)) /\ Silent(Rmw(p, "VO", m))
    BY SilentPieces
  <2>2. /\ Silent(Rmw(p, "FLIP", f) \o Rmw(p, "VO", f)) /\ Silent(Rmw(p, "FLIP", m) \o Rmw(p, "VO", m))
    BY <2>1, SilentJoin
  <2> QED BY <2>1, <2>2 DEF l, c, f, m
<1>2. LuminSet(r) = L("R") \o L("G") \o L("B") /\ CurrentSet(r) = C("R") \o C("G") \o C("B")
  BY DEF LuminSet, CurrentSet, PerPanel
<1>3. FlipSet(r) = F("R") \o F("G") \o F("B") /\ MirrorSet(r) = M("R") \o M("G") \o M("B")
  BY DEF FlipSet, MirrorSet, PerPanel
<1>4. Silent(WriteReg(Drv, r))
  BY SilentPieces DEF WriteReg
<1> HIDE DEF L, C, F, M
<1> QED BY <1>1, <1>2, <1>3, <1>4, SilentThree

(* ... and neither do the attributes that are written.                     *)
LEMMA SilentStores ==
  ASSUME NEW r, r.name \in Stores(Drv), Drv \in Driver
  PROVE  Silent(StoreSteps(Drv, r))
<1> DEFINE F(p) == AttrRmw(p, "FLIP", [flip |-> r.en], 2) \o AttrRmw(p, "VO", [flip |-> r.en], 0)
           M(p) == AttrRmw(p, "FLIP", [mirror |-> MirrorBit(p, r.en)], 2)
                   \o AttrRmw(p, "VO", [mirror |-> MirrorBit(p, r.en)], 0)
           H(p) == AttrRmw(p, "FLIP", [flip |-> r.en], 0)
           N(p) == AttrRmw(p, "FLIP", [mirror |-> MirrorBit(p, r.en)], 0)
<1>1. ASSUME NEW p
      PROVE  Silent(F(p)) /\ Silent(M(p)) /\ Silent(H(p)) /\ Silent(N(p))
  <2> DEFINE m == [mirror |-> MirrorBit(p, r.en)]
             f == [flip |-> r.en]
  <2> HIDE DEF m, f
  <2>1. /\ Silent(AttrRmw(p, "FLIP", f, 2)) /\ Silent(AttrRmw(p, "VO", f, 0)) /\ Silent(AttrRmw(p, "FLIP", f, 0))
        /\ Silent(AttrRmw(p, "FLIP", m, 2)) /\ Silent(AttrRmw(p, "VO", m, 0)) /\ Silent(AttrRmw(p, "FLIP", m, 0))
    BY SilentPieces
  <2>2. /\ Silent(AttrRmw(p, "FLIP", f, 2) \o AttrRmw(p, "VO", f, 0))
        /\ Silent(AttrRmw(p, "FLIP", m, 2) \o AttrRmw(p, "VO", m, 0))
    BY <2>1, SilentJoin
  <2> QED BY <2>1, <2>2 DEF m, f
<1>2. /\ Store4020Flip(r) = F("R") \o F("G") \o F("B") /\ Store4020Mirror(r) = M("R") \o M("G") \o M("B")
      /\ Store4040Flip(r) = H("R") \o H("G") \o H("B") /\ Store4040Mirror(r) = N("R") \o N("G") \o N("B")
  BY DEF Store4020Flip, Store4020Mirror, Store4040Flip, Store4040Mirror, PerPanel
<1> HIDE DEF F, M, H, N
<1>3. Silent(Store4020Flip(r)) /\ Silent(Store4020Mirror(r)) /\ Silent(Store4040Flip(r)) /\ Silent(Store4040Mirror(r))
  BY <1>1, <1>2, SilentThree
<1>4. Silent(Store4020Luminance(r)) /\ Silent(Store4020Current(r))
  <2> DEFINE a == [val |-> Number(r, r.p) % 8192]
             b == [val |-> Number(r, r.p) % 256]
  <2>1. /\ Store4020Luminance(r) = AttrRmw(r.p, "LUM", a, 0)
        /\ Store4020Current(r) = AttrRmw(r.p, "CUR", b, 0)
    BY DEF Store4020Luminance, Store4020Current
  <2> HIDE DEF a, b
  <2> QED BY <2>1, SilentPieces
<1>9. Silent(Store4040Luminance(r)) /\ Silent(Store4040Current(r)) /\ Silent(Store4040Offset(r))
  <2> DEFINE a(p) == [val |-> Number(r, p) % 8192]
             b(p) == [val |-> Number(r, p) % 256, rest |-> (Number(r, p) \div 256) % 256]
             c(p) == [h |-> Number(r, p) % 32, v |-> Vertical(r, p) % 32]
             A(p) == IF p \in r.ps THEN AttrRmw(p, "LUM", a(p), 0) ELSE << >>
             B(p) == IF p \in r.ps THEN << Wr(p, "CUR", b(p), Skip(0)) >> ELSE << >>
             C(p) == IF p \in r.ps
                     THEN IF r.en = 0 \/ r.short THEN << >> ELSE << Wr(p, "OFFSET", c(p), Skip(0)) >>
                     ELSE << >>
  <2>1. /\ Store4040Luminance(r) = A("R") \o A("G") \o A("B") /\ Store4040Current(r) = B("R") \o B("G") \o B("B")
        /\ Store4040Offset(r) = C("R") \o C("G") \o C("B")
    BY DEF Store4040Luminance, Store4040Current, Store4040Offset, PerNamed, PerPanel
  <2> HIDE DEF a, b, c
  <2>2. ASSUME NEW p
        PROVE  Silent(A(p)) /\ Silent(B(p)) /\ Silent(C(p))
    <3>1. /\ Silent(AttrRmw(p, "LUM", a(p), 0)) /\ Silent(<< Wr(p, "CUR", b(p), Skip(0)) >>)
          /\ Silent(<< Wr(p, "OFFSET", c(p), Skip(0)) >>) /\ Silent(<< >>)
      BY SilentPieces
    <3> QED BY <3>1
  <2> HIDE DEF A, B, C
  <2> QED BY <2>1, <2>2, SilentThree
<1>5. Silent(Store4040TxTiming(r)) /\ Silent(RegStore(r)) /\ Silent(ValStore)
  BY SilentPieces DEF Store4040TxTiming, RegStore, ValStore
<1>6. Silent(Store4020Offset(r))
  BY SilentPieces, SilentJoin DEF Store4020Offset
<1>7. Silent(StoreFps(r))
  <2> DEFINE a == TakeAddr
             b == Rd("client", "FPS", Note)
             c == GiveAddr
             d == Wr("client", "FPS", [idx |-> r.n], Note)
  <2>1. a.op = "take" /\ b.op = "read" /\ c.op = "give" /\ d.op = "write"
    BY DEF TakeAddr, GiveAddr, Rd, Wr
  <2>2. StoreFps(r) = << a, b, c, d >>
    BY DEF StoreFps
  <2> HIDE DEF a, b, c, d
  <2> DEFINE q == << a, b, c, d >>
             S == {a, b, c, d}
  <2>3. q \in Seq(S) /\ \A x \in S : x.op # "get" /\ x.op # "ask"
    BY <2>1
  <2> HIDE DEF q, S
  <2>4. Silent(q)
    BY <2>3, SilentSteps
  <2> QED BY <2>2, <2>4 DEF q
<1>8. r.name \in {"luminance", "current", "flip", "mirror", "offset", "reg", "val", "fps", "tx"}
      /\ (r.name = "tx" => Drv = "jbd4040")
  BY DEF Stores
<1> QED BY <1>3, <1>4, <1>5, <1>6, <1>7, <1>8, <1>9 DEF StoreSteps, Driver

(* One read to show it, and one of each panel.                             *)
LEMMA GetsMade ==
  ASSUME NEW g \in Regs(Drv) \cup {"sysfs"}, NEW fail \in {End, Note, Skip(0)}
  PROVE  LET get(p) == << Get(p, g, fail) >> IN
         get("R") \in Seq(Gets) /\ get("R") \o get("G") \o get("B") \in Seq(Gets)
<1> DEFINE get(p) == << Get(p, g, fail) >>
<1>1. ASSUME NEW p \in Panel
      PROVE  get(p) \in Seq(Gets)
  <2>1. fail \in Outcomes
    BY FailOutcomes
  <2>2. Get(p, g, fail) \in Gets
    BY <2>1 DEF Get, Gets
  <2> HIDE DEF Gets
  <2> QED BY <2>2
<1> HIDE DEF get, Gets
<1>2. get("R") \in Seq(Gets) /\ get("G") \in Seq(Gets) /\ get("B") \in Seq(Gets)
  BY <1>1, PanelNames
<1>3. get("R") \o get("G") \o get("B") \in Seq(Gets)
  BY <1>2, ConcatProperties
<1> QED BY <1>2, <1>3 DEF get

(* Every handler but OFFSET_SET is of one of three sorts.                  *)
LEMMA HandlerSorts ==
  ASSUME scen \in Scenarios, NEW r \in scen.requests, Tame(r)
  PROVE  \/ Silent(Steps(r)) /\ ~ Asks(r)
         \/ Steps(r) \in Seq(Gets) /\ ~ Asks(r)
         \/ Asks(r) /\ Steps(r) = Show4040Temperature
<1>1. /\ Requested(Drv, r) /\ Drv \in Driver
      /\ \/ r.by = "ioctl" /\ r.name \in Ioctls
         \/ r.by = "show" /\ r.name \in Shows(Drv)
         \/ r.by = "store" /\ r.name \in Stores(Drv)
  BY ScenarioRequest
<1>2. {"LUM", "CUR", "FLIP", "OFFSET", "TEMP"} \subseteq Regs(Drv) /\ r.reg \in Regs(Drv)
      /\ (Drv = "jbd4020" => "VO" \in Regs(Drv)) /\ (Drv = "jbd4040" => "FPS" \in Regs(Drv))
  BY <1>1, SharedWidths, RegisterNames DEF Requested
<1>3. CASE r.by = "store"
  <2>1. Steps(r) = StoreSteps(Drv, r) /\ ~ Asks(r)
    BY <1>3 DEF Steps, Drv, Asks
  <2> QED BY <1>1, <1>3, <2>1, SilentStores
<1>4. CASE r.by = "ioctl"
  <2>1. Steps(r) = IoctlSteps(Drv, r) /\ ~ Asks(r)
    BY <1>4 DEF Steps, Drv, Asks
  <2>2. ReadReg(r) \in Seq(Gets)
    BY <1>2, GetsMade DEF ReadReg
  <2>3. ASSUME Drv = "jbd4020"
        PROVE  /\ LuminGet \in Seq(Gets) /\ CurrentGet \in Seq(Gets) /\ TempRead \in Seq(Gets)
               /\ FlipGet \in Seq(Gets) /\ MirrorGet \in Seq(Gets) /\ OffsetGet \in Seq(Gets)
    BY <1>2, <2>3, GetsMade DEF LuminGet, CurrentGet, TempRead, FlipGet, MirrorGet, OffsetGet, PerPanel
  <2>8. CASE Stub(Drv, r)
    <3>1. Steps(r) = << >>
      BY <2>1, <2>8 DEF IoctlSteps
    <3> QED BY <2>1, <3>1, SilentPieces
  <2>9. CASE ~ Stub(Drv, r) /\ r.name \notin {"READ_REG", "WRITE_REG"}
    <3>1. /\ Drv = "jbd4020"
          /\ r.name \in {"LUMIN_GET", "LUMIN_SET", "CURRENT_GET", "CURRENT_SET", "TEMP_READ", "FLIP_GET",
                         "FLIP_SET", "MIRROR_GET", "MIRROR_SET", "OFFSET_GET"}
      BY <1>1, <1>4, <2>9 DEF Ioctls, Commands, Stub, Tame, Driver
    <3>2. CASE r.name \in {"LUMIN_SET", "CURRENT_SET", "FLIP_SET", "MIRROR_SET"}
      BY <2>1, <2>9, <3>2, SilentCommands DEF IoctlSteps
    <3>3. CASE r.name \in {"LUMIN_GET", "CURRENT_GET", "TEMP_READ", "FLIP_GET", "MIRROR_GET", "OFFSET_GET"}
      BY <2>1, <2>3, <2>9, <3>1, <3>3 DEF IoctlSteps
    <3> QED BY <3>1, <3>2, <3>3
  <2>5. CASE r.name \in {"READ_REG", "WRITE_REG"}
    <3>1. ~ Stub(Drv, r)
      BY <2>5, NoStub DEF Commands
    <3> QED BY <2>1, <2>2, <2>5, <3>1, SilentCommands DEF IoctlSteps
  <2> QED BY <2>5, <2>8, <2>9
<1>5. CASE r.by = "show"
  <2>1. Steps(r) = ShowSteps(Drv, r)
    BY <1>5 DEF Steps, Drv
  <2>2. CASE Asks(r)
    BY <2>1, <2>2 DEF Asks, ShowSteps
  <2>3. CASE ~ Asks(r)
    <3>1. /\ ShowColours("LUM") \in Seq(Gets) /\ ShowColours("CUR") \in Seq(Gets) /\ ShowColours("TEMP") \in Seq(Gets)
          /\ ShowColours("FLIP") \in Seq(Gets) /\ ShowColours("OFFSET") \in Seq(Gets)
      BY <1>2, GetsMade DEF ShowColours, PerPanel
    <3>2. << Get("R", "FLIP", End) >> \in Seq(Gets) /\ ValShow \in Seq(Gets)
      BY <1>2, GetsMade DEF ValShow
    <3>3. ShowFlip(Drv) \in Seq(Gets)
      BY <3>1, <3>2 DEF ShowFlip
    <3>4. Drv = "jbd4040" => ShowFps \in Seq(Gets)
      BY <1>2, GetsMade DEF ShowFps
    <3>5. /\ r.name \in {"luminance", "current", "temperature", "flip", "mirror", "offset", "val", "fps"}
          /\ r.name = "temperature" => Drv = "jbd4020"
          /\ r.name = "fps" => Drv = "jbd4040"
      BY <1>1, <1>5, <2>3 DEF Shows, Asks, Driver
    <3> HIDE DEF Gets
    <3>6. ShowSteps(Drv, r) \in Seq(Gets)
      BY <3>1, <3>2, <3>3, <3>4, <3>5 DEF ShowSteps
    <3> QED BY <2>1, <2>3, <3>6
  <2> QED BY <2>2, <2>3
<1> QED BY <1>1, <1>3, <1>4, <1>5

(* Three lists one after the other, place by place.                        *)
LEMMA ThreeJoined ==
  ASSUME NEW S, NEW x \in Seq(S), NEW y \in Seq(S), NEW z \in Seq(S)
  PROVE  /\ x \o y \o z \in Seq(S) /\ Len(x \o y \o z) = Len(x) + Len(y) + Len(z)
         /\ Len(x) \in Nat /\ Len(y) \in Nat /\ Len(z) \in Nat
         /\ \A i \in 1 .. Len(x) : (x \o y \o z)[i] = x[i]
         /\ \A i \in 1 .. Len(y) : (x \o y \o z)[Len(x) + i] = y[i]
         /\ \A i \in 1 .. Len(z) : (x \o y \o z)[Len(x) + Len(y) + i] = z[i]
<1> DEFINE a == x \o y
           l == Len(x)
           m == Len(y)
           n == Len(z)
<1>1. /\ a \in Seq(S) /\ Len(a) = l + m /\ l \in Nat /\ m \in Nat
      /\ \A i \in 1 .. l : a[i] = x[i]
      /\ \A i \in l + 1 .. l + m : a[i] = y[i - l]
  BY Joined
<1> HIDE DEF a
<1>2. /\ a \o z \in Seq(S) /\ Len(a \o z) = Len(a) + n /\ n \in Nat
      /\ \A i \in 1 .. Len(a) : (a \o z)[i] = a[i]
      /\ \A i \in Len(a) + 1 .. Len(a) + n : (a \o z)[i] = z[i - Len(a)]
  <2>1. a \in Seq(S)
    BY <1>1
  <2> QED BY <2>1, Joined
<1> HIDE DEF l, m, n
<1>3. ASSUME NEW i \in 1 .. l PROVE (a \o z)[i] = x[i]
  <2>1. i \in 1 .. Len(a)
    BY <1>1
  <2> QED BY <2>1, <1>1, <1>2
<1>4. ASSUME NEW i \in 1 .. m PROVE (a \o z)[l + i] = y[i]
  <2>1. l + i \in 1 .. Len(a) /\ l + i \in l + 1 .. l + m /\ (l + i) - l = i
    BY <1>1
  <2> QED BY <2>1, <1>1, <1>2
<1>5. ASSUME NEW i \in 1 .. n PROVE (a \o z)[l + m + i] = z[i]
  <2>1. l + m + i \in Len(a) + 1 .. Len(a) + n /\ (l + m + i) - Len(a) = i
    BY <1>1, <1>2
  <2> QED BY <2>1, <1>2
<1>6. Len(a \o z) = l + m + n
  BY <1>1, <1>2
<1> QED BY <1>1, <1>2, <1>3, <1>4, <1>5, <1>6 DEF a, l, m, n

Colours == << "R", "G", "B" >>

(* The colours by number.                                                  *)
LEMMA ColourNumbers ==
  /\ Colours[1] = "R" /\ Colours[2] = "G" /\ Colours[3] = "B"
  /\ \A i \in 1 .. 3 : i \in {1, 2, 3} /\ Colours[i] \in Panel /\ Colours[i] # "client"
  /\ \A i \in 1 .. 3 : \A j \in 1 .. 3 : Colours[i] = Colours[j] => i = j
<1>1. Colours[1] = "R" /\ Colours[2] = "G" /\ Colours[3] = "B"
  BY DEF Colours
<1>2. \A i \in 1 .. 3 : i \in {1, 2, 3}
  OBVIOUS
<1> QED BY <1>1, <1>2 DEF Panel

SwitchSensor(p, c) == Wr(p, "PVT", [ctl |-> c], Skip(0))

(* The steps of temperature_show: switch three sensors on; for each look   *)
(* whether it is, ask, and read it; switch them off.                       *)
SensorList(q) ==
  /\ Len(q) = 15
  /\ \A i \in 1 .. 3 :
       /\ q[i] = SwitchSensor(Colours[i], 3)
       /\ q[3 * i + 1] = Rd(Colours[i], "PVT", Skip(2))
       /\ q[3 * i + 2] = AskSensor
       /\ q[3 * i + 3] = Get(Colours[i], "TEMP", Skip(0))
       /\ q[12 + i] = SwitchSensor(Colours[i], 0)

(* These are its steps.                                                    *)
LEMMA TemperatureList == SensorList(Show4040Temperature)
<1> DEFINE w(p, c) == << SwitchSensor(p, c) >>
           x(p) == Rd(p, "PVT", Skip(2))
           v(p) == Get(p, "TEMP", Skip(0))
           ask(p) == << x(p), AskSensor, v(p) >>
           S == {SwitchSensor(p, c) : p \in Panel, c \in {0, 3}} \cup {x(p) : p \in Panel} \cup {AskSensor}
                \cup {v(p) : p \in Panel}
           a == w("R", 3) \o w("G", 3) \o w("B", 3)
           b == ask("R") \o ask("G") \o ask("B")
           z == w("R", 0) \o w("G", 0) \o w("B", 0)
<1>1. Show4040Temperature = a \o b \o z
  BY DEF Show4040Temperature, PerPanel, SwitchSensor
<1> HIDE DEF x, v
<1>2. \A p \in Panel : \A c \in {0, 3} : SwitchSensor(p, c) \in S /\ x(p) \in S /\ v(p) \in S /\ AskSensor \in S
  OBVIOUS
<1> HIDE DEF S
<1>3. ASSUME NEW p \in Panel, NEW c \in {0, 3}
      PROVE  w(p, c) \in Seq(S) /\ Len(w(p, c)) = 1 /\ w(p, c)[1] = SwitchSensor(p, c)
  BY <1>2
<1>4. ASSUME NEW p \in Panel
      PROVE  /\ ask(p) \in Seq(S) /\ Len(ask(p)) = 3
             /\ ask(p)[1] = x(p) /\ ask(p)[2] = AskSensor /\ ask(p)[3] = v(p)
  BY <1>2
<1> HIDE DEF w, ask
<1>5. ASSUME NEW c \in {0, 3}
      PROVE  LET q == w("R", c) \o w("G", c) \o w("B", c) IN
             /\ q \in Seq(S) /\ Len(q) = 3 /\ \A i \in 1 .. 3 : q[i] = SwitchSensor(Colours[i], c)
  <2> DEFINE q == w("R", c) \o w("G", c) \o w("B", c)
  <2>1. /\ q \in Seq(S) /\ Len(q) = 1 + 1 + 1
        /\ \A i \in 1 .. 1 : q[i] = w("R", c)[i]
        /\ \A i \in 1 .. 1 : q[1 + i] = w("G", c)[i]
        /\ \A i \in 1 .. 1 : q[1 + 1 + i] = w("B", c)[i]
    <3>1. /\ w("R", c) \in Seq(S) /\ w("G", c) \in Seq(S) /\ w("B", c) \in Seq(S)
          /\ Len(w("R", c)) = 1 /\ Len(w("G", c)) = 1 /\ Len(w("B", c)) = 1
      BY <1>3, PanelNames
    <3>2. /\ q \in Seq(S) /\ Len(q) = Len(w("R", c)) + Len(w("G", c)) + Len(w("B", c))
          /\ \A i \in 1 .. Len(w("R", c)) : q[i] = w("R", c)[i]
          /\ \A i \in 1 .. Len(w("G", c)) : q[Len(w("R", c)) + i] = w("G", c)[i]
          /\ \A i \in 1 .. Len(w("B", c)) : q[Len(w("R", c)) + Len(w("G", c)) + i] = w("B", c)[i]
      BY <3>1, ThreeJoined
    <3> HIDE DEF q
    <3> QED BY <3>1, <3>2
  <2> HIDE DEF q
  <2>2. 1 \in 1 .. 1 /\ 1 + 1 = 2 /\ 1 + 1 + 1 = 3
    OBVIOUS
  <2>3. q[1] = SwitchSensor("R", c) /\ q[2] = SwitchSensor("G", c) /\ q[3] = SwitchSensor("B", c)
    BY <2>1, <2>2, <1>3, PanelNames
  <2>4. \A i \in 1 .. 3 : q[i] = SwitchSensor(Colours[i], c)
    BY <2>3, ColourNumbers
  <2> QED BY <2>1, <2>2, <2>4 DEF q
<1>6. /\ b \in Seq(S) /\ Len(b) = 9
      /\ \A i \in 1 .. 3 : /\ b[3 * i - 2] = x(Colours[i])
                           /\ b[3 * i - 1] = AskSensor
                           /\ b[3 * i] = v(Colours[i])
  <2>1. /\ b \in Seq(S) /\ Len(b) = 3 + 3 + 3
        /\ \A i \in 1 .. 3 : b[i] = ask("R")[i]
        /\ \A i \in 1 .. 3 : b[3 + i] = ask("G")[i]
        /\ \A i \in 1 .. 3 : b[3 + 3 + i] = ask("B")[i]
    <3>1. /\ ask("R") \in Seq(S) /\ ask("G") \in Seq(S) /\ ask("B") \in Seq(S)
          /\ Len(ask("R")) = 3 /\ Len(ask("G")) = 3 /\ Len(ask("B")) = 3
      BY <1>4, PanelNames
    <3>2. /\ b \in Seq(S) /\ Len(b) = Len(ask("R")) + Len(ask("G")) + Len(ask("B"))
          /\ \A i \in 1 .. Len(ask("R")) : b[i] = ask("R")[i]
          /\ \A i \in 1 .. Len(ask("G")) : b[Len(ask("R")) + i] = ask("G")[i]
          /\ \A i \in 1 .. Len(ask("B")) : b[Len(ask("R")) + Len(ask("G")) + i] = ask("B")[i]
      BY <3>1, ThreeJoined
    <3> HIDE DEF b
    <3> QED BY <3>1, <3>2
  <2> HIDE DEF b
  <2>2. /\ b[1] = x("R") /\ b[2] = AskSensor /\ b[3] = v("R")
        /\ b[3 + 1] = x("G") /\ b[3 + 2] = AskSensor /\ b[3 + 3] = v("G")
        /\ b[3 + 3 + 1] = x("B") /\ b[3 + 3 + 2] = AskSensor /\ b[3 + 3 + 3] = v("B")
    BY <2>1, <1>4, PanelNames
  <2>3. /\ b[4] = x("G") /\ b[5] = AskSensor /\ b[6] = v("G")
        /\ b[7] = x("B") /\ b[8] = AskSensor /\ b[9] = v("B")
    BY <2>2
  <2>4. ASSUME NEW i \in 1 .. 3
        PROVE  b[3 * i - 2] = x(Colours[i]) /\ b[3 * i - 1] = AskSensor /\ b[3 * i] = v(Colours[i])
    <3>1. CASE i = 1
      BY <3>1, <2>2, ColourNumbers
    <3>2. CASE i = 2
      BY <3>2, <2>3, ColourNumbers
    <3>3. CASE i = 3
      BY <3>3, <2>3, ColourNumbers
    <3> QED BY <3>1, <3>2, <3>3
  <2>5. Len(b) = 9
    BY <2>1
  <2> QED BY <2>1, <2>4, <2>5
<1>7. /\ a \in Seq(S) /\ Len(a) = 3 /\ \A i \in 1 .. 3 : a[i] = SwitchSensor(Colours[i], 3)
      /\ z \in Seq(S) /\ Len(z) = 3 /\ \A i \in 1 .. 3 : z[i] = SwitchSensor(Colours[i], 0)
  BY <1>5
<1> DEFINE q == a \o b \o z
<1> HIDE DEF a, b, z
<1>8. /\ Len(q) = 3 + 9 + 3
      /\ \A i \in 1 .. 3 : q[i] = a[i]
      /\ \A i \in 1 .. 9 : q[3 + i] = b[i]
      /\ \A i \in 1 .. 3 : q[3 + 9 + i] = z[i]
  <2>1. /\ Len(q) = Len(a) + Len(b) + Len(z)
        /\ \A i \in 1 .. Len(a) : q[i] = a[i]
        /\ \A i \in 1 .. Len(b) : q[Len(a) + i] = b[i]
        /\ \A i \in 1 .. Len(z) : q[Len(a) + Len(b) + i] = z[i]
    <3>1. a \in Seq(S) /\ b \in Seq(S) /\ z \in Seq(S)
      BY <1>6, <1>7
    <3> QED BY <3>1, ThreeJoined
  <2> HIDE DEF q
  <2> QED BY <1>6, <1>7, <2>1
<1> HIDE DEF q
<1>9. ASSUME NEW i \in 1 .. 3
      PROVE  /\ q[i] = SwitchSensor(Colours[i], 3) /\ q[12 + i] = SwitchSensor(Colours[i], 0)
             /\ q[3 * i + 1] = x(Colours[i]) /\ q[3 * i + 2] = AskSensor /\ q[3 * i + 3] = v(Colours[i])
  <2>1. /\ 3 * i - 2 \in 1 .. 9 /\ 3 * i - 1 \in 1 .. 9 /\ 3 * i \in 1 .. 9
        /\ 3 + (3 * i - 2) = 3 * i + 1 /\ 3 + (3 * i - 1) = 3 * i + 2 /\ 3 + 3 * i = 3 * i + 3 /\ 3 + 9 + i = 12 + i
    OBVIOUS
  <2>2. q[3 + (3 * i - 2)] = x(Colours[i]) /\ q[3 + (3 * i - 1)] = AskSensor /\ q[3 + 3 * i] = v(Colours[i])
    <3>1. b[3 * i - 2] = x(Colours[i]) /\ b[3 * i - 1] = AskSensor /\ b[3 * i] = v(Colours[i])
      BY <1>6
    <3>2. \A j \in 1 .. 9 : q[3 + j] = b[j]
      BY <1>8
    <3> QED BY <2>1, <3>1, <3>2
  <2>3. q[i] = SwitchSensor(Colours[i], 3) /\ q[3 + 9 + i] = SwitchSensor(Colours[i], 0)
    BY <1>7, <1>8
  <2> QED BY <2>1, <2>2, <2>3
<1>10. Len(q) = 15
  BY <1>8
<1>11. SensorList(q)
  BY <1>9, <1>10 DEF SensorList, x, v
<1> QED BY <1>1, <1>11 DEF q

(* How many of the first n steps show what they read, one step after the   *)
(* other; and the place of a step that does.                               *)
LEMMA GetsCount ==
  ASSUME NEW q, NEW n \in Nat
  PROVE  /\ GetsUpTo(q, n) \in Nat /\ GetsUpTo(q, 0) = 0
         /\ GetsUpTo(q, n + 1) = GetsUpTo(q, n) + (IF q[n + 1].op = "get" THEN 1 ELSE 0)
         /\ \A i \in 1 .. n : q[i].op = "get" => GetsUpTo(q, i) \in 1 .. GetsUpTo(q, n)
<1> DEFINE G(m) == {i \in 1 .. m : q[i].op = "get"}
<1>1. ASSUME NEW m \in Nat
      PROVE  IsFiniteSet(G(m)) /\ Cardinality(G(m)) \in Nat /\ GetsUpTo(q, m) = Cardinality(G(m))
  <2>1. 1 \in Int /\ m \in Int
    OBVIOUS
  <2>2. IsFiniteSet(1 .. m)
    BY <2>1, FS_Interval
  <2>3. G(m) \in SUBSET (1 .. m)
    OBVIOUS
  <2>4. IsFiniteSet(G(m))
    BY <2>2, <2>3, FS_Subset
  <2> QED BY <2>4, FS_CardinalityType DEF GetsUpTo
<1>2. GetsUpTo(q, 0) = 0
  <2>1. G(0) = {}
    OBVIOUS
  <2> QED BY <1>1, <2>1, FS_EmptySet
<1>3. ASSUME q[n + 1].op = "get"
      PROVE  GetsUpTo(q, n + 1) = GetsUpTo(q, n) + 1
  <2>1. G(n + 1) = G(n) \cup {n + 1} /\ n + 1 \notin G(n)
    BY <1>3
  <2>2. IsFiniteSet(G(n)) /\ Cardinality(G(n)) \in Nat /\ GetsUpTo(q, n) = Cardinality(G(n))
        /\ GetsUpTo(q, n + 1) = Cardinality(G(n + 1))
    BY <1>1
  <2> HIDE DEF G
  <2>3. Cardinality(G(n) \cup {n + 1}) = Cardinality(G(n)) + 1
    BY <2>1, <2>2, FS_AddElement
  <2> QED BY <2>1, <2>2, <2>3
<1>4. ASSUME q[n + 1].op # "get"
      PROVE  GetsUpTo(q, n + 1) = GetsUpTo(q, n)
  <2>1. G(n + 1) = G(n)
    <3>1. \A i \in 1 .. n + 1 : q[i].op = "get" => i \in 1 .. n
      <4>1. \A i \in 1 .. n + 1 : i = n + 1 \/ i \in 1 .. n
        OBVIOUS
      <4> QED BY <1>4, <4>1
    <3>2. \A i \in 1 .. n : i \in 1 .. n + 1
      OBVIOUS
    <3> QED BY <3>1, <3>2, Zenon
  <2>2. GetsUpTo(q, n) = Cardinality(G(n)) /\ Cardinality(G(n)) \in Nat /\ GetsUpTo(q, n + 1) = Cardinality(G(n + 1))
    BY <1>1
  <2> HIDE DEF G
  <2> QED BY <2>1, <2>2
<1>5. ASSUME NEW i \in 1 .. n, q[i].op = "get"
      PROVE  GetsUpTo(q, i) \in 1 .. GetsUpTo(q, n)
  <2>1. i \in Nat /\ i \in G(i) /\ G(i) \in SUBSET G(n)
    BY <1>5
  <2>2. /\ IsFiniteSet(G(i)) /\ Cardinality(G(i)) \in Nat /\ GetsUpTo(q, i) = Cardinality(G(i))
        /\ IsFiniteSet(G(n)) /\ Cardinality(G(n)) \in Nat /\ GetsUpTo(q, n) = Cardinality(G(n))
    BY <1>1, <2>1
  <2> HIDE DEF G
  <2>3. Cardinality(G(i)) # 0 /\ Cardinality(G(i)) <= Cardinality(G(n))
    BY <2>1, <2>2, FS_EmptySet, FS_Subset
  <2> QED BY <2>2, <2>3
<1>6. GetsUpTo(q, n) \in Nat
  BY <1>1
<1> HIDE DEF G
<1> QED BY <1>2, <1>3, <1>4, <1>5, <1>6

-----------------------------------------------------------------------------
(* The invariant of a handler that reads: it has taken the first n of its  *)
(* steps q, and has seen what is wanted.  While temperature_show reads the *)
(* sensors of the JBD4040, they are on and say so.                         *)

SensorsUp(t, n) ==
  /\ \A i \in 1 .. 3 : i <= n /\ n <= 12 => regs[Colours[i]]["PVT"]["ctl"] = 3
  /\ n \in {4, 7, 10} => temp[t]["ctl"] = 3
ReadSoFar(t, q) ==
  LET n == Len(q) - Len(job[t]) IN
  /\ Len(q) \in Nat /\ n \in 0 .. Len(q)
  /\ \A i \in 1 .. Len(job[t]) : job[t][i] = q[n + i]
  /\ \E S : seen[t] \in Seq(S)
  /\ Len(seen[t]) = GetsUpTo(q, n)
  /\ \A i \in 1 .. n : q[i].op = "get" => seen[t][GetsUpTo(q, i)] = Wanted(t, q[i])
  /\ Asks(req[t]) => SensorsUp(t, n)
SeenInv ==
  \A t \in Threads :
    /\ loc[t] # "run" => seen[t] = << >>
    /\ loc[t] = "run" /\ faults = 0 => ReadSoFar(t, Steps(req[t]))

(* The steps of a request depend on the driver only.                       *)
LEMMA SameSteps ==
  ASSUME NEW r, scen' = scen
  PROVE  Steps(r)' = Steps(r) /\ Asks(r)' = Asks(r)
  BY DEF Steps, Asks, Drv

(* The next step, taken without leaving any out.                           *)
LEMMA SeenStep ==
  ASSUME TInv, NEW t \in Threads, NEW q, NEW n, n = Len(q) - Len(job[t]), ReadSoFar(t, q),
         job[t] # << >>, UNCHANGED <<scen, req, goal>>,
         job'[t] = Rest(job[t], 0),
         seen'[t] = IF job[t][1].op = "get" THEN Append(seen[t], Wanted(t, job[t][1])) ELSE seen[t],
         sysfsReg' = sysfsReg \/ \A i \in 1 .. Len(q) : q[i].op # "get",
         Asks(req[t]) => SensorsUp(t, n + 1)'
  PROVE  ReadSoFar(t, q)'
<1> DEFINE s == job[t][1]
           m == n + 1
<1>1. /\ Len(job[t]) \in Nat /\ Len(job[t]) > 0 /\ Len(job'[t]) = Len(job[t]) - 1
      /\ \A i \in 1 .. Len(job'[t]) : i + 1 \in 1 .. Len(job[t]) /\ job'[t][i] = job[t][i + 1]
  <2>1. job[t] \in Seq(StepSet(Drv)) /\ Len(job[t]) \in Nat /\ Len(job[t]) > 0
    BY AtWork
  <2>2. /\ 0 + 1 <= Len(job[t]) => Len(job'[t]) = Len(job[t]) - (0 + 1)
        /\ \A i \in 1 .. Len(job'[t]) : i + 0 + 1 \in 1 .. Len(job[t]) /\ job'[t][i] = job[t][i + 0 + 1]
    BY <2>1, Remainder
  <2> QED BY <2>1, <2>2
<1>2. Len(q) \in Nat /\ n \in 0 .. Len(q) /\ Len(seen[t]) = GetsUpTo(q, n)
  BY DEF ReadSoFar
<1>3. \A i \in 1 .. Len(job[t]) : job[t][i] = q[n + i]
  BY DEF ReadSoFar
<1>4. \A i \in 1 .. n : q[i].op = "get" => seen[t][GetsUpTo(q, i)] = Wanted(t, q[i])
  BY DEF ReadSoFar
<1>5. n \in Nat /\ m = Len(q) - Len(job'[t]) /\ m \in 1 .. Len(q) /\ s = q[m]
  <2>1. 1 \in 1 .. Len(job[t])
    BY <1>1
  <2>2. Len(job[t]) \in Nat /\ Len(job[t]) > 0 /\ Len(job'[t]) = Len(job[t]) - 1
    BY <1>1
  <2>3. n \in Nat /\ m = Len(q) - Len(job'[t]) /\ m \in 1 .. Len(q)
    <3>1. \A a, c \in Nat : a > 0 /\ c - a \in 0 .. c => /\ c - a \in Nat /\ c - a + 1 = c - (a - 1)
                                                    /\ c - a + 1 \in 1 .. c
      OBVIOUS
    <3>2. n = Len(q) - Len(job[t])
      OBVIOUS
    <3> QED BY <1>2, <2>2, <3>1, <3>2
  <2>4. s = q[n + 1]
    BY <1>3, <2>1
  <2> QED BY <2>3, <2>4
<1>6. \A i \in 1 .. Len(job'[t]) : job'[t][i] = q[m + i]
  <2>1. ASSUME NEW i \in 1 .. Len(job'[t]) PROVE job'[t][i] = q[m + i]
    <3>1. i + 1 \in 1 .. Len(job[t]) /\ n + (i + 1) = m + i /\ job'[t][i] = job[t][i + 1]
      BY <1>1, <1>5
    <3>2. job[t][i + 1] = q[n + (i + 1)]
      BY <1>3, <3>1
    <3> QED BY <3>1, <3>2
  <2> QED BY <2>1
<1>7. n \in Nat
  BY <1>5
<1>8. /\ GetsUpTo(q, n) \in Nat
      /\ s.op = "get" => GetsUpTo(q, m) = GetsUpTo(q, n) + 1
      /\ s.op # "get" => GetsUpTo(q, m) = GetsUpTo(q, n)
  <2> DEFINE g == GetsUpTo(q, n)
  <2>1. g \in Nat /\ GetsUpTo(q, m) = g + (IF q[m].op = "get" THEN 1 ELSE 0)
    BY <1>7, GetsCount
  <2>2. s = q[m]
    BY <1>5
  <2> HIDE DEF s, m, g
  <2>3. s.op = "get" => GetsUpTo(q, m) = g + 1
    BY <2>1, <2>2
  <2>4. s.op # "get" => GetsUpTo(q, m) = g
    BY <2>1, <2>2
  <2> QED BY <2>1, <2>3, <2>4 DEF g
<1>9. \A i \in 1 .. n : q[i].op = "get" => GetsUpTo(q, i) \in 1 .. GetsUpTo(q, n)
  BY <1>5, GetsCount
<1>10. /\ \E S : seen'[t] \in Seq(S)
       /\ Len(seen'[t]) = GetsUpTo(q, m)
       /\ \A i \in 1 .. Len(seen[t]) : seen'[t][i] = seen[t][i]
       /\ s.op = "get" => seen'[t][GetsUpTo(q, m)] = Wanted(t, s)
  <2>1. PICK S : seen[t] \in Seq(S)
    BY DEF ReadSoFar
  <2>2. CASE s.op = "get"
    <3> DEFINE w == Wanted(t, s)
               T == S \cup {w}
    <3>1. seen'[t] = Append(seen[t], w)
      BY <2>2
    <3> HIDE DEF w
    <3>2. w \in T /\ seen[t] \in Seq(T)
      BY <2>1
    <3> DEFINE x == seen[t]
               y == Append(x, w)
    <3> HIDE DEF T, x
    <3>3. /\ y \in Seq(T) /\ Len(y) = Len(x) + 1
          /\ \A i \in 1 .. Len(x) : y[i] = x[i]
          /\ y[Len(x) + 1] = w
      BY <3>2, AppendProperties DEF x
    <3>4. /\ seen'[t] \in Seq(T) /\ Len(seen'[t]) = Len(seen[t]) + 1
          /\ \A i \in 1 .. Len(seen[t]) : seen'[t][i] = seen[t][i]
          /\ seen'[t][Len(seen[t]) + 1] = w
      <4> HIDE DEF y
      <4> QED BY <3>1, <3>3 DEF x, y
    <3>5. GetsUpTo(q, m) = Len(seen[t]) + 1
      BY <1>2, <1>8, <2>2
    <3> QED BY <3>4, <3>5 DEF w
  <2>3. CASE s.op # "get"
    <3>1. seen'[t] = seen[t]
      BY <2>3
    <3>2. GetsUpTo(q, m) = Len(seen[t])
      BY <1>2, <1>8, <2>3
    <3>3. \E U : seen'[t] \in Seq(U)
      BY <2>1, <3>1
    <3> QED BY <2>3, <3>1, <3>2, <3>3
  <2> QED BY <2>2, <2>3
<1>11. ASSUME NEW i \in 1 .. m, q[i].op = "get"
       PROVE  seen'[t][GetsUpTo(q, i)] = Wanted(t, q[i])'
  <2>1. i \in 1 .. Len(q) /\ sysfsReg' = sysfsReg
    <3>1. m \in 1 .. Len(q) /\ Len(q) \in Nat
      BY <1>2, <1>5
    <3> HIDE DEF m
    <3>2. i \in 1 .. Len(q)
      BY <3>1
    <3> QED BY <1>11, <3>2
  <2>2. Wanted(t, q[i])' = Wanted(t, q[i])
    BY <2>1 DEF Wanted
  <2>3. CASE i = m
    BY <1>5, <1>10, <1>11, <2>2, <2>3
  <2>4. CASE i # m
    <3>1. i \in 1 .. n
      BY <1>7, <2>4
    <3>2. GetsUpTo(q, i) \in 1 .. Len(seen[t])
      BY <1>2, <1>9, <1>11, <3>1
    <3>3. seen[t][GetsUpTo(q, i)] = Wanted(t, q[i])
      BY <1>4, <1>11, <3>1
    <3>4. seen'[t][GetsUpTo(q, i)] = seen[t][GetsUpTo(q, i)]
      BY <1>10, <3>2
    <3> QED BY <2>2, <3>3, <3>4
  <2> QED BY <2>3, <2>4
<1>12. Asks(req[t])' => SensorsUp(t, m)'
  BY DEF Asks, Drv
<1>13. \E S : seen'[t] \in Seq(S)
  BY <1>10
<1>14. Len(seen'[t]) = GetsUpTo(q, m)
  BY <1>10
<1>15. m = (Len(q) - Len(job[t]))' /\ m \in 0 .. Len(q)
  BY <1>2, <1>5
<1> HIDE DEF m
<1> QED BY <1>2, <1>6, <1>11, <1>12, <1>13, <1>14, <1>15 DEF ReadSoFar

-----------------------------------------------------------------------------
(* The steps, one by one.                                                  *)

(* Where a step of temperature_show stands among its steps.                *)
LEMMA SensorPlace ==
  ASSUME NEW q, SensorList(q), NEW m \in 1 .. 15
  PROVE  \E i \in 1 .. 3 :
           \/ m = i /\ q[m] = SwitchSensor(Colours[i], 3)
           \/ m = 3 * i + 1 /\ q[m] = Rd(Colours[i], "PVT", Skip(2))
           \/ m = 3 * i + 2 /\ q[m] = AskSensor
           \/ m = 3 * i + 3 /\ q[m] = Get(Colours[i], "TEMP", Skip(0))
           \/ m = 12 + i /\ q[m] = SwitchSensor(Colours[i], 0)
<1>1. \E i \in 1 .. 3 : m = i \/ m = 3 * i + 1 \/ m = 3 * i + 2 \/ m = 3 * i + 3 \/ m = 12 + i
  <2>1. CASE m \in 1 .. 3
    BY <2>1
  <2>2. CASE m \in 4 .. 6
    <3>1. 1 \in 1 .. 3 /\ (m = 3 * 1 + 1 \/ m = 3 * 1 + 2 \/ m = 3 * 1 + 3)
      BY <2>2
    <3> QED BY <3>1
  <2>3. CASE m \in 7 .. 9
    <3>1. 2 \in 1 .. 3 /\ (m = 3 * 2 + 1 \/ m = 3 * 2 + 2 \/ m = 3 * 2 + 3)
      BY <2>3
    <3> QED BY <3>1
  <2>4. CASE m \in 10 .. 12
    <3>1. 3 \in 1 .. 3 /\ (m = 3 * 3 + 1 \/ m = 3 * 3 + 2 \/ m = 3 * 3 + 3)
      BY <2>4
    <3> QED BY <3>1
  <2>5. CASE m \in 13 .. 15
    <3>1. m - 12 \in 1 .. 3 /\ m = 12 + (m - 12)
      BY <2>5
    <3> QED BY <3>1
  <2> QED BY <2>1, <2>2, <2>3, <2>4, <2>5
<1>2. PICK i \in 1 .. 3 : m = i \/ m = 3 * i + 1 \/ m = 3 * i + 2 \/ m = 3 * i + 3 \/ m = 12 + i
  BY <1>1
<1>3. /\ q[i] = SwitchSensor(Colours[i], 3)
      /\ q[3 * i + 1] = Rd(Colours[i], "PVT", Skip(2))
      /\ q[3 * i + 2] = AskSensor
      /\ q[3 * i + 3] = Get(Colours[i], "TEMP", Skip(0))
      /\ q[12 + i] = SwitchSensor(Colours[i], 0)
  BY DEF SensorList
<1> QED BY <1>2, <1>3

(* The step that comes next, in a handler of each sort.                    *)
LEMMA SeenHead ==
  ASSUME NoOffsetSet, TInv, NEW t \in Threads, NEW q, q = Steps(req[t]), ReadSoFar(t, q), job[t] # << >>,
         NEW n, n = Len(q) - Len(job[t])
  PROVE  LET s == job[t][1] IN
         /\ n \in Nat /\ n + 1 \in 1 .. Len(q) /\ s = q[n + 1]
         /\ \/ ~ Asks(req[t]) /\ s.op \notin {"get", "ask"} /\ \A i \in 1 .. Len(q) : q[i].op # "get"
            \/ ~ Asks(req[t]) /\ s \in Gets /\ \A i \in 1 .. Len(job[t]) : job[t][i].op = "get"
            \/ Asks(req[t]) /\ SensorList(q) /\ Len(q) = 15 /\ SensorsUp(t, n)
<1> DEFINE s == job[t][1]
<1>1. /\ loc[t] = "run" /\ req[t] \in scen.requests /\ scen \in Scenarios /\ Len(job[t]) \in Nat /\ Len(job[t]) > 0
  BY AtWork
<1>2. Len(q) \in Nat /\ n \in 0 .. Len(q) /\ \A i \in 1 .. Len(job[t]) : job[t][i] = q[n + i]
  BY DEF ReadSoFar
<1>3. n \in Nat /\ n + 1 \in 1 .. Len(q) /\ s = q[n + 1]
  <2>1. 1 \in 1 .. Len(job[t])
    BY <1>1
  <2>2. s = q[n + 1]
    BY <1>2, <2>1
  <2>3. n \in Nat /\ n + 1 \in 1 .. Len(q)
    <3>1. Len(q) \in Nat /\ n \in 0 .. Len(q)
      BY <1>2
    <3> QED BY <1>1, <3>1
  <2> QED BY <2>2, <2>3
<1>4. ASSUME NEW i \in 1 .. Len(job[t])
      PROVE  job[t][i] = q[n + i] /\ n + i \in 1 .. Len(q)
  <2>1. Len(q) \in Nat /\ n \in 0 .. Len(q) /\ job[t][i] = q[n + i]
    BY <1>2
  <2> QED BY <1>1, <2>1
<1>5. \/ Silent(q) /\ ~ Asks(req[t])
      \/ q \in Seq(Gets) /\ ~ Asks(req[t])
      \/ Asks(req[t]) /\ q = Show4040Temperature
  <2>1. Tame(req[t])
    BY <1>1 DEF NoOffsetSet, Tame, Drv
  <2> QED BY <1>1, <2>1, HandlerSorts
<1>6. CASE Silent(q) /\ ~ Asks(req[t])
  <2>1. PICK S : q \in Seq(S) /\ \A x \in S : x.op \notin {"get", "ask"}
    BY <1>6 DEF Silent
  <2>2. \A i \in 1 .. Len(q) : q[i] \in S
    BY <2>1, ElementOfSeq
  <2>3. s.op \notin {"get", "ask"} /\ \A i \in 1 .. Len(q) : q[i].op # "get"
    BY <1>3, <2>1, <2>2
  <2> QED BY <1>3, <1>6, <2>3
<1>7. CASE q \in Seq(Gets) /\ ~ Asks(req[t])
  <2>1. \A i \in 1 .. Len(q) : q[i] \in Gets
    BY <1>7, ElementOfSeq
  <2>2. s \in Gets
    BY <1>3, <2>1
  <2>3. \A x \in Gets : x.op = "get"
    BY DEF Gets
  <2>4. \A i \in 1 .. Len(job[t]) : job[t][i].op = "get"
    BY <1>4, <2>1, <2>3
  <2> QED BY <1>3, <1>7, <2>2, <2>4
<1>8. CASE Asks(req[t]) /\ q = Show4040Temperature
  <2>1. SensorList(q)
    BY <1>8, TemperatureList
  <2>2. Len(q) = 15
    BY <2>1 DEF SensorList
  <2>3. SensorsUp(t, n)
    BY <1>8 DEF ReadSoFar
  <2> QED BY <1>3, <1>8, <2>1, <2>2, <2>3
<1> QED BY <1>5, <1>6, <1>7, <1>8

(* What the next step shows is what is wanted: whoever wants something     *)
(* A register of a file is given by its fields.                            *)
LEMMA FileRegister ==
  ASSUME NEW rs, File(rs), NEW p \in Panel, NEW r \in Regs(Drv)
  PROVE  rs[p][r] = [f \in Fields(Drv, r) |-> rs[p][r][f]]
<1> DEFINE F(x, y) == [f \in Fields(Drv, y) |-> rs[x][y][f]]
<1>1. rs = [x \in Panel |-> [y \in Regs(Drv) |-> F(x, y)]]
  BY DEF File
<1> HIDE DEF F
<1>2. rs[p][r] = F(p, r)
  BY <1>1
<1> QED BY <1>2 DEF F

(* else to be in that register is not at work.                             *)
LEMMA HeadWanted ==
  ASSUME NoOffsetSet, TInv, CInv, GoalInv, faults = 0, NEW t \in Threads, NEW q, q = Steps(req[t]), ReadSoFar(t, q),
         job[t] # << >>, job[t][1].op = "get", NEW p \in Dest(t)
  PROVE  regs[p][RegOf(t)] = Wanted(t, job[t][1])
<1> DEFINE s == job[t][1]
           g == RegOf(t)
<1>1. At(t, Reads \cup {"write"})
  BY AtWork DEF At, Reads
<1>2. /\ loc[t] = "run" /\ req[t] \in scen.requests /\ scen \in Scenarios /\ Head(job[t]) = s
      /\ \A u \in Threads \ {t} : loc[u] # "run"
      /\ g \in Regs(Drv) /\ Dest(t) \in SUBSET Panel
  BY <1>1, AtWork, Transfer
<1>3. \/ ~ Asks(req[t]) /\ s \in Gets /\ \A i \in 1 .. Len(job[t]) : job[t][i].op = "get"
      \/ Asks(req[t]) /\ \E i \in 1 .. 3 : s = Get(Colours[i], "TEMP", Skip(0))
  <2> DEFINE n == Len(q) - Len(job[t])
  <2>1. /\ n + 1 \in 1 .. Len(q) /\ s = q[n + 1]
        /\ \/ ~ Asks(req[t]) /\ s.op \notin {"get", "ask"} /\ \A i \in 1 .. Len(q) : q[i].op # "get"
           \/ ~ Asks(req[t]) /\ s \in Gets /\ \A i \in 1 .. Len(job[t]) : job[t][i].op = "get"
           \/ Asks(req[t]) /\ SensorList(q) /\ Len(q) = 15 /\ SensorsUp(t, n)
    BY SeenHead
  <2> HIDE DEF n
  <2>2. ASSUME Asks(req[t]), SensorList(q), Len(q) = 15
        PROVE  \E i \in 1 .. 3 : s = Get(Colours[i], "TEMP", Skip(0))
    <3>1. PICK i \in 1 .. 3 :
            \/ s = SwitchSensor(Colours[i], 3)
            \/ s = Rd(Colours[i], "PVT", Skip(2))
            \/ s = AskSensor
            \/ s = Get(Colours[i], "TEMP", Skip(0))
            \/ s = SwitchSensor(Colours[i], 0)
      BY <2>1, <2>2, SensorPlace
    <3> QED BY <3>1 DEF SwitchSensor, Wr, Rd, AskSensor
  <2> QED BY <2>1, <2>2
<1>4. s.at \in Panel /\ s.at # "client" /\ (Asks(req[t]) => s.reg = "TEMP")
  BY <1>3, ColourNumbers DEF Gets, Get, Panel
<1>5. p = s.at /\ p \in Panel
  BY <1>2, <1>4 DEF Dest
<1>6. Wanted(t, s) = goal[p][g]
  BY <1>2, <1>5 DEF Wanted, RegOf
<1>7. JobInv(t) /\ File(regs) /\ File(goal) /\ DueInv
  BY DEF CInv, GoalInv, Wanting
<1>8. ASSUME NEW f \in Fields(Drv, g), NEW y
      PROVE  <<p, g, f, y>> \notin Pending(job[t])
  <2>1. CASE Asks(req[t])
    <3>1. g = "TEMP"
      BY <1>2, <1>4, <2>1 DEF RegOf
    <3>2. Effect(req[t]) = {} /\ Pending(job[t]) \subseteq Effect(req[t]) \cup Sensors(req[t])
      BY <1>2, <1>7, <2>1, NoEffect DEF Asks, JobInv
    <3> QED BY <3>1, <3>2 DEF Sensors
  <2>2. CASE ~ Asks(req[t])
    <3>1. \A i \in 1 .. Len(job[t]) : job[t][i].op # "write"
      BY <1>3, <2>2
    <3> QED BY <3>1, NoWrites
  <2> QED BY <2>1, <2>2
<1>9. CopyNames(req[t]) = {}
  <2>1. SUFFICES ASSUME CopyNames(req[t]) # {} PROVE FALSE
    OBVIOUS
  <2>2. Kind(req[t]) = Copying(req[t])
    BY <2>1 DEF CopyNames, Kind
  <2>3. s \in Copying(req[t])
    BY <1>7, <2>2, HeadKind
  <2> QED BY <2>3 DEF Copying
<1>10. ASSUME NEW f \in Fields(Drv, g)
       PROVE  regs[p][g][f] = goal[p][g][f]
  <2> DEFINE y == goal[p][g][f]
  <2>1. <<p, g, f, y>> \notin Pending(job[t]) /\ <<p, g, f>> \notin CopyNames(req[t])
    <3> HIDE DEF g, y
    <3> QED BY <1>8, <1>9
  <2>2. ~ (\E u \in Threads : Due(u, p, g, f))
    <3>1. SUFFICES ASSUME NEW u \in Threads, Due(u, p, g, f) PROVE FALSE
      OBVIOUS
    <3>2. /\ loc[u] = "run"
          /\ \/ <<p, g, f, y>> \in Pending(job[u])
             \/ <<p, g, f>> \in CopyNames(req[u])
      <4> HIDE DEF g
      <4> QED BY <3>1, Zenon DEF Due
    <3>3. u = t
      <4> HIDE DEF g, y
      <4> QED BY <1>2, <3>2
    <3> HIDE DEF g, y
    <3> QED BY <2>1, <3>2, <3>3
  <2>3. f \in Fields(Drv, g) /\ g \in Regs(Drv)
    BY <1>2, <1>10
  <2> HIDE DEF g, y
  <2> QED BY <1>5, <1>7, <2>2, <2>3, Zenon DEF DueInv
<1>11. regs[p][g] = [f \in Fields(Drv, g) |-> regs[p][g][f]] /\ goal[p][g] = [f \in Fields(Drv, g) |-> goal[p][g][f]]
  <2> HIDE DEF g
  <2>1. p \in Panel /\ g \in Regs(Drv) /\ File(regs) /\ File(goal)
    BY <1>2, <1>5, <1>7
  <2> QED BY <2>1, FileRegister
<1>12. regs[p][g] = goal[p][g]
  <2> HIDE DEF g
  <2> QED BY <1>10, <1>11
<1> QED BY <1>6, <1>12

(* The sensors stay as they are when nothing is written.                   *)
LEMMA SensorsStay ==
  ASSUME NEW t, NEW n \in Nat, n >= 3, SensorsUp(t, n), regs' = regs, n + 1 \in {4, 7, 10} => temp'[t]["ctl"] = 3
  PROVE  SensorsUp(t, n + 1)'
<1>1. ASSUME NEW i \in 1 .. 3, n + 1 <= 12
      PROVE  regs'[Colours[i]]["PVT"]["ctl"] = 3
  <2>1. i <= n /\ n <= 12
    BY <1>1
  <2> QED BY <2>1 DEF SensorsUp
<1> QED BY <1>1 DEF SensorsUp

(* Reads.                                                                  *)
LEMMA SeenAfterRead ==
  ASSUME NoOffsetSet, TInv, CInv, GoalInv, faults = 0, NEW t \in Threads, NEW q, q = Steps(req[t]), ReadSoFar(t, q),
         ReadCombined(t) \/ Fetch(t)
  PROVE  ReadSoFar(t, q)'
<1> DEFINE s == job[t][1]
<1>1. At(t, Reads) /\ At(t, Reads \cup {"write"})
  BY DEF ReadCombined, Fetch, At
<1>2. job[t] # << >> /\ Head(job[t]) = s /\ (s.reg # "sysfs" => RegOf(t) = s.reg) /\ s.op \in Reads
  BY <1>1, Transfer DEF At
<1>3. PICK p \in Dest(t) : Arrive(t, regs[p][RegOf(t)])
  <2>1. CASE ReadCombined(t)
    BY <2>1 DEF ReadCombined
  <2>2. CASE Fetch(t)
    <3>1. PICK p \in Dest(t) : Arrive(t, regs[p][ptr[p]]) /\ sent[t]
      BY <2>2 DEF Fetch
    <3>2. ptr[p] = RegOf(t)
      BY <3>1 DEF TInv, HandlersOK, SentOK
    <3> QED BY <3>1, <3>2
  <2> QED BY <2>1, <2>2
<1> DEFINE v == regs[p][RegOf(t)]
<1>4. UNCHANGED <<scen, regs, sysfsReg, req, goal>> /\ Continue(t, 0)
  BY <1>3 DEF Arrive
<1>5. job'[t] = Rest(job[t], 0)
  BY <1>2, <1>4, Continued
<1>6. /\ seen'[t] = IF s.op = "get" THEN Append(seen[t], v) ELSE seen[t]
      /\ s.op = "read" => temp'[t] = v
  <2>1. DOMAIN seen = Threads /\ DOMAIN temp = Threads
    BY DEF TInv, Arrays
  <2> HIDE DEF v
  <2> QED BY <1>2, <1>3, <2>1 DEF Arrive, v
<1>7. seen'[t] = IF s.op = "get" THEN Append(seen[t], Wanted(t, s)) ELSE seen[t]
  <2>1. CASE s.op = "get"
    <3>1. v = Wanted(t, s)
      BY <1>2, <2>1, HeadWanted
    <3> HIDE DEF v, s
    <3> QED BY <1>6, <2>1, <3>1
  <2>2. CASE s.op # "get"
    BY <1>6, <2>2
  <2> QED BY <2>1, <2>2
<1>8. PICK n : n = Len(q) - Len(job[t])
  OBVIOUS
<1>9. ASSUME Asks(req[t])
      PROVE  SensorsUp(t, n + 1)'
  <2>1. n \in Nat /\ n + 1 \in 1 .. 15 /\ s = q[n + 1] /\ SensorList(q) /\ SensorsUp(t, n)
    <3>1. /\ n \in Nat /\ n + 1 \in 1 .. Len(q) /\ s = q[n + 1]
          /\ SensorList(q) /\ Len(q) = 15 /\ SensorsUp(t, n)
      BY <1>2, <1>8, <1>9, SeenHead
    <3> QED BY <3>1
  <2>2. PICK i \in 1 .. 3 :
          \/ n + 1 = i /\ s = SwitchSensor(Colours[i], 3)
          \/ n + 1 = 3 * i + 1 /\ s = Rd(Colours[i], "PVT", Skip(2))
          \/ n + 1 = 3 * i + 2 /\ s = AskSensor
          \/ n + 1 = 3 * i + 3 /\ s = Get(Colours[i], "TEMP", Skip(0))
          \/ n + 1 = 12 + i /\ s = SwitchSensor(Colours[i], 0)
    BY <2>1, SensorPlace
  <2>3. s.op # "ask" /\ s.op # "write"
    BY <1>2 DEF Reads
  <2>4. CASE n + 1 = 3 * i + 1 /\ s = Rd(Colours[i], "PVT", Skip(2))
    <3>1. s.op = "read" /\ s.at = Colours[i] /\ s.reg = "PVT"
      BY <2>4 DEF Rd
    <3>2. Dest(t) = {Colours[i]} /\ RegOf(t) = "PVT"
      BY <1>2, <3>1, ColourNumbers DEF Dest
    <3>3. temp'[t] = regs[Colours[i]]["PVT"]
      BY <1>3, <1>6, <3>1, <3>2
    <3>4. n >= 3 /\ i <= n /\ n <= 12
      BY <2>1, <2>4
    <3>5. temp'[t]["ctl"] = 3
      BY <2>1, <3>3, <3>4 DEF SensorsUp
    <3> QED BY <1>4, <2>1, <3>4, <3>5, SensorsStay
  <2>5. CASE n + 1 = 3 * i + 3
    <3>1. n >= 3 /\ n + 1 \notin {4, 7, 10}
      BY <2>1, <2>5
    <3> QED BY <1>4, <2>1, <3>1, SensorsStay
  <2> HIDE DEF s
  <2> QED BY <2>2, <2>3, <2>4, <2>5 DEF SwitchSensor, Wr, AskSensor
<1> QED BY <1>2, <1>4, <1>5, <1>7, <1>8, <1>9, SeenStep

(* Writes.                                                                 *)
LEMMA SeenAfterWrite ==
  ASSUME NoOffsetSet, TInv, CInv, NEW t \in Threads, NEW q, q = Steps(req[t]), ReadSoFar(t, q), Write(t)
  PROVE  ReadSoFar(t, q)'
<1> DEFINE s == job[t][1]
<1>1. At(t, {"write"}) /\ At(t, Reads \cup {"write"})
  BY DEF Write, At
<1>2. job[t] # << >> /\ Head(job[t]) = s /\ s.op = "write" /\ loc[t] = "run"
  BY <1>1, Transfer, AtWork DEF At
<1>3. UNCHANGED <<scen, sysfsReg, req, goal, seen>> /\ Continue(t, 0)
  BY DEF Write
<1>4. job'[t] = Rest(job[t], 0)
  BY <1>2, <1>3, Continued
<1>5. PICK n : n = Len(q) - Len(job[t])
  OBVIOUS
<1>6. ASSUME Asks(req[t])
      PROVE  SensorsUp(t, n + 1)'
  <2>1. n \in Nat /\ n + 1 \in 1 .. 15 /\ s = q[n + 1] /\ SensorList(q) /\ SensorsUp(t, n)
    <3>1. /\ n \in Nat /\ n + 1 \in 1 .. Len(q) /\ s = q[n + 1]
          /\ SensorList(q) /\ Len(q) = 15 /\ SensorsUp(t, n)
      BY <1>2, <1>5, <1>6, SeenHead
    <3> QED BY <3>1
  <2>2. PICK i \in 1 .. 3 :
          \/ n + 1 = i /\ s = SwitchSensor(Colours[i], 3)
          \/ n + 1 = 3 * i + 1 /\ s = Rd(Colours[i], "PVT", Skip(2))
          \/ n + 1 = 3 * i + 2 /\ s = AskSensor
          \/ n + 1 = 3 * i + 3 /\ s = Get(Colours[i], "TEMP", Skip(0))
          \/ n + 1 = 12 + i /\ s = SwitchSensor(Colours[i], 0)
    BY <2>1, SensorPlace
  <2>3. CASE n + 1 = i /\ s = SwitchSensor(Colours[i], 3)
    <3>1. Written(s) = {<<Colours[i], "PVT", "ctl", 3>>}
      <4>1. Written(s) = On(Colours[i], "PVT", [ctl |-> 3])
        BY <2>3, WrittenOn, ColourNumbers DEF SwitchSensor
      <4> QED BY <4>1 DEF On
    <3>2. /\ \A e \in Written(s) : regs'[e[1]][e[2]][e[3]] = e[4]
          /\ \A p \in Panel : \A g \in Regs(Drv) : \A f \in Fields(Drv, g) :
               \/ regs'[p][g][f] = regs[p][g][f]
               \/ <<p, g, f, regs'[p][g][f]>> \in Written(s)
               \/ <<p, g, f>> \in CopyNames(req[t])
               \/ SetsFps(t)
      <4>1. JobInv(t)
        BY DEF CInv
      <4> HIDE DEF s
      <4> QED BY <4>1, WriteResult DEF s
    <3>3. "PVT" \in Regs(Drv) /\ "ctl" \in Fields(Drv, "PVT") /\ ~ SetsFps(t) /\ CopyNames(req[t]) = {}
      BY <1>6, RegisterNames, Widths4040 DEF Asks, SetsFps, CopyNames
    <3>4. ASSUME NEW j \in 1 .. 3, j <= i
          PROVE  regs'[Colours[j]]["PVT"]["ctl"] = 3
      <4> DEFINE x == regs'[Colours[j]]["PVT"]["ctl"]
      <4>1. Colours[j] \in Panel
        BY ColourNumbers
      <4>2. CASE j = i
        <5>1. <<Colours[i], "PVT", "ctl", 3>> \in Written(s)
          BY <3>1
        <5> DEFINE e == <<Colours[i], "PVT", "ctl", 3>>
        <5>2. e[1] = Colours[i] /\ e[2] = "PVT" /\ e[3] = "ctl" /\ e[4] = 3
          OBVIOUS
        <5> HIDE DEF e
        <5>3. regs'[e[1]][e[2]][e[3]] = e[4]
          BY <3>2, <5>1 DEF e
        <5> QED BY <4>2, <5>2, <5>3
      <4>3. CASE j # i
        <5>1. j <= n /\ n <= 12
          BY <2>1, <2>3, <3>4, <4>3
        <5>2. regs[Colours[j]]["PVT"]["ctl"] = 3
          BY <2>1, <5>1 DEF SensorsUp
        <5>3. x = regs[Colours[j]]["PVT"]["ctl"] \/ <<Colours[j], "PVT", "ctl", x>> \in Written(s)
          BY <3>2, <3>3, <4>1
        <5>4. <<Colours[j], "PVT", "ctl", x>> \in Written(s) => x = 3
          <6> HIDE DEF x
          <6> QED BY <3>1
        <5> QED BY <5>2, <5>3, <5>4
      <4> QED BY <4>2, <4>3
    <3>5. \A j \in 1 .. 3 : j <= n + 1 => j <= i
      BY <2>3
    <3>6. n + 1 \notin {4, 7, 10}
      BY <2>3
    <3> QED BY <3>4, <3>5, <3>6 DEF SensorsUp
  <2>4. CASE n + 1 = 12 + i
    <3>1. ~ (n + 1 <= 12) /\ n + 1 \notin {4, 7, 10}
      BY <2>4
    <3> QED BY <3>1 DEF SensorsUp
  <2> HIDE DEF s
  <2> QED BY <1>2, <2>2, <2>3, <2>4 DEF Rd, Get, AskSensor
<1> QED BY <1>2, <1>3, <1>4, <1>5, <1>6, SeenStep

(* The handler's own steps.                                                *)
LEMMA SeenAfterOwn ==
  ASSUME NoOffsetSet, TInv, GoalInv, faults = 0, NEW t \in Threads, NEW q, q = Steps(req[t]), ReadSoFar(t, q),
         ChangeAddr(t) \/ RestoreAddr(t) \/ SelectReg(t) \/ AskIfOn(t)
  PROVE  ReadSoFar(t, q)'
<1> DEFINE s == job[t][1]
<1>1. job[t] # << >> /\ Head(job[t]).op \in {"take", "give", "select", "ask"}
  BY DEF ChangeAddr, RestoreAddr, SelectReg, AskIfOn, At
<1>2. Head(job[t]) = s
  BY <1>1, AtWork
<1>3. UNCHANGED <<scen, regs, req, goal, seen, temp>>
  BY DEF ChangeAddr, RestoreAddr, SelectReg, AskIfOn, hw
<1>4. PICK n : n = Len(q) - Len(job[t])
  OBVIOUS
<1>5. /\ n \in Nat /\ n + 1 \in 1 .. Len(q) /\ s = q[n + 1]
      /\ \/ ~ Asks(req[t]) /\ s.op \notin {"get", "ask"} /\ \A i \in 1 .. Len(q) : q[i].op # "get"
         \/ ~ Asks(req[t]) /\ s \in Gets /\ \A i \in 1 .. Len(job[t]) : job[t][i].op = "get"
         \/ Asks(req[t]) /\ SensorList(q) /\ Len(q) = 15 /\ SensorsUp(t, n)
  BY <1>1, <1>4, SeenHead
<1>6. CASE ~ Asks(req[t])
  <2>1. s.op \notin {"get", "ask"} /\ \A i \in 1 .. Len(q) : q[i].op # "get"
    BY <1>1, <1>2, <1>5, <1>6 DEF Gets
  <2>2. Continue(t, 0)
    <3>1. CASE RestoreAddr(t)
      <4>1. ok[t]
        BY DEF GoalInv
      <4> QED BY <3>1, <4>1 DEF RestoreAddr
    <3>2. CASE ChangeAddr(t) \/ SelectReg(t)
      BY <3>2 DEF ChangeAddr, SelectReg
    <3>3. ~ AskIfOn(t)
      BY <1>2, <2>1 DEF AskIfOn, At
    <3> QED BY <3>1, <3>2, <3>3
  <2>3. job'[t] = Rest(job[t], 0)
    BY <1>1, <1>3, <2>2, Continued
  <2> QED BY <1>1, <1>3, <1>4, <1>6, <2>1, <2>3, SeenStep
<1>7. CASE Asks(req[t])
  <2>1. n \in Nat /\ n + 1 \in 1 .. 15 /\ s = q[n + 1] /\ SensorList(q) /\ SensorsUp(t, n)
    BY <1>5, <1>7
  <2>2. PICK i \in 1 .. 3 :
          \/ n + 1 = i /\ s = SwitchSensor(Colours[i], 3)
          \/ n + 1 = 3 * i + 1 /\ s = Rd(Colours[i], "PVT", Skip(2))
          \/ n + 1 = 3 * i + 2 /\ s = AskSensor
          \/ n + 1 = 3 * i + 3 /\ s = Get(Colours[i], "TEMP", Skip(0))
          \/ n + 1 = 12 + i /\ s = SwitchSensor(Colours[i], 0)
    BY <2>1, SensorPlace
  <2>3. n + 1 = 3 * i + 2 /\ s.op = "ask"
    <3> HIDE DEF s
    <3> QED BY <1>1, <1>2, <2>2 DEF SwitchSensor, Wr, Rd, Get, AskSensor
  <2>4. AskIfOn(t)
    BY <1>2, <2>3 DEF ChangeAddr, RestoreAddr, SelectReg, At
  <2>5. n \in {4, 7, 10}
    BY <2>1, <2>3
  <2>6. temp[t]["ctl"] = 3
    BY <2>1, <2>5 DEF SensorsUp
  <2>7. Continue(t, 0) /\ sysfsReg' = sysfsReg
    BY <2>4, <2>6 DEF AskIfOn, hw
  <2>8. job'[t] = Rest(job[t], 0)
    BY <1>1, <1>3, <2>7, Continued
  <2>9. SensorsUp(t, n + 1)'
    <3>1. n >= 3 /\ n + 1 \notin {4, 7, 10}
      BY <2>1, <2>5
    <3> QED BY <1>3, <2>1, <3>1, SensorsStay
  <2> QED BY <1>1, <1>3, <1>4, <2>3, <2>7, <2>8, <2>9, SeenStep
<1> QED BY <1>6, <1>7

(* A handler whose variables others leave alone.                           *)
LEMMA SeenAside ==
  ASSUME NEW u \in Threads, NEW q, ReadSoFar(u, q), UNCHANGED <<scen, regs, sysfsReg, goal>>,
         req'[u] = req[u], job'[u] = job[u], seen'[u] = seen[u], temp'[u] = temp[u]
  PROVE  ReadSoFar(u, q)'
<1>1. Asks(req[u])' = Asks(req[u])
  BY DEF Asks, Drv
<1>2. ASSUME NEW i PROVE Wanted(u, q[i])' = Wanted(u, q[i])
  BY DEF Wanted
<1>3. ASSUME NEW n PROVE SensorsUp(u, n)' <=> SensorsUp(u, n)
  BY DEF SensorsUp
<1> QED BY <1>1, <1>2, <1>3 DEF ReadSoFar

(* A step of a handler concerns no other one.                              *)
LEMMA SeenFrame ==
  ASSUME TInv, SeenInv, NEW t \in Threads, job[t] # << >>, UNCHANGED <<scen, loc, req>>,
         \A u \in Threads \ {t} : seen'[u] = seen[u],
         NEW q, q = Steps(req[t]), faults' = 0 => ReadSoFar(t, q)'
  PROVE  SeenInv'
<1>1. loc[t] = "run" /\ \A u \in Threads \ {t} : loc[u] # "run"
  BY AtWork
<1>2. Steps(req[t])' = q
  BY SameSteps
<1>3. ASSUME faults' = 0
      PROVE  ReadSoFar(t, Steps(req[t]))'
  BY <1>2, <1>3 DEF ReadSoFar
<1> QED BY <1>1, <1>3 DEF SeenInv

(* A handler that starts has seen nothing.                                 *)
LEMMA SeenAtStart ==
  ASSUME NoOffsetSet, TInv, SeenInv, NEW t \in Threads, StartAttribute(t) \/ Lock(t)
  PROVE  SeenInv'
<1>1. PICK r \in scen.requests : req'[t] = r /\ job'[t] = Steps(r) /\ Begin(t, r)
  BY StartEffect
<1>2. UNCHANGED <<scen, seen>> /\ \A u \in Threads \ {t} : loc[u] # "run" /\ loc'[u] # "run"
  BY StartEffect DEF StartAttribute, Lock
<1>3. loc[t] # "run" /\ loc'[t] = "run"
  <2>1. loc \in [Threads -> {"idle", "wait", "run"}]
    BY DEF TInv, Arrays
  <2> QED BY <1>1, <2>1 DEF StartAttribute, Lock, Begin
<1>4. seen'[t] = << >>
  BY <1>2, <1>3 DEF SeenInv
<1> DEFINE q == Steps(r)
<1>5. Len(q) \in Nat
  <2>1. scen \in Scenarios /\ sysfsReg \in Regs(Drv) /\ Tame(r)
    BY DEF TInv, Arrays, NoOffsetSet, Tame, Drv
  <2>2. q \in Seq(Kind(r))
    BY <2>1, HandlerUnit
  <2> HIDE DEF q
  <2> QED BY <2>2, LenProperties
<1>6. Steps(req[t])' = q
  <2>1. Steps(r)' = Steps(r)
    BY <1>2, SameSteps
  <2> QED BY <1>1, <2>1
<1>7. ReadSoFar(t, Steps(req[t]))'
  <2> HIDE DEF q
  <2>1. Len(q) - Len(q) = 0 /\ 0 \in 0 .. Len(q) /\ job'[t] = q
    BY <1>1, <1>5 DEF q
  <2>2. GetsUpTo(q, 0) = 0 /\ Len(seen'[t]) = 0 /\ \E S : seen'[t] \in Seq(S)
    <3>1. 0 \in Nat
      OBVIOUS
    <3>2. << >> \in Seq({})
      OBVIOUS
    <3> QED BY <1>4, <3>1, <3>2, GetsCount
  <2>3. SensorsUp(t, 0)'
    BY DEF SensorsUp
  <2>4. \A i \in 1 .. Len(q) : job'[t][i] = q[0 + i]
    BY <2>1
  <2> QED BY <1>5, <1>6, <2>1, <2>2, <2>3, <2>4 DEF ReadSoFar
<1> QED BY <1>2, <1>3, <1>7 DEF SeenInv

(* Every step.                                                             *)
LEMMA NextSeen ==
  NoOffsetSet /\ TInv /\ CInv /\ GoalInv /\ SeenInv /\ [Next]_vars => SeenInv'
<1> SUFFICES ASSUME NoOffsetSet, TInv, CInv, GoalInv, SeenInv, [Next]_vars PROVE SeenInv'
  OBVIOUS
<1>1. CASE UNCHANGED vars
  <2>1. ASSUME NEW u \in Threads, loc'[u] = "run", faults' = 0
        PROVE  ReadSoFar(u, Steps(req[u]))'
    <3>1. UNCHANGED <<scen, regs, sysfsReg, goal, loc, req, job, seen, temp, faults>>
      BY <1>1 DEF vars, hw
    <3>2. PICK q : q = Steps(req[u])
      OBVIOUS
    <3>3. Steps(req[u])' = q
      BY <3>1, <3>2, SameSteps
    <3>4. ReadSoFar(u, q)
      BY <2>1, <3>1, <3>2 DEF SeenInv
    <3>5. ReadSoFar(u, q)'
      BY <3>1, <3>4, SeenAside
    <3> QED BY <3>3, <3>5 DEF ReadSoFar
  <2> QED BY <1>1, <2>1 DEF SeenInv, vars
<1>2. CASE Next
  <2>1. PICK t \in Threads : StartAttribute(t) \/ StartIoctl(t) \/ Lock(t) \/ Proceed(t)
    BY <1>2 DEF Next
  <2>2. /\ loc \in [Threads -> {"idle", "wait", "run"}] /\ DOMAIN req = Threads /\ DOMAIN temp = Threads
        /\ DOMAIN seen = Threads /\ DOMAIN job = Threads /\ faults \in Nat
    BY ScenariosAssumption DEF TInv, Arrays
  <2>3. CASE StartAttribute(t) \/ Lock(t)
    BY <2>3, SeenAtStart
  <2>4. CASE StartIoctl(t) \/ Return(t)
    <3>1. UNCHANGED <<scen, regs, sysfsReg, goal, job, faults>> /\ loc'[t] # "run"
      BY <2>2, <2>4 DEF StartIoctl, Return, hw
    <3>2. ASSUME NEW u \in Threads \ {t}
          PROVE  loc'[u] = loc[u] /\ req'[u] = req[u] /\ seen'[u] = seen[u] /\ temp'[u] = temp[u]
      BY <2>2, <2>4 DEF StartIoctl, Return
    <3>3. seen'[t] = << >>
      BY <2>2, <2>4 DEF StartIoctl, Return, SeenInv
    <3>4. ASSUME NEW u \in Threads \ {t}, loc'[u] = "run", faults' = 0
          PROVE  ReadSoFar(u, Steps(req[u]))'
      <4>1. PICK q : q = Steps(req[u])
        OBVIOUS
      <4>2. Steps(req[u])' = q
        BY <3>1, <3>2, <4>1, SameSteps
      <4>3. ReadSoFar(u, q)
        BY <3>1, <3>2, <3>4, <4>1 DEF SeenInv
      <4>4. ReadSoFar(u, q)'
        BY <3>1, <3>2, <4>3, SeenAside
      <4> QED BY <4>2, <4>4 DEF ReadSoFar
    <3> QED BY <3>1, <3>2, <3>3, <3>4 DEF SeenInv
  <2>5. CASE Fails(t)
    <3>1. job[t] # << >> /\ UNCHANGED <<scen, loc, req, seen>> /\ faults' # 0
      BY <2>2, <2>5 DEF Fails, At
    <3>2. PICK q : q = Steps(req[t])
      OBVIOUS
    <3> QED BY <3>1, <3>2, SeenFrame
  <2>6. CASE SendAddress(t) \/ ReadCombined(t) \/ Fetch(t) \/ Write(t)
             \/ ChangeAddr(t) \/ RestoreAddr(t) \/ SelectReg(t) \/ AskIfOn(t)
    <3>1. job[t] # << >> /\ UNCHANGED <<scen, loc, req, faults>> /\ \A u \in Threads \ {t} : seen'[u] = seen[u]
      <4>1. CASE SendAddress(t)
        BY <4>1 DEF SendAddress, At
      <4>2. CASE ReadCombined(t) \/ Fetch(t)
        <5>1. PICK v : Arrive(t, v)
          BY <4>2 DEF ReadCombined, Fetch
        <5>2. job[t] # << >>
          BY <4>2 DEF ReadCombined, Fetch, At
        <5>3. UNCHANGED <<scen, loc, req, faults>> /\ \A u \in Threads \ {t} : seen'[u] = seen[u]
          BY <2>2, <5>1 DEF Arrive
        <5> QED BY <5>2, <5>3
      <4>3. CASE Write(t)
        BY <4>3 DEF Write, At
      <4>4. CASE ChangeAddr(t) \/ RestoreAddr(t)
        BY <4>4 DEF ChangeAddr, RestoreAddr, At
      <4>5. CASE SelectReg(t) \/ AskIfOn(t)
        BY <4>5 DEF SelectReg, AskIfOn, At
      <4> QED BY <2>6, <4>1, <4>2, <4>3, <4>4, <4>5
    <3>2. PICK q : q = Steps(req[t])
      OBVIOUS
    <3>3. ASSUME faults = 0
          PROVE  ReadSoFar(t, q)'
      <4>1. ReadSoFar(t, q)
        BY <3>1, <3>2, <3>3, AtWork DEF SeenInv
      <4>2. CASE SendAddress(t)
        BY <4>1, <4>2, SeenAside DEF SendAddress
      <4>3. CASE ReadCombined(t) \/ Fetch(t)
        BY <3>2, <3>3, <4>1, <4>3, SeenAfterRead
      <4>4. CASE Write(t)
        BY <3>2, <4>1, <4>4, SeenAfterWrite
      <4>5. CASE ChangeAddr(t) \/ RestoreAddr(t) \/ SelectReg(t) \/ AskIfOn(t)
        BY <3>2, <3>3, <4>1, <4>5, SeenAfterOwn
      <4> QED BY <2>6, <4>2, <4>3, <4>4, <4>5
    <3> QED BY <3>1, <3>2, <3>3, SeenFrame
  <2> QED BY <2>1, <2>3, <2>4, <2>5, <2>6 DEF Proceed
<1> QED BY <1>1, <1>2

(* GetsReadOneMoment: as long as no transfer has failed, a command or      *)
(* attribute that reads several panels returns what they held at one       *)
(* moment, one register for each step that shows one, in their order.      *)
THEOREM GetsReadOneMomentCorrect ==
  ASSUME NoOffsetSet, RawElsewhere PROVE Spec => []GetsReadOneMoment
<1>1. Init => TInv /\ CInv /\ ScanInv /\ GoalInv /\ SeenInv
  <2>1. Init => CInv
    BY DEF Init, CInv, JobInv, DoneInv
  <2>2. Init => SeenInv
    BY DEF Init, SeenInv
  <2> QED BY <2>1, <2>2, InitTInv, InitScan, InitGoal
<1>2. TInv /\ CInv /\ ScanInv /\ GoalInv /\ SeenInv /\ [Next]_vars
      => TInv' /\ CInv' /\ ScanInv' /\ GoalInv' /\ SeenInv'
  BY NextKeeps, NextEffect, NextScan, NextGoal, NextSeen
<1>3. SeenInv => GetsReadOneMoment
  <2> SUFFICES ASSUME SeenInv, NEW t \in Threads, AtEnd(t), faults = 0
               PROVE  LET q == Steps(req[t]) IN
                      /\ Len(seen[t]) = GetsUpTo(q, Len(q))
                      /\ \A i \in 1 .. Len(q) : q[i].op = "get" => seen[t][GetsUpTo(q, i)] = Wanted(t, q[i])
    BY DEF GetsReadOneMoment
  <2>1. PICK q : q = Steps(req[t])
    OBVIOUS
  <2>2. ReadSoFar(t, q) /\ Len(job[t]) = 0
    BY <2>1 DEF SeenInv, AtEnd
  <2>3. Len(q) \in Nat /\ Len(q) - Len(job[t]) = Len(q)
    BY <2>2 DEF ReadSoFar
  <2> QED BY <2>1, <2>2, <2>3 DEF ReadSoFar
<1> QED BY <1>1, <1>2, <1>3, PTL DEF Spec
=============================================================================
