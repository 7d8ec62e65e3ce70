----------------------- MODULE DriverLifecycleProofs -----------------------
(***************************************************************************)
(* Proofs about probe, remove and the character devices, for any number of *)
(* threads, of failing steps and of bindings.                              *)
(***************************************************************************)
EXTENDS DriverLifecycle, TLAPS

-----------------------------------------------------------------------------
(* What the two sequences of a driver contain.                             *)

(* What a driver may have, and what its remove releases without asking.    *)
Gets(d) ==
  {"priv", "region", "cdev", "class", "node", "files"}
  \cup (CASE d = "i2c40" -> Line \cup {"dyn"}
          [] d = "i2c20" -> {"dyn"}
          [] OTHER       -> {"avdd", "avee", "reset", "adapter", "host"})
Certain(d) == IF d = "panel" THEN {"cdev", "region", "host"}
              ELSE {"class", "cdev", "region"}

(* The step of probe after which handlers find what they use.              *)
Ready(d) == CASE d = "i2c40" -> 20 [] d = "i2c20" -> 1 [] OTHER -> 2

(* Acquisitions, with the device node after the clients or the context.    *)
LEMMA ProbeSequence ==
  ASSUME NEW d \in Driver
  PROVE  LET q == ProbeSteps(d) IN
         /\ d = "i2c40" => Len(q) = 27
         /\ d = "i2c20" => Len(q) = 8
         /\ d = "panel" => Len(q) = 12
         /\ \A i \in 1 .. Len(q) :
              /\ q[i].op \in {"get", "set", "init", "clients", "context", "mutex"}
              /\ q[i].op = "get" => q[i].x \in Gets(d)
              /\ q[i].op = "set" => q[i].x \in Line /\ q[i].v \in {0, 1} /\ d = "i2c40"
              /\ q[i].op = "get" /\ q[i].x = "node" => i > Ready(d)
         /\ d = "panel" => q[1] = Get("priv")
         /\ q[Ready(d)].op \in {"clients", "context"}
<1> USE DEF Get, Set, Do, Gets, Line, Ready
<1>1. CASE d = "i2c40"
  BY <1>1 DEF ProbeSteps, PowerUp, PowerOn, I2cRegister, CharDev
<1>2. CASE d = "i2c20"
  BY <1>2 DEF ProbeSteps, I2cRegister, CharDev
<1>3. CASE d = "panel"
  BY <1>3 DEF ProbeSteps, PanelProbe, CharDev
<1> QED BY <1>1, <1>2, <1>3 DEF Driver

(* What remove will release without asking has been acquired by the end of *)
(* probe, and what an error path releases, before the step that fails.     *)
LEMMA ProbeAcquires ==
  ASSUME NEW d \in Driver
  PROVE  LET q == ProbeSteps(d) IN
         /\ \A x \in Certain(d) : \E i \in 1 .. Len(q) : q[i].op = "get" /\ q[i].x = x
         /\ d # "panel" =>
              \A i \in 1 .. Len(q) : q[i].op = "get" =>
                \A x \in OnFail(q[i].x) :
                  x \in Certain(d) /\ \E j \in 1 .. i - 1 : q[j].op = "get" /\ q[j].x = x
<1> DEFINE q == ProbeSteps(d)
<1> USE DEF Get, Set, Do
<1>1. CASE d = "panel"
  <2>1. Len(q) = 12 /\ q[6] = Get("adapter") /\ q[7] = Get("host") /\ q[8] = Get("region") /\ q[9] = Get("cdev")
    BY <1>1 DEF ProbeSteps, PanelProbe, CharDev
  <2>2. 6 \in 1 .. 12 /\ 7 \in 1 .. 12 /\ 8 \in 1 .. 12 /\ 9 \in 1 .. 12
    OBVIOUS
  <2> QED BY <1>1, <2>1, <2>2 DEF Certain
<1>2. CASE d # "panel"
  <2>1. \E k \in {2, 21} :
          /\ k + 2 <= Len(q) /\ Len(q) \in Nat
          /\ q[k] = Get("region") /\ q[k + 1] = Get("cdev") /\ q[k + 2] = Get("class")
          /\ \A i \in 1 .. Len(q) : q[i].op = "get" =>
               /\ q[i].x = "cdev" => i = k + 1
               /\ q[i].x = "class" => i = k + 2
               /\ q[i].x # "host"
    <3>1. CASE d = "i2c40"
      <4>1. /\ Len(q) = 27
            /\ q[21] = Get("region") /\ q[22] = Get("cdev") /\ q[23] = Get("class")
            /\ \A i \in 1 .. Len(q) : q[i].op = "get" =>
                 /\ q[i].x = "cdev" => i = 22
                 /\ q[i].x = "class" => i = 23
                 /\ q[i].x # "host"
        BY <3>1 DEF ProbeSteps, PowerUp, PowerOn, I2cRegister, CharDev
      <4> QED BY <4>1
    <3>2. CASE d = "i2c20"
      <4>1. /\ Len(q) = 8
            /\ q[2] = Get("region") /\ q[3] = Get("cdev") /\ q[4] = Get("class")
            /\ \A i \in 1 .. Len(q) : q[i].op = "get" =>
                 /\ q[i].x = "cdev" => i = 3
                 /\ q[i].x = "class" => i = 4
                 /\ q[i].x # "host"
        BY <3>2 DEF ProbeSteps, I2cRegister, CharDev
      <4> QED BY <4>1
    <3> QED BY <1>2, <3>1, <3>2 DEF Driver
  <2>2. PICK k \in {2, 21} :
          /\ k + 2 <= Len(q) /\ Len(q) \in Nat
          /\ q[k] = Get("region") /\ q[k + 1] = Get("cdev") /\ q[k + 2] = Get("class")
          /\ \A i \in 1 .. Len(q) : q[i].op = "get" =>
               /\ q[i].x = "cdev" => i = k + 1
               /\ q[i].x = "class" => i = k + 2
               /\ q[i].x # "host"
    BY <2>1
  <2>3. \A x \in Certain(d) : \E i \in 1 .. Len(q) : q[i].op = "get" /\ q[i].x = x
    <3>1. k \in 1 .. Len(q) /\ k + 1 \in 1 .. Len(q) /\ k + 2 \in 1 .. Len(q)
      BY <2>2
    <3> QED BY <1>2, <2>2, <3>1 DEF Certain
  <2>4. ASSUME NEW i \in 1 .. Len(q), q[i].op = "get", NEW x \in OnFail(q[i].x)
        PROVE  x \in Certain(d) /\ \E j \in 1 .. i - 1 : q[j].op = "get" /\ q[j].x = x
    <3>1. CASE q[i].x = "cdev"
      <4>1. x = "region" /\ k \in 1 .. i - 1
        BY <2>2, <2>4, <3>1 DEF OnFail
      <4> QED BY <1>2, <2>2, <4>1 DEF Certain
    <3>2. CASE q[i].x = "class"
      <4>1. x \in {"region", "cdev"} /\ k \in 1 .. i - 1 /\ k + 1 \in 1 .. i - 1
        BY <2>2, <2>4, <3>2 DEF OnFail
      <4> QED BY <1>2, <2>2, <4>1 DEF Certain
    <3>3. q[i].x # "host"
      BY <2>2, <2>4
    <3> QED BY <2>4, <3>1, <3>2, <3>3 DEF OnFail
  <2> QED BY <2>3, <2>4
<1> QED BY <1>1, <1>2

(* Releases, each of them once.                                            *)
LEMMA RemoveSequence ==
  ASSUME NEW d \in Driver
  PROVE  LET q == RemoveSteps(d) IN
         /\ d = "i2c40" => Len(q) = 10
         /\ d = "i2c20" => Len(q) = 5
         /\ d = "panel" => Len(q) = 8
         /\ \A i \in 1 .. Len(q) :
              /\ q[i].op \in {"set", "put", "putif", "nocontext"}
              /\ q[i].op = "set" => q[i].x \in Line /\ q[i].v = 0 /\ d = "i2c40"
              /\ q[i].op = "put" => q[i].x \in Certain(d)
              /\ q[i].op = "nocontext" => d = "panel" /\ i > 2
         /\ \A i, j \in 1 .. Len(q) :
              {q[i].op, q[j].op} \subseteq {"put", "putif"} /\ q[i].x = q[j].x => i = j
         /\ d = "panel" => q[2] = PutIf("node")
<1> DEFINE q == RemoveSteps(d)
<1>1. CASE d = "i2c40"
  <2>1. /\ Len(q) = 10 /\ q[1] = Set("avee", 0) /\ q[2] = Set("vddi", 0) /\ q[3] = Set("avdd", 0)
        /\ q[4] = Set("dvdd", 0) /\ q[5] = PutIf("files") /\ q[6] = PutIf("dyn") /\ q[7] = PutIf("node")
        /\ q[8] = Put("class") /\ q[9] = Put("cdev") /\ q[10] = Put("region")
    BY <1>1 DEF RemoveSteps, Remove40, PowerOff, CharDevGone
  <2>2. 1 .. Len(q) = {1, 2, 3, 4, 5, 6, 7, 8, 9, 10}
    BY <2>1
  <2>3. \A i, j \in 1 .. Len(q) :
          {q[i].op, q[j].op} \subseteq {"put", "putif"} /\ q[i].x = q[j].x => i = j
    BY <2>1, <2>2 DEF Put, PutIf, Set, Do
  <2>4. ASSUME NEW i \in 1 .. Len(q)
        PROVE  /\ q[i].op \in {"set", "put", "putif", "nocontext"}
               /\ q[i].op = "set" => q[i].x \in Line /\ q[i].v = 0 /\ d = "i2c40"
               /\ q[i].op = "put" => q[i].x \in Certain(d)
               /\ q[i].op = "nocontext" => d = "panel" /\ i > 2
    <3>1. CASE i \in {1, 2, 3, 4}
      BY <1>1, <2>1, <3>1 DEF Set, Line
    <3>2. CASE i \in {5, 6, 7}
      BY <1>1, <2>1, <3>2 DEF PutIf
    <3>3. CASE i \in {8, 9, 10}
      BY <1>1, <2>1, <3>3 DEF Put, Certain
    <3> QED BY <2>2, <3>1, <3>2, <3>3
  <2> QED BY <1>1, <2>1, <2>3, <2>4
<1>2. CASE d = "i2c20"
  <2>1. /\ Len(q) = 5 /\ q[1] = PutIf("files") /\ q[2] = PutIf("node") /\ q[3] = Put("class")
        /\ q[4] = Put("cdev") /\ q[5] = Put("region")
    BY <1>2 DEF RemoveSteps, Remove20, CharDevGone
  <2>2. 1 .. Len(q) = {1, 2, 3, 4, 5}
    BY <2>1
  <2>3. \A i, j \in 1 .. Len(q) :
          {q[i].op, q[j].op} \subseteq {"put", "putif"} /\ q[i].x = q[j].x => i = j
    BY <2>1, <2>2 DEF Put, PutIf, Set, Do
  <2>4. ASSUME NEW i \in 1 .. Len(q)
        PROVE  /\ q[i].op \in {"set", "put", "putif", "nocontext"}
               /\ q[i].op = "set" => q[i].x \in Line /\ q[i].v = 0 /\ d = "i2c40"
               /\ q[i].op = "put" => q[i].x \in Certain(d)
               /\ q[i].op = "nocontext" => d = "panel" /\ i > 2
    <3>1. CASE i \in {1, 2}
      BY <1>2, <2>1, <3>1 DEF PutIf
    <3>2. CASE i \in {3, 4, 5}
      BY <1>2, <2>1, <3>2 DEF Put, Certain
    <3> QED BY <2>2, <3>1, <3>2
  <2> QED BY <1>2, <2>1, <2>3, <2>4
<1>3. CASE d = "panel"
  <2>1. /\ Len(q) = 8 /\ q[1] = PutIf("files") /\ q[2] = PutIf("node") /\ q[3] = PutIf("class")
        /\ q[4] = Put("cdev") /\ q[5] = Put("region") /\ q[6] = Put("host") /\ q[7] = PutIf("adapter")
        /\ q[8] = Do("nocontext")
    BY <1>3 DEF RemoveSteps, PanelRemove
  <2>2. 1 .. Len(q) = {1, 2, 3, 4, 5, 6, 7, 8}
    BY <2>1
  <2>3. \A i, j \in 1 .. Len(q) :
          {q[i].op, q[j].op} \subseteq {"put", "putif"} /\ q[i].x = q[j].x => i = j
    BY <2>1, <2>2 DEF Put, PutIf, Set, Do
  <2>4. ASSUME NEW i \in 1 .. Len(q)
        PROVE  /\ q[i].op \in {"set", "put", "putif", "nocontext"}
               /\ q[i].op = "set" => q[i].x \in Line /\ q[i].v = 0 /\ d = "i2c40"
               /\ q[i].op = "put" => q[i].x \in Certain(d)
               /\ q[i].op = "nocontext" => d = "panel" /\ i > 2
    <3>1. CASE i \in {1, 2, 3, 7}
      BY <1>3, <2>1, <3>1 DEF PutIf
    <3>2. CASE i \in {4, 5, 6}
      BY <1>3, <2>1, <3>2 DEF Put, Certain
    <3>3. CASE i \in {8}
      BY <1>3, <2>1, <3>3 DEF Do
    <3> QED BY <2>2, <3>1, <3>2, <3>3
  <2> QED BY <1>3, <2>1, <2>3, <2>4
<1> QED BY <1>1, <1>2, <1>3 DEF Driver

(* remove releases everything but what devm takes and the dynamic files of *)
(* i2c-jbd4020.                                                            *)
LEMMA RemoveReleases ==
  ASSUME NEW d \in Driver, NEW x \in Gets(d) \ Devm, ~(d = "i2c20" /\ x = "dyn")
  PROVE  \E i \in 1 .. Len(RemoveSteps(d)) :
           RemoveSteps(d)[i].op \in {"put", "putif"} /\ RemoveSteps(d)[i].x = x
<1> DEFINE q == RemoveSteps(d)
<1> USE DEF Put, PutIf, Set, Do, Gets, Devm, Line
<1>0. 1 .. 10 = {1, 2, 3, 4, 5, 6, 7, 8, 9, 10} /\ 1 .. 8 = {1, 2, 3, 4, 5, 6, 7, 8} /\ 1 .. 5 = {1, 2, 3, 4, 5}
  OBVIOUS
<1>1. CASE d = "i2c40"
  <2>1. /\ Len(q) = 10 /\ q[5] = PutIf("files") /\ q[6] = PutIf("dyn") /\ q[7] = PutIf("node")
        /\ q[8] = Put("class") /\ q[9] = Put("cdev") /\ q[10] = Put("region")
    BY <1>1 DEF RemoveSteps, Remove40, PowerOff, CharDevGone
  <2>2. x \in {"files", "dyn", "node", "class", "cdev", "region"}
    BY <1>1
  <2> QED BY <1>0, <2>1, <2>2
<1>2. CASE d = "i2c20"
  <2>1. /\ Len(q) = 5 /\ q[1] = PutIf("files") /\ q[2] = PutIf("node")
        /\ q[3] = Put("class") /\ q[4] = Put("cdev") /\ q[5] = Put("region")
    BY <1>2 DEF RemoveSteps, Remove20, CharDevGone
  <2>2. x \in {"files", "node", "class", "cdev", "region"}
    BY <1>2
  <2> QED BY <1>0, <2>1, <2>2
<1>3. CASE d = "panel"
  <2>1. /\ Len(q) = 8 /\ q[1] = PutIf("files") /\ q[2] = PutIf("node") /\ q[3] = PutIf("class")
        /\ q[4] = Put("cdev") /\ q[5] = Put("region") /\ q[6] = Put("host") /\ q[7] = PutIf("adapter")
    BY <1>3 DEF RemoveSteps, PanelRemove
  <2>2. x \in {"files", "node", "class", "cdev", "region", "host", "adapter"}
    BY <1>3
  <2> QED BY <1>0, <2>1, <2>2
<1> QED BY <1>1, <1>2, <1>3 DEF Driver

(* What i2c-jbd4040 does to its lines: all low, the supplies up with RESET *)
(* last, and AVEE once the rest is there; in remove AVEE first.            *)
LEMMA LineSequence ==
  LET q == ProbeSteps("i2c40") IN
  /\ q[12] = Set("dvdd", 1) /\ q[13] = Set("vddi", 1) /\ q[14] = Set("avdd", 1)
  /\ q[17] = Set("reset", 0) /\ q[19] = Set("avee", 1)
  /\ RemoveSteps("i2c40")[1] = Set("avee", 0)
<1>1. RemoveSteps("i2c40")[1] = Set("avee", 0)
  BY DEF RemoveSteps, Remove40, PowerOff, CharDevGone
<1> QED BY <1>1 DEF Get, Set, Do, ProbeSteps, PowerUp, PowerOn, I2cRegister, CharDev

(* The last step of i2c-jbd4040's probe that changes each line, and AVEE   *)
(* low before its own.                                                     *)
LEMMA LineLast ==
  ASSUME NEW i \in 1 .. 27, ProbeSteps("i2c40")[i].op \in {"get", "set"}
  PROVE  LET s == ProbeSteps("i2c40")[i] IN
         /\ s.x = "avee" /\ i # 19 => s.op = "get" \/ s.v = 0
         /\ s.x \in Line => i < 20
         /\ s.x = "dvdd" => i <= 12
         /\ s.x = "vddi" => i <= 13
         /\ s.x = "avdd" => i <= 14
         /\ s.x = "reset" => i <= 17
<1> DEFINE q == ProbeSteps("i2c40")
<1>1. /\ q[1] = Get("priv") /\ q[2] = Get("dvdd") /\ q[3] = Get("vddi") /\ q[4] = Get("avdd")
      /\ q[5] = Get("reset") /\ q[6] = Get("avee")
      /\ q[7] = Set("dvdd", 0) /\ q[8] = Set("vddi", 0) /\ q[9] = Set("avdd", 0)
      /\ q[10] = Set("avee", 0) /\ q[11] = Set("reset", 1)
      /\ q[12] = Set("dvdd", 1) /\ q[13] = Set("vddi", 1) /\ q[14] = Set("avdd", 1)
  BY DEF ProbeSteps, PowerUp, PowerOn, I2cRegister, CharDev
<1>2. /\ q[15] = Set("reset", 0) /\ q[16] = Set("reset", 1) /\ q[17] = Set("reset", 0)
      /\ q[18] = Do("init") /\ q[19] = Set("avee", 1) /\ q[20] = Do("clients")
      /\ q[21] = Get("region") /\ q[22] = Get("cdev") /\ q[23] = Get("class")
      /\ q[24] = Get("node") /\ q[25] = Get("files") /\ q[26] = Do("mutex") /\ q[27] = Get("dyn")
  BY DEF ProbeSteps, PowerUp, PowerOn, I2cRegister, CharDev
<1>3. CASE i < 15
  <2>1. i \in 1 .. 14
    BY <1>3
  <2> QED BY <1>1, <2>1 DEF Get, Set, Line
<1>4. CASE i >= 15
  <2>1. i \in 15 .. 27
    BY <1>4
  <2> QED BY <1>2, <2>1 DEF Get, Set, Do, Line
<1> QED BY <1>3, <1>4

-----------------------------------------------------------------------------
(* The inductive invariant, one part per promise.                          *)

(* The clients or the context are there from their step of probe on, and   *)
(* the panel driver's remove takes the device node before the context.     *)
ServesInv ==
  /\ "node" \in has => ptr = "live"
  /\ pc = "probe" /\ at > Ready(driver) => ptr = "live"
  /\ pc = "remove" /\ driver = "panel" /\ at > 2 => "node" \notin has

(* How far i2c-jbd4040 has come with its lines.                            *)
LinesInv ==
  /\ driver = "i2c40" =>
       /\ (pc = "unbound" \/ (pc = "probe" /\ at <= 19)) /\ level["avee"] = 1 => "avee" \in lost
       /\ pc = "probe" =>
            /\ at > 12 => level["dvdd"] = 1
            /\ at > 13 => level["vddi"] = 1
            /\ at > 14 => level["avdd"] = 1
            /\ at > 17 => level["reset"] = 0
       /\ pc = "bound" \/ (pc = "remove" /\ at = 1) =>
            level["dvdd"] = 1 /\ level["vddi"] = 1 /\ level["avdd"] = 1 /\ level["reset"] = 0
       /\ pc = "remove" /\ at > 1 => level["avee"] = 0
  /\ driver = "i2c20" => level["avee"] = 0

(* What a binding has lies in what its driver asks for; remove does not    *)
(* keep what it has released.                                              *)
HasInv ==
  /\ has \subseteq Gets(driver)
  /\ pc = "unbound" => has = {}
  /\ pc = "remove" => \A j \in 1 .. Len(RemoveSteps(driver)) :
       j < at /\ RemoveSteps(driver)[j].op \in {"put", "putif"} => RemoveSteps(driver)[j].x \notin has

(* Where probe gives up on failures, what remove releases without asking   *)
(* is there: the part of it that probe has come to, and in remove the part *)
(* that is still to be released.                                           *)
PutInv ==
  (driver = "panel" => failures = 0) =>
    /\ ~ twice
    /\ pc = "probe" => \A j \in 1 .. Len(ProbeSteps(driver)) :
         /\ j < at /\ ProbeSteps(driver)[j].op = "get"
         /\ ProbeSteps(driver)[j].x \in Certain(driver)
         => ProbeSteps(driver)[j].x \in has
    /\ pc = "bound" => Certain(driver) \subseteq has
    /\ pc = "remove" => \A j \in 1 .. Len(RemoveSteps(driver)) :
         j >= at /\ RemoveSteps(driver)[j].op = "put" => RemoveSteps(driver)[j].x \in has

(* Where a thread may be.                                                  *)
UserStates == {"closed", "open", "checked", "asleep", "locked", "stranded"}

IInv == LifeTypeOK /\ ServesInv /\ LinesInv /\ HasInv /\ PutInv /\ CleanRemove

-----------------------------------------------------------------------------
(* The initial states and the steps.                                       *)

LEMMA Lengths ==
  ASSUME NEW d \in Driver
  PROVE  Len(ProbeSteps(d)) \in {8, 12, 27} /\ Len(RemoveSteps(d)) \in {5, 8, 10}
BY ProbeSequence, RemoveSequence DEF Driver

LEMMA GetsAreThings ==
  ASSUME NEW d \in Driver
  PROVE  Gets(d) \subseteq Thing
<1>1. CASE d = "i2c40"
  BY <1>1 DEF Gets, Thing, Devm, Line
<1>2. CASE d = "i2c20"
  BY <1>2 DEF Gets, Thing, Devm, Line
<1>3. CASE d = "panel"
  BY <1>3 DEF Gets, Thing, Devm, Line
<1> QED BY <1>1, <1>2, <1>3 DEF Driver

LEMMA InitHolds ==
  ASSUME Init
  PROVE  IInv
<1>1. LifeTypeOK
  <2>1. Len(Steps) \in {5, 8, 10}
    BY Lengths DEF Init, Steps
  <2>2. at \in 1 .. (Len(Steps) + 1)
    BY <2>1 DEF Init
  <2>3. failures \in 0 .. MaxFailures
    BY LifeAssumption DEF Init
  <2>4. level \in [Line -> {0, 1}] /\ user \in [Threads -> UserStates]
    BY DEF Init, UserStates
  <2> QED BY <2>2, <2>3, <2>4 DEF Init, LifeTypeOK, UserStates
<1>2. ServesInv /\ HasInv
  BY DEF Init, ServesInv, HasInv
<1>3. LinesInv
  BY DEF Init, LinesInv, Line
<1>4. PutInv /\ CleanRemove
  BY DEF Init, PutInv, CleanRemove
<1> QED BY <1>1, <1>2, <1>3, <1>4 DEF IInv

(* The state a step of probe finds.                                        *)
LEMMA InProbe ==
  ASSUME IInv, pc = "probe"
  PROVE  /\ driver \in Driver /\ Steps = ProbeSteps(driver)
         /\ at \in 1 .. Len(ProbeSteps(driver)) + 1
         /\ driver = "i2c40" => Len(ProbeSteps(driver)) = 27
         /\ driver = "i2c20" => Len(ProbeSteps(driver)) = 8
         /\ driver = "panel" => Len(ProbeSteps(driver)) = 12
         /\ Len(ProbeSteps(driver)) \in Nat
<1>1. driver \in Driver /\ Steps = ProbeSteps(driver) /\ at \in 1 .. Len(Steps) + 1
  BY DEF IInv, LifeTypeOK, Steps
<1>2. Len(ProbeSteps(driver)) \in Nat
  BY <1>1, Lengths
<1> QED BY <1>1, <1>2, ProbeSequence

(* Something is acquired.                                                  *)
LEMMA GetHolds ==
  ASSUME IInv, GetStep
  PROVE  IInv'
<1> DEFINE q == ProbeSteps(driver)
           x == q[at].x
<1>1. /\ pc = "probe" /\ at \in 1 .. Len(q) /\ q[at].op = "get" /\ driver \in Driver /\ Len(q) \in Nat
      /\ Steps = q
  BY InProbe DEF GetStep
<1>2. /\ UNCHANGED <<driver, pc, lost, ptr, twice, failures, user, holder>>
      /\ at' = at + 1 /\ (has' = has \cup {x} \/ (x = "adapter" /\ has' = has))
      /\ level' = IF x \in Line THEN [level EXCEPT ![x] = 0] ELSE level
  BY <1>1 DEF GetStep, users
<1>3. x \in Gets(driver) /\ (x = "node" => at > Ready(driver))
  BY <1>1, ProbeSequence
<1>4. LifeTypeOK'
  <2>1. x \in Thing
    BY <1>1, <1>3, GetsAreThings
  <2>2. Steps' = q
    BY <1>1, <1>2 DEF Steps
  <2>3. at' \in 1 .. (Len(Steps') + 1)
    BY <1>1, <1>2, <2>2
  <2>4. level' \in [Line -> {0, 1}]
    BY <1>2 DEF IInv, LifeTypeOK
  <2> QED BY <1>1, <1>2, <2>1, <2>3, <2>4 DEF IInv, LifeTypeOK
<1>5. ServesInv'
  <2>1. q[Ready(driver)].op # "get"
    BY <1>1, ProbeSequence
  <2>2. at # Ready(driver)
    BY <1>1, <2>1
  <2>3. Ready(driver) \in Nat
    BY DEF Ready
  <2>4. at + 1 > Ready(driver) => ptr = "live"
    BY <1>1, <2>2, <2>3 DEF IInv, ServesInv
  <2> QED BY <1>1, <1>2, <1>3, <2>4 DEF IInv, ServesInv
<1>6. LinesInv'
  <2>1. CASE driver = "i2c40"
    <3>1. at \in 1 .. 27 /\ at \notin {12, 13, 14, 17, 19}
      <4>1. at \in 1 .. 27
        BY <1>1, <2>1, InProbe
      <4>2. \A i \in {12, 13, 14, 17, 19} : ProbeSteps("i2c40")[i].op = "set"
        BY LineSequence DEF Set
      <4> QED BY <1>1, <2>1, <4>1, <4>2
    <3>2. /\ x \in Line => at < 20
          /\ x = "dvdd" => at <= 12
          /\ x = "vddi" => at <= 13
          /\ x = "avdd" => at <= 14
          /\ x = "reset" => at <= 17
      <4> DEFINE y == ProbeSteps("i2c40")[at]
      <4>1. y.op = "get" /\ x = y.x
        BY <1>1, <2>1
      <4>2. /\ y.x \in Line => at < 20
            /\ y.x = "dvdd" => at <= 12
            /\ y.x = "vddi" => at <= 13
            /\ y.x = "avdd" => at <= 14
            /\ y.x = "reset" => at <= 17
        BY <3>1, <4>1, LineLast
      <4> QED BY <4>1, <4>2
    <3>3. level \in [Line -> {0, 1}]
      BY DEF IInv, LifeTypeOK
    <3>4. \A l \in Line : level'[l] = IF l = x THEN 0 ELSE level[l]
      BY <1>2, <3>3
    <3> QED BY <1>1, <1>2, <2>1, <3>1, <3>2, <3>4 DEF IInv, LinesInv, Line
  <2>2. CASE driver # "i2c40"
    BY <1>2, <2>2 DEF IInv, LinesInv, LifeTypeOK, Line
  <2> QED BY <2>1, <2>2
<1>7. HasInv'
  BY <1>1, <1>2, <1>3 DEF IInv, HasInv
<1>8. PutInv'
  <2>1. x \in Certain(driver) => has' = has \cup {x}
    BY <1>2 DEF Certain
  <2>2. has \subseteq has'
    BY <1>2
  <2> QED BY <1>1, <1>2, <2>1, <2>2 DEF IInv, PutInv
<1>9. CleanRemove'
  BY <1>2 DEF IInv, CleanRemove
<1> QED BY <1>4, <1>5, <1>6, <1>7, <1>8, <1>9 DEF IInv

(* probe fails to acquire something.                                       *)
LEMMA FailHolds ==
  ASSUME IInv, FailStep
  PROVE  IInv'
<1> DEFINE q == ProbeSteps(driver)
           x == q[at].x
           ends == /\ Ends(x) \/ (x = "dyn" /\ failures < MaxFailures)
                   /\ Unbind(has \ OnFail(x))
                   /\ ptr' = IF driver = "panel" /\ ptr = "live" THEN "freed" ELSE ptr
           goes == /\ ~ Ends(x)
                   /\ has' = has \ OnFail(x)
                   /\ at' = GoesTo(x)
                   /\ UNCHANGED <<pc, lost, ptr>>
<1>1. /\ pc = "probe" /\ at \in 1 .. Len(q) /\ q[at].op = "get" /\ driver \in Driver /\ Len(q) \in Nat
      /\ Steps = q
  BY InProbe DEF FailStep
<1>2. /\ UNCHANGED <<driver, level, user, holder>>
      /\ failures < MaxFailures \/ x \in lost \cap {"class", "dyn"}
      /\ failures' = IF failures < MaxFailures THEN failures + 1 ELSE failures
      /\ twice' = (twice \/ ~ OnFail(x) \subseteq has)
  BY <1>1 DEF FailStep, users
<1>3. ends \/ goes
  BY <1>1 DEF FailStep
<1>4. x \in Gets(driver)
  BY <1>1, ProbeSequence
<1>5. failures \in 0 .. MaxFailures /\ failures' \in 0 .. MaxFailures /\ MaxFailures \in Nat
  BY <1>2, LifeAssumption DEF IInv, LifeTypeOK
<1>6. twice \in BOOLEAN /\ twice' \in BOOLEAN
  BY <1>2 DEF IInv, LifeTypeOK
(* The one failure that is not counted: a class or files left behind.      *)
<1>7. failures' = 0 => /\ failures = 0 /\ ~ failures < MaxFailures
                       /\ driver = "i2c20" /\ x = "dyn" /\ ~ Ends(x)
  <2> SUFFICES ASSUME failures' = 0
               PROVE  /\ failures = 0 /\ ~ failures < MaxFailures
                      /\ driver = "i2c20" /\ x = "dyn" /\ ~ Ends(x)
    OBVIOUS
  <2>1. failures = 0 /\ ~ failures < MaxFailures
    BY <1>2, <1>5
  <2>2. x \in lost \cap {"class", "dyn"}
    BY <1>2, <2>1
  <2>3. driver = "i2c20" /\ x = "dyn"
    BY <1>1, <2>1, <2>2 DEF IInv, CleanRemove, Driver
  <2> QED BY <2>1, <2>3 DEF Ends, Devm, Line
(* Without the panel, what an error path releases is there.                *)
<1>8. (driver = "panel" => failures' = 0) => driver # "panel" /\ ~ twice'
  <2> SUFFICES ASSUME driver = "panel" => failures' = 0
               PROVE  driver # "panel" /\ ~ twice'
    OBVIOUS
  <2>1. driver # "panel"
    BY <1>7
  <2>2. OnFail(x) \subseteq has
    <3> SUFFICES ASSUME NEW y \in OnFail(x)
                 PROVE  y \in has
      OBVIOUS
    <3>1. y \in Certain(driver) /\ \E j \in 1 .. at - 1 : q[j].op = "get" /\ q[j].x = y
      BY <1>1, <2>1, ProbeAcquires
    <3> QED BY <1>1, <2>1, <3>1 DEF IInv, PutInv
  <2>3. ~ twice
    BY <2>1 DEF IInv, PutInv
  <2> QED BY <1>2, <2>1, <2>2, <2>3
<1>9. CASE ends
  <2>1. /\ pc' = "unbound" /\ at' = 1 /\ has' = {}
        /\ lost' = lost \cup ((has \ OnFail(x)) \ Devm) \cup (IF level["avee"] = 1 THEN {"avee"} ELSE {})
        /\ ptr' = IF driver = "panel" /\ ptr = "live" THEN "freed" ELSE ptr
    BY <1>9 DEF Unbind
  <2>2. LifeTypeOK'
    <3>1. Len(Steps') \in Nat
      BY <1>1, <1>2, <2>1, Lengths DEF Steps
    <3>2. "avee" \in Thing
      BY DEF Thing, Devm, Line
    <3> QED BY <1>1, <1>2, <1>5, <1>6, <2>1, <3>1, <3>2 DEF IInv, LifeTypeOK
  <2>3. ServesInv' /\ HasInv'
    BY <2>1 DEF ServesInv, HasInv
  <2>4. LinesInv'
    BY <1>2, <2>1 DEF IInv, LinesInv
  <2>5. PutInv'
    BY <1>2, <1>8, <2>1 DEF PutInv
  <2>6. failures' # 0
    BY <1>7, <1>9
  <2>7. CleanRemove'
    BY <2>6 DEF CleanRemove
  <2> QED BY <2>2, <2>3, <2>4, <2>5, <2>7 DEF IInv
<1>10. CASE goes
  <2>1. /\ UNCHANGED <<pc, lost, ptr>> /\ has' = has \ OnFail(x)
        /\ driver = "panel" => at >= 8 /\ at' \in {at + 1, 12}
        /\ driver # "panel" => at' = at + 1 /\ OnFail(x) = {} /\ x \notin Line
    <3>1. CASE driver = "panel"
      <4>1. at >= 8
        <5>1. Len(q) = 12 /\ q[1] = Get("priv") /\ q[2] = Do("context") /\ q[3] = Get("avdd") /\ q[4] = Get("avee")
              /\ q[5] = Get("reset") /\ q[6] = Get("adapter") /\ q[7] = Get("host")
          BY <3>1 DEF ProbeSteps, PanelProbe, CharDev
        <5>2. at \notin {1, 2, 3, 4, 5, 6, 7}
          BY <1>1, <1>10, <3>1, <5>1 DEF Ends, Devm, Line, Get, Do
        <5> QED BY <1>1, <5>1, <5>2
      <4> QED BY <1>1, <1>10, <3>1, <4>1, ProbeSequence DEF GoesTo
    <3>2. CASE driver # "panel"
      <4>1. x \in {"node", "files", "dyn"}
        BY <1>1, <1>4, <1>10, <3>2 DEF Gets, Ends, Devm, Driver
      <4> QED BY <1>10, <3>2, <4>1 DEF GoesTo, OnFail, Line
    <3> QED BY <1>10, <3>1, <3>2
  <2>2. /\ driver = "panel" => Len(q) = 12
        /\ at' \in 1 .. Len(q) + 1
    BY <1>1, <2>1, ProbeSequence
  <2>3. LifeTypeOK'
    <3>1. Steps' = q
      BY <1>1, <1>2, <2>1 DEF Steps
    <3> QED BY <1>1, <1>2, <1>5, <1>6, <2>1, <2>2, <3>1 DEF IInv, LifeTypeOK
  <2>4. ServesInv'
    <3>1. q[Ready(driver)].op # "get"
      BY <1>1, ProbeSequence
    <3>2. at # Ready(driver) /\ Ready(driver) \in Nat /\ (driver = "panel" => Ready(driver) = 2)
      BY <1>1, <3>1 DEF Ready
    <3>3. at' > Ready(driver) => ptr = "live"
      BY <1>1, <2>1, <3>2 DEF IInv, ServesInv
    <3> QED BY <1>1, <1>2, <2>1, <3>3 DEF IInv, ServesInv
  <2>5. LinesInv'
    <3>1. CASE driver = "i2c40"
      <4>1. at \in 1 .. 27
        BY <1>1, <3>1, InProbe
      <4>2. \A i \in {12, 13, 14, 17, 19} : ProbeSteps("i2c40")[i].op = "set"
        BY LineSequence DEF Set
      <4>3. at \notin {12, 13, 14, 17, 19}
        BY <1>1, <3>1, <4>2
      <4> QED BY <1>1, <1>2, <2>1, <3>1, <4>1, <4>3 DEF IInv, LinesInv
    <3>2. CASE driver # "i2c40"
      BY <1>2, <3>2 DEF IInv, LinesInv
    <3> QED BY <3>1, <3>2
  <2>6. HasInv'
    BY <1>1, <1>2, <2>1 DEF IInv, HasInv
  <2>7. PutInv'
    <3> SUFFICES ASSUME driver = "panel" => failures' = 0
                 PROVE  /\ ~ twice'
                        /\ \A j \in 1 .. Len(q) :
                             j < at' /\ q[j].op = "get" /\ q[j].x \in Certain(driver) => q[j].x \in has'
      BY <1>1, <1>2, <2>1 DEF PutInv
    <3>1. driver # "panel" /\ ~ twice'
      BY <1>8
    <3>2. x \notin Certain(driver)
      BY <1>10, <3>1 DEF Ends, Certain
    <3> QED BY <1>1, <2>1, <3>1, <3>2 DEF IInv, PutInv
  <2>8. CleanRemove'
    BY <1>2, <1>7, <2>1 DEF IInv, CleanRemove
  <2> QED BY <2>3, <2>4, <2>5, <2>6, <2>7, <2>8 DEF IInv
<1> QED BY <1>3, <1>9, <1>10

(* A step of probe that acquires nothing.                                  *)
LEMMA ProbeStepHolds ==
  ASSUME IInv, OtherStep, pc = "probe"
  PROVE  IInv'
<1> DEFINE q == ProbeSteps(driver)
           s == q[at]
<1>1. /\ at \in 1 .. Len(q) /\ s.op # "get" /\ driver \in Driver /\ Len(q) \in Nat /\ Steps = q
  BY InProbe DEF OtherStep
<1>2. /\ s.op \in {"get", "set", "init", "clients", "context", "mutex"}
      /\ s.op = "set" => s.x \in Line /\ s.v \in {0, 1} /\ driver = "i2c40"
  BY <1>1, ProbeSequence
<1>3. /\ UNCHANGED <<driver, pc, lost, failures, has>> /\ at' = at + 1
      /\ level' = IF s.op = "set" THEN [level EXCEPT ![s.x] = s.v] ELSE level
      /\ ptr' = IF s.op \in {"clients", "context"} THEN "live" ELSE ptr
      /\ MutexInit \/ UNCHANGED users
  <2>1. /\ UNCHANGED <<driver, pc, lost, failures>> /\ at' = at + 1
        /\ level' = IF s.op = "set" THEN [level EXCEPT ![s.x] = s.v] ELSE level
        /\ has' = IF s.op \in {"put", "putif"} THEN has \ {s.x} ELSE has
        /\ MutexInit \/ UNCHANGED users
    BY <1>1 DEF OtherStep
  <2>2. ptr' = CASE s.op \in {"clients", "context"} -> "live"
                 [] s.op = "nocontext" -> "null"
                 [] OTHER -> ptr
    BY <1>1 DEF OtherStep
  <2> QED BY <1>2, <2>1, <2>2
<1>4. twice' = twice
  BY <1>1, <1>2 DEF OtherStep, IInv, LifeTypeOK
<1>5. LifeTypeOK'
  <2>1. Steps' = q
    BY <1>1, <1>3 DEF Steps
  <2>2. level' \in [Line -> {0, 1}]
    BY <1>2, <1>3 DEF IInv, LifeTypeOK
  <2>3. user' \in [Threads -> UserStates] /\ holder' \in Threads \cup {NoThread}
    BY <1>3 DEF IInv, LifeTypeOK, UserStates, MutexInit, users
  <2> QED BY <1>1, <1>3, <1>4, <2>1, <2>2, <2>3 DEF IInv, LifeTypeOK, UserStates
<1>6. ServesInv'
  <2>1. Ready(driver) \in Nat /\ q[Ready(driver)].op \in {"clients", "context"}
    BY <1>1, ProbeSequence DEF Ready
  <2> QED BY <1>1, <1>3, <2>1 DEF IInv, ServesInv
<1>7. LinesInv'
  <2>1. CASE driver = "i2c40"
    <3> DEFINE y == ProbeSteps("i2c40")[at]
    <3>1. at \in 1 .. 27 /\ s = y
      BY <1>1, <2>1, InProbe
    <3>2. y.op = "set" =>
            /\ y.x = "avee" /\ at # 19 => y.v = 0
            /\ at < 20
            /\ y.x = "dvdd" => at <= 12
            /\ y.x = "vddi" => at <= 13
            /\ y.x = "avdd" => at <= 14
            /\ y.x = "reset" => at <= 17
      BY <1>2, <3>1, LineLast
    <3>3. /\ at = 12 => y.op = "set" /\ y.x = "dvdd" /\ y.v = 1
          /\ at = 13 => y.op = "set" /\ y.x = "vddi" /\ y.v = 1
          /\ at = 14 => y.op = "set" /\ y.x = "avdd" /\ y.v = 1
          /\ at = 17 => y.op = "set" /\ y.x = "reset" /\ y.v = 0
      BY LineSequence DEF Set
    <3>4. \A l \in Line : level'[l] = IF y.op = "set" /\ l = y.x THEN y.v ELSE level[l]
      BY <1>3, <3>1 DEF IInv, LifeTypeOK
    <3>5. /\ level'["avee"] = IF y.op = "set" /\ "avee" = y.x THEN y.v ELSE level["avee"]
          /\ level'["dvdd"] = IF y.op = "set" /\ "dvdd" = y.x THEN y.v ELSE level["dvdd"]
          /\ level'["vddi"] = IF y.op = "set" /\ "vddi" = y.x THEN y.v ELSE level["vddi"]
          /\ level'["avdd"] = IF y.op = "set" /\ "avdd" = y.x THEN y.v ELSE level["avdd"]
          /\ level'["reset"] = IF y.op = "set" /\ "reset" = y.x THEN y.v ELSE level["reset"]
      BY <3>4 DEF Line
    <3>6. /\ at + 1 > 12 => level'["dvdd"] = 1
          /\ at + 1 > 13 => level'["vddi"] = 1
          /\ at + 1 > 14 => level'["avdd"] = 1
          /\ at + 1 > 17 => level'["reset"] = 0
      BY <2>1, <3>1, <3>2, <3>3, <3>5 DEF IInv, LinesInv
    <3>7. at + 1 <= 19 /\ level'["avee"] = 1 => "avee" \in lost
      BY <2>1, <3>1, <3>2, <3>5 DEF IInv, LinesInv
    <3> QED BY <1>3, <2>1, <3>6, <3>7 DEF LinesInv
  <2>2. CASE driver # "i2c40"
    BY <1>2, <1>3, <2>2 DEF IInv, LinesInv
  <2> QED BY <2>1, <2>2
<1>8. HasInv'
  BY <1>3 DEF IInv, HasInv
<1>9. PutInv'
  BY <1>1, <1>3, <1>4 DEF IInv, PutInv
<1>10. CleanRemove'
  BY <1>3 DEF IInv, CleanRemove
<1> QED BY <1>5, <1>6, <1>7, <1>8, <1>9, <1>10 DEF IInv

(* The state a step of remove finds.                                       *)
LEMMA InRemove ==
  ASSUME IInv, pc = "remove"
  PROVE  /\ driver \in Driver /\ Steps = RemoveSteps(driver)
         /\ at \in 1 .. Len(RemoveSteps(driver)) + 1
         /\ Len(RemoveSteps(driver)) \in {5, 8, 10}
<1>1. driver \in Driver /\ Steps = RemoveSteps(driver) /\ at \in 1 .. Len(Steps) + 1
  BY DEF IInv, LifeTypeOK, Steps
<1> QED BY <1>1, Lengths

(* A step of remove.                                                       *)
LEMMA RemoveStepHolds ==
  ASSUME IInv, OtherStep, pc = "remove"
  PROVE  IInv'
<1> DEFINE q == RemoveSteps(driver)
           s == q[at]
<1>1. /\ at \in 1 .. Len(q) /\ driver \in Driver /\ Len(q) \in Nat /\ Steps = q
  BY InRemove DEF OtherStep
<1>2. /\ s.op \in {"set", "put", "putif", "nocontext"}
      /\ s.op = "set" => s.x \in Line /\ s.v = 0 /\ driver = "i2c40"
      /\ s.op = "put" => s.x \in Certain(driver)
      /\ s.op = "nocontext" => driver = "panel" /\ at > 2
  BY <1>1, RemoveSequence
<1>3. /\ UNCHANGED <<driver, pc, lost, failures, user, holder>> /\ at' = at + 1
      /\ level' = IF s.op = "set" THEN [level EXCEPT ![s.x] = s.v] ELSE level
      /\ has' = IF s.op \in {"put", "putif"} THEN has \ {s.x} ELSE has
      /\ twice' = (twice \/ (s.op = "put" /\ s.x \notin has))
      /\ ptr' = IF s.op = "nocontext" THEN "null" ELSE ptr
  <2>1. /\ UNCHANGED <<driver, pc, lost, failures>> /\ at' = at + 1
        /\ level' = IF s.op = "set" THEN [level EXCEPT ![s.x] = s.v] ELSE level
        /\ has' = IF s.op \in {"put", "putif"} THEN has \ {s.x} ELSE has
        /\ twice' = (twice \/ (s.op = "put" /\ s.x \notin has))
        /\ s.op # "mutex" => UNCHANGED <<user, holder>>
    BY <1>1 DEF OtherStep, users
  <2>2. ptr' = CASE s.op \in {"clients", "context"} -> "live"
                 [] s.op = "nocontext" -> "null"
                 [] OTHER -> ptr
    BY <1>1 DEF OtherStep
  <2> QED BY <1>2, <2>1, <2>2
<1>4. LifeTypeOK'
  <2>1. Steps' = q
    BY <1>1, <1>3 DEF Steps
  <2>2. level' \in [Line -> {0, 1}]
    BY <1>2, <1>3 DEF IInv, LifeTypeOK
  <2>3. has' \in SUBSET Thing /\ twice' \in BOOLEAN /\ ptr' \in {"null", "live", "freed"}
    BY <1>3 DEF IInv, LifeTypeOK
  <2> QED BY <1>1, <1>3, <2>1, <2>2, <2>3 DEF IInv, LifeTypeOK
<1>5. ServesInv'
  <2>1. CASE driver = "panel"
    <3>1. q[2].op = "putif" /\ q[2].x = "node"
      BY <2>1, RemoveSequence DEF PutIf, Driver
    <3>2. at + 1 > 2 => "node" \notin has'
      BY <1>1, <1>3, <2>1, <3>1 DEF IInv, ServesInv
    <3> QED BY <1>1, <1>2, <1>3, <2>1, <3>2 DEF IInv, ServesInv
  <2>2. CASE driver # "panel"
    BY <1>2, <1>3, <2>2 DEF IInv, ServesInv
  <2> QED BY <2>1, <2>2
<1>6. LinesInv'
  <2>1. CASE driver = "i2c40"
    <3>1. at = 1 => level'["avee"] = 0
      BY <1>3, <2>1, LineSequence DEF Set, IInv, LifeTypeOK, Line
    <3>2. level["avee"] = 0 => level'["avee"] = 0
      BY <1>2, <1>3 DEF IInv, LifeTypeOK, Line
    <3> QED BY <1>1, <1>3, <2>1, <3>1, <3>2 DEF IInv, LinesInv
  <2>2. CASE driver # "i2c40"
    BY <1>2, <1>3, <2>2 DEF IInv, LinesInv
  <2> QED BY <2>1, <2>2
<1>7. HasInv'
  BY <1>1, <1>3 DEF IInv, HasInv
<1>8. PutInv'
  <2> SUFFICES ASSUME driver = "panel" => failures = 0
               PROVE  /\ ~ twice'
                      /\ \A j \in 1 .. Len(q) : j >= at + 1 /\ q[j].op = "put" => q[j].x \in has'
    BY <1>1, <1>3 DEF PutInv
  <2>1. \A j \in 1 .. Len(q) : j >= at /\ q[j].op = "put" => q[j].x \in has
    BY DEF IInv, PutInv
  <2>2. ~ twice'
    <3>1. ~ twice
      BY DEF IInv, PutInv
    <3>2. s.op = "put" => s.x \in has
      BY <1>1, <2>1
    <3> QED BY <1>3, <3>1, <3>2
  <2>3. ASSUME NEW j \in 1 .. Len(q), j >= at + 1, q[j].op = "put"
        PROVE  q[j].x \in has'
    <3>1. q[j].x \in has /\ j # at
      BY <1>1, <2>1, <2>3
    <3>2. s.op \in {"put", "putif"} => q[j].x # s.x
      BY <1>1, <2>3, <3>1, RemoveSequence
    <3> QED BY <1>3, <3>1, <3>2
  <2> QED BY <2>2, <2>3
<1>9. CleanRemove'
  BY <1>3 DEF IInv, CleanRemove
<1> QED BY <1>4, <1>5, <1>6, <1>7, <1>8, <1>9 DEF IInv

(* remove is over: only AVEE, and the dynamic files, can be left.          *)
LEMMA RemoveReturnsHolds ==
  ASSUME IInv, RemoveReturns
  PROVE  IInv'
<1> DEFINE q == RemoveSteps(driver)
<1>1. /\ pc = "remove" /\ at = Len(q) + 1 /\ driver \in Driver /\ Len(q) \in {5, 8, 10}
      /\ UNCHANGED <<driver, level, ptr, twice, failures, user, holder>>
      /\ pc' = "unbound" /\ at' = 1 /\ has' = {}
      /\ lost' = lost \cup (has \ Devm) \cup (IF level["avee"] = 1 THEN {"avee"} ELSE {})
  <2>1. pc = "remove" /\ driver \in Driver /\ Steps = q /\ at \in 1 .. Len(q) + 1 /\ Len(q) \in {5, 8, 10}
    BY InRemove DEF RemoveReturns
  <2>2. at = Len(q) + 1
    BY <2>1 DEF RemoveReturns
  <2> QED BY <2>1, <2>2 DEF RemoveReturns, Unbind, users
<1>2. LifeTypeOK'
  <2>1. Len(Steps') \in Nat
    BY <1>1, Lengths DEF Steps
  <2>2. "avee" \in Thing
    BY DEF Thing, Devm, Line
  <2> QED BY <1>1, <2>1, <2>2 DEF IInv, LifeTypeOK
<1>3. ServesInv' /\ HasInv'
  BY <1>1 DEF ServesInv, HasInv
<1>4. LinesInv'
  BY <1>1 DEF IInv, LinesInv
<1>5. PutInv'
  BY <1>1 DEF IInv, PutInv
<1>6. CleanRemove'
  <2> SUFFICES ASSUME failures = 0
               PROVE  lost' \subseteq CASE driver = "i2c20" -> {"dyn"}
                                        [] driver = "panel" -> {"avee"}
                                        [] OTHER            -> {}
    BY <1>1 DEF CleanRemove
  <2>1. has \ Devm \subseteq IF driver = "i2c20" THEN {"dyn"} ELSE {}
    <3> SUFFICES ASSUME NEW x \in has \ Devm, ~ (driver = "i2c20" /\ x = "dyn")
                 PROVE  FALSE
      OBVIOUS
    <3>1. x \in Gets(driver) \ Devm
      BY DEF IInv, HasInv
    <3>2. PICK i \in 1 .. Len(q) : q[i].op \in {"put", "putif"} /\ q[i].x = x
      BY <1>1, <3>1, RemoveReleases
    <3> QED BY <1>1, <3>2 DEF IInv, HasInv
  <2>2. driver # "panel" => level["avee"] = 0
    BY <1>1 DEF IInv, LinesInv, Driver
  <2>3. lost \subseteq CASE driver = "i2c20" -> {"dyn"}
                         [] driver = "panel" -> {"avee"}
                         [] OTHER            -> {}
    BY DEF IInv, CleanRemove
  <2>4. CASE driver = "i2c20"
    BY <1>1, <2>1, <2>2, <2>3, <2>4
  <2>5. CASE driver = "panel"
    BY <1>1, <2>1, <2>3, <2>5
  <2>6. CASE driver = "i2c40"
    BY <1>1, <2>1, <2>2, <2>3, <2>6
  <2> QED BY <1>1, <2>4, <2>5, <2>6 DEF Driver
<1> QED BY <1>2, <1>3, <1>4, <1>5, <1>6 DEF IInv

(* The calls of the driver core, and the display.                          *)
LEMMA CallHolds ==
  ASSUME IInv, ProbeCall \/ ProbeReturns \/ RemoveCall \/ Display
  PROVE  IInv'
<1>1. CASE ProbeCall
  <2>1. /\ pc = "unbound" /\ pc' = "probe" /\ at' = 1 /\ driver \in Driver
        /\ UNCHANGED <<driver, has, lost, level, ptr, twice, failures, user, holder>>
    BY <1>1 DEF ProbeCall, users, IInv, LifeTypeOK
  <2>2. LifeTypeOK'
    <3>1. Len(Steps') \in Nat
      BY <2>1, Lengths DEF Steps
    <3> QED BY <2>1, <3>1 DEF IInv, LifeTypeOK
  <2>3. ServesInv' /\ HasInv'
    BY <2>1 DEF IInv, ServesInv, HasInv, Ready, Driver
  <2>4. LinesInv'
    BY <2>1 DEF IInv, LinesInv
  <2>5. PutInv'
    BY <2>1 DEF IInv, PutInv
  <2>6. CleanRemove'
    BY <2>1 DEF IInv, CleanRemove
  <2> QED BY <2>2, <2>3, <2>4, <2>5, <2>6 DEF IInv
<1>2. CASE ProbeReturns
  <2> DEFINE q == ProbeSteps(driver)
  <2>1. /\ pc = "probe" /\ at = Len(q) + 1 /\ pc' = "bound" /\ at' = 1 /\ driver \in Driver /\ Len(q) \in Nat
        /\ driver = "i2c40" => Len(q) = 27
        /\ UNCHANGED <<driver, has, lost, level, ptr, twice, failures, user, holder>>
    BY <1>2, InProbe DEF ProbeReturns, users
  <2>2. LifeTypeOK'
    <3>1. Len(Steps') \in Nat
      BY <2>1, Lengths DEF Steps
    <3> QED BY <2>1, <3>1 DEF IInv, LifeTypeOK
  <2>3. ServesInv' /\ HasInv'
    BY <2>1 DEF IInv, ServesInv, HasInv
  <2>4. LinesInv'
    <3>1. ASSUME driver = "i2c40"
          PROVE  at > 17
      <4>1. Steps = q /\ Len(q) = 27 /\ at \in 1 .. Len(q) + 1
        BY <2>1, <3>1, InProbe
      <4>2. at \in 1 .. 28 /\ ~ at <= 27
        BY <1>2, <4>1 DEF ProbeReturns
      <4> QED BY <4>2
    <3> QED BY <2>1, <3>1 DEF IInv, LinesInv
  <2>5. PutInv'
    <3>1. \A x \in Certain(driver) : \E i \in 1 .. Len(q) : q[i].op = "get" /\ q[i].x = x
      BY <2>1, ProbeAcquires
    <3>2. (driver = "panel" => failures = 0) => ~ twice /\ Certain(driver) \subseteq has
      BY <2>1, <3>1 DEF IInv, PutInv
    <3> QED BY <2>1, <3>2 DEF PutInv
  <2>6. CleanRemove'
    BY <2>1 DEF IInv, CleanRemove
  <2> QED BY <2>2, <2>3, <2>4, <2>5, <2>6 DEF IInv
<1>3. CASE RemoveCall
  <2> DEFINE q == RemoveSteps(driver)
  <2>1. /\ pc = "bound" /\ pc' = "remove" /\ at' = 1 /\ driver \in Driver /\ Len(q) \in Nat
        /\ UNCHANGED <<driver, has, lost, level, ptr, twice, failures, user, holder>>
    BY <1>3, Lengths DEF RemoveCall, users, IInv, LifeTypeOK
  <2>2. LifeTypeOK'
    BY <2>1 DEF IInv, LifeTypeOK, Steps
  <2>3. ServesInv' /\ HasInv'
    BY <2>1 DEF IInv, ServesInv, HasInv
  <2>4. LinesInv'
    BY <2>1 DEF IInv, LinesInv
  <2>5. PutInv'
    <3>1. \A j \in 1 .. Len(q) : q[j].op = "put" => q[j].x \in Certain(driver)
      BY <2>1, RemoveSequence
    <3> QED BY <2>1, <3>1 DEF IInv, PutInv
  <2>6. CleanRemove'
    BY <2>1 DEF IInv, CleanRemove
  <2> QED BY <2>2, <2>3, <2>4, <2>5, <2>6 DEF IInv
<1>4. CASE Display
  <2>1. PICK v \in {0, 1} : level' = [level EXCEPT !["avdd"] = v, !["avee"] = v]
    BY <1>4 DEF Display
  <2>2. /\ driver = "panel" /\ pc = "bound"
        /\ UNCHANGED <<driver, pc, at, has, lost, ptr, twice, failures, user, holder>>
    BY <1>4 DEF Display, users
  <2>3. LifeTypeOK'
    BY <2>1, <2>2 DEF IInv, LifeTypeOK, Steps
  <2>4. ServesInv' /\ HasInv'
    BY <2>2 DEF IInv, ServesInv, HasInv
  <2>5. LinesInv'
    BY <2>2 DEF LinesInv
  <2>6. PutInv' /\ CleanRemove'
    BY <2>2 DEF IInv, PutInv, CleanRemove
  <2> QED BY <2>3, <2>4, <2>5, <2>6 DEF IInv
<1> QED BY <1>1, <1>2, <1>3, <1>4

(* What the threads do changes only who is where.                          *)
LEMMA UserHolds ==
  ASSUME IInv, UNCHANGED life, user' \in [Threads -> UserStates],
         holder' \in Threads \cup {NoThread}
  PROVE  IInv'
BY DEF UserStates, IInv, LifeTypeOK, ServesInv, LinesInv, HasInv, PutInv, CleanRemove, life, Steps

LEMMA ThreadStep ==
  ASSUME IInv, NEW t \in Threads, Open(t) \/ Close(t) \/ Ioctl(t) \/ Lock(t) \/ Sleep(t) \/ Unlock(t)
  PROVE  IInv'
<1>1. UNCHANGED life /\ holder' \in {holder, t, NoThread}
  BY DEF Open, Close, Ioctl, Lock, Sleep, Unlock
<1>2. user' \in [Threads -> UserStates]
  <2>1. user \in [Threads -> UserStates]
    BY DEF IInv, LifeTypeOK, UserStates
  <2>2. CASE Open(t) \/ Close(t) \/ Ioctl(t) \/ Lock(t) \/ Sleep(t)
    <3>1. \E to \in UserStates : user' = [user EXCEPT ![t] = to]
      BY <2>2 DEF Open, Close, Ioctl, Lock, Sleep, Goes, UserStates
    <3> QED BY <2>1, <3>1
  <2>3. CASE Unlock(t)
    <3>1. \/ user' = [user EXCEPT ![t] = "open"]
          \/ \E u \in Threads : user' = [user EXCEPT ![t] = "open", ![u] = "checked"]
      BY <2>3 DEF Unlock
    <3> QED BY <2>1, <3>1 DEF UserStates
  <2> QED BY <2>2, <2>3
<1>3. holder' \in Threads \cup {NoThread}
  BY <1>1 DEF IInv, LifeTypeOK
<1> QED BY <1>1, <1>2, <1>3, UserHolds

LEMMA NextHolds ==
  ASSUME IInv, [Next]_vars
  PROVE  IInv'
<1>1. CASE ProbeCall \/ ProbeReturns \/ RemoveCall \/ Display
  BY <1>1, CallHolds
<1>2. CASE GetStep
  BY <1>2, GetHolds
<1>3. CASE FailStep
  BY <1>3, FailHolds
<1>4. CASE OtherStep
  BY <1>4, ProbeStepHolds, RemoveStepHolds DEF OtherStep
<1>5. CASE RemoveReturns
  BY <1>5, RemoveReturnsHolds
<1>6. CASE \E t \in Threads : Open(t) \/ Close(t) \/ Ioctl(t) \/ Lock(t) \/ Sleep(t) \/ Unlock(t)
  BY <1>6, ThreadStep
<1>7. CASE UNCHANGED vars
  BY <1>7, UserHolds DEF vars, life, IInv, LifeTypeOK, UserStates
<1> QED BY <1>1, <1>2, <1>3, <1>4, <1>5, <1>6, <1>7 DEF Next

THEOREM LifeInductive == Spec => []IInv
<1>1. IInv /\ [Next]_vars => IInv'
  BY NextHolds
<1> QED BY <1>1, InitHolds, PTL DEF Spec

-----------------------------------------------------------------------------
(* The promises of the component.                                          *)

(* Types, whatever probe, remove and the threads do.                       *)
THEOREM LifeTypeCorrect == Spec => []LifeTypeOK
<1>1. IInv => LifeTypeOK
  BY DEF IInv
<1> QED BY <1>1, LifeInductive, PTL

(* Over any number of bindings without a failing step nothing is left but  *)
(* the dynamic files of i2c-jbd4020 and the panel's AVEE.                  *)
THEOREM CleanRemoveCorrect == Spec => []CleanRemove
<1>1. IInv => CleanRemove
  BY DEF IInv
<1> QED BY <1>1, LifeInductive, PTL

(* Error paths and remove release only what has been acquired, with any    *)
(* number of failing steps in the I2C drivers, and without one in the      *)
(* panel driver.                                                           *)
THEOREM ReleasesWhatItHasCorrect == Spec => []ReleasesWhatItHas
<1>1. IInv => ReleasesWhatItHas
  BY DEF IInv, PutInv, ReleasesWhatItHas, LifeTypeOK
<1> QED BY <1>1, LifeInductive, PTL

(* While there is a device node, its handlers find live clients or a live  *)
(* context.                                                                *)
THEOREM NodeServesLiveContextCorrect == Spec => []NodeServesLiveContext
<1>1. IInv => NodeServesLiveContext
  BY DEF IInv, ServesInv, NodeServesLiveContext
<1> QED BY <1>1, LifeInductive, PTL

(* i2c-jbd4040 has AVEE on only over all its other supplies, unless a      *)
(* failed probe has left it on.                                            *)
THEOREM AveeNeedsRestCorrect == Spec => []AveeNeedsRest
<1>1. IInv => AveeNeedsRest
  <2> SUFFICES ASSUME IInv, driver = "i2c40", level["avee"] = 1, "avee" \notin lost
               PROVE  level["dvdd"] = 1 /\ level["vddi"] = 1 /\ level["avdd"] = 1 /\ level["reset"] = 0
    BY DEF AveeNeedsRest
  <2>1. pc \in {"unbound", "probe", "bound", "remove"} /\ at \in Nat /\ at >= 1
    <3>1. CASE pc = "probe"
      BY <3>1, InProbe
    <3>2. CASE pc # "probe"
      BY <3>2, Lengths DEF IInv, LifeTypeOK, Steps
    <3> QED BY <3>1, <3>2 DEF IInv, LifeTypeOK
  <2> QED BY <2>1 DEF IInv, LinesInv
<1> QED BY <1>1, LifeInductive, PTL

=============================================================================
