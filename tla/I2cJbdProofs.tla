---------------------------- MODULE I2cJbdProofs ----------------------------
(***************************************************************************)
(* Proofs about the handlers of i2c-jbd4020.c and i2c-jbd4040.c, for every *)
(* set of threads and of scenarios and any number of transfers that fail:  *)
(* types, and the address of the driver's own client.                      *)
(***************************************************************************)
EXTENDS I2cJbd, SequenceTheorems, TLAPS

-----------------------------------------------------------------------------
(* The steps that handlers are made of.                                    *)

Drv          == scen.drv
Fields(d, g) == DOMAIN Width[d][g]

(* What register g of driver d can hold; what a write can set in it.       *)
FieldNames     == {"val", "rest", "flip", "mirror", "en", "h", "v", "idx", "scan", "ctl"}
Fit(d, g, x)   == \A f \in DOMAIN x : x[f] <= Width[d][g][f]
Contents(d, g) == {x \in [Fields(d, g) -> Nat] : Fit(d, g, x)}
Some           == UNION {[F -> Nat] : F \in SUBSET FieldNames}
Settings(d, g) == {x \in Some : DOMAIN x \subseteq Fields(d, g) /\ Fit(d, g, x)}

Place    == Panel \cup {"client"}
Outcomes == [skip : Nat, err : BOOLEAN]

Readings(d) == [op : {"read", "get"}, at : Place, reg : Regs(d) \cup {"sysfs"}, fail : Outcomes]
               \cup [op : {"readhv"}, at : Place, reg : {"VO"} \cap Regs(d), fail : Outcomes]
RawWrites   == [op : {"write"}, at : Place, reg : {"sysfs"}, set : {<< >>}, fail : Outcomes]
Writes(d)   == {s \in [op : {"write"}, at : Place, reg : Regs(d), set : Some, fail : Outcomes] :
                  s.set \in Settings(d, s.reg)}
StepSet(d)  == Readings(d) \cup RawWrites \cup Writes(d)
               \cup [op : {"take", "give", "ask"}] \cup [op : {"select"}, reg : Regs(d)]

StepSeq(d, q) == q \in Seq(StepSet(d))

(* A write that takes some of the fields from temp; a step that can be     *)
(* taken whatever temp is; how many steps a failure leaves out.            *)
Partial(d, s) == s.op = "write" /\ s.reg # "sysfs" /\ DOMAIN s.set # Fields(d, s.reg)
Fresh(d, s)   == ~ Partial(d, s) /\ s.op # "readhv"
Jump(s)       == IF s.op = "ask" THEN 1 ELSE IF s.op \in Reads \cup {"write"} THEN s.fail.skip ELSE 0

(* Step a leaves in temp what step b, the next one, needs there.           *)
Feeds(d, a, b) ==
  /\ Partial(d, b) => a.op \in {"read", "readhv"} /\ a.reg = b.reg /\ a.fail.skip > 0
  /\ b.op = "readhv" => a.op = "write" /\ a.reg = "OFFSET" /\ b.reg = "VO" /\ a.fail.skip = 0

(* Steps without a change of the address of which each has what it needs,  *)
(* also after a failure; and which can follow any others.                  *)
Sound(d, q) ==
  /\ StepSeq(d, q) /\ Len(q) < 90
  /\ \A i \in 1 .. Len(q) : q[i].op \notin {"take", "give"}
  /\ \A i \in 1 .. Len(q) - 1 : Feeds(d, q[i], q[i + 1])
  /\ \A i \in 1 .. Len(q) : Jump(q[i]) > 0 =>
       \/ Jump(q[i]) = 99
       \/ i + 1 + Jump(q[i]) = Len(q) + 1
       \/ i + 1 + Jump(q[i]) \in 1 .. Len(q) /\ Fresh(d, q[i + 1 + Jump(q[i])])
Block(d, q) == Sound(d, q) /\ (q # << >> => Fresh(d, q[1]))

-----------------------------------------------------------------------------
(* The invariant.                                                          *)

Arrays ==
  /\ scen \in Scenarios
  /\ DOMAIN regs = Panel /\ \A p \in Panel : DOMAIN regs[p] = Regs(Drv)
  /\ \A p \in Panel : \A g \in Regs(Drv) : regs[p][g] \in Contents(Drv, g)
  /\ ptr \in [Panel -> Regs(Drv)] /\ sysfsReg \in Regs(Drv)
  /\ addr \in {Panel, {"R"}}
  /\ mutex \in Threads \cup {NoThread}
  /\ loc \in [Threads -> {"idle", "wait", "run"}]
  /\ req \in [Threads -> scen.requests \cup {NoReq}]
  /\ DOMAIN job = Threads /\ \A t \in Threads : StepSeq(Drv, job[t])
  /\ sent \in [Threads -> BOOLEAN] /\ ok \in [Threads -> BOOLEAN]
  /\ DOMAIN temp = Threads /\ DOMAIN seen = Threads
  /\ saved \in [Threads -> SUBSET Panel]
  /\ faults \in 0 .. scen.faults

(* A thread between requests; and who may be at work at the same time.     *)
RestInv ==
  \A t \in Threads :
    /\ loc[t] # "run" => job[t] = << >> /\ ~ sent[t] /\ ok[t] /\ temp[t] = << >> /\ saved[t] = Panel
    /\ loc[t] = "idle" <=> req[t] = NoReq
    /\ loc[t] = "wait" => req[t].by = "ioctl"
    /\ loc[t] = "run" /\ req[t].by = "ioctl" <=> mutex = t
ApartInv ==
  \A t, u \in Threads : t # u /\ loc[t] # "idle" /\ loc[u] # "idle" => req[t].by = "ioctl" /\ req[u].by = "ioctl"

SetsFps(t) == loc[t] = "run" /\ req[t].by = "store" /\ req[t].name = "fps"

(* store_fps, by the number of steps it still has to take.                 *)
FpsOK(t) ==
  SetsFps(t) =>
    LET q == StoreFps(req[t])
        n == Len(job[t])
    IN /\ Drv = "jbd4040"
       /\ n \in 0 .. 4 /\ \A i \in 1 .. n : job[t][i] = q[i + (4 - n)]
       /\ n \in {2, 3} => saved[t] = Panel /\ addr = {"R"}
       /\ n \in {3, 4} => ok[t]
       /\ n = 2 /\ ok[t] => temp[t] \in Contents(Drv, "FPS")
       /\ n = 1 => temp[t] \in Contents(Drv, "FPS")
       /\ sent[t] => n = 3
AddrInv ==
  addr # Panel => \E t \in Threads : SetsFps(t) /\ Len(job[t]) \in {2, 3}

(* The other handlers.                                                     *)
SoundOK(t) ==
  loc[t] = "run" /\ ~ SetsFps(t) =>
    /\ Sound(Drv, job[t])
    /\ job[t] # << >> /\ Partial(Drv, job[t][1]) => temp[t] \in Contents(Drv, job[t][1].reg)
    /\ job[t] # << >> /\ job[t][1].op = "readhv" => temp[t] \in Contents(Drv, "OFFSET")

(* Nobody gets between the two transfers of a read.                        *)
SentOK(t) ==
  sent[t] => /\ job[t] # << >> /\ job[t][1].op \in Reads
             /\ \A p \in Dest(t) : ptr[p] = RegOf(t)

HandlersOK == \A t \in Threads : FpsOK(t) /\ SoundOK(t) /\ SentOK(t)

TInv == Arrays /\ RestInv /\ ApartInv /\ AddrInv /\ HandlersOK

-----------------------------------------------------------------------------
(* What is left of a handler.                                              *)

(* What is left when a step has been taken and k more are left out: the    *)
(* later steps, in order.                                                  *)
Rest(q, k) == SubSeq(q, 2 + k, Len(q))

(* What is left of a sequence, step by step.                               *)
LEMMA Remainder ==
  ASSUME NEW S, NEW q \in Seq(S), q # << >>, NEW k \in Nat
  PROVE  /\ Rest(q, k) \in Seq(S) /\ Len(Rest(q, k)) \in Nat
         /\ k + 1 <= Len(q) => Len(Rest(q, k)) = Len(q) - (k + 1)
         /\ k + 1 > Len(q) => Len(Rest(q, k)) = 0
         /\ \A i \in 1 .. Len(Rest(q, k)) : i + k + 1 \in 1 .. Len(q) /\ Rest(q, k)[i] = q[i + k + 1]
<1>1. Len(q) \in Nat /\ Len(q) > 0 /\ \A i \in 1 .. Len(q) : q[i] \in S
  BY LenProperties, EmptySeq
<1>2. \A i \in 2 + k .. Len(q) : q[i] \in S
  BY <1>1
<1> DEFINE m == 2 + k
           n == Len(q)
           r == SubSeq(q, m, n)
<1>3. m \in Int /\ n \in Int /\ \A i \in m .. n : q[i] \in S
  BY <1>1, <1>2
<1> HIDE DEF m, n
<1>4. /\ r \in Seq(S) /\ Len(r) = IF m <= n THEN n - m + 1 ELSE 0
      /\ \A i \in 1 .. n - m + 1 : r[i] = q[m + i - 1]
  BY <1>3, SubSeqProperties
<1> HIDE DEF r
<1>5. Rest(q, k) = r
  BY DEF Rest, r, m, n
<1> QED BY <1>1, <1>4, <1>5, SMT DEF m, n

(* Steps that come one after the other.                                    *)
LEMMA Joined ==
  ASSUME NEW S, NEW a \in Seq(S), NEW b \in Seq(S)
  PROVE  /\ a \o b \in Seq(S) /\ Len(a) \in Nat /\ Len(b) \in Nat /\ Len(a \o b) = Len(a) + Len(b)
         /\ \A i \in 1 .. Len(a) : (a \o b)[i] = a[i]
         /\ \A i \in Len(a) + 1 .. Len(a) + Len(b) : i - Len(a) \in 1 .. Len(b) /\ (a \o b)[i] = b[i - Len(a)]
  BY LenProperties, ConcatProperties

(* Two sequences of two elements one after the other.                      *)
LEMMA TwoPairs ==
  ASSUME NEW S, NEW a \in S, NEW b \in S, NEW r \in S, NEW w \in S
  PROVE  << a, b >> \o << r, w >> = << a, b, r, w >>
<1> DEFINE s == << a, b >>
           t == << r, w >>
           q == << a, b, r, w >>
           u == s \o t
<1>1. /\ s \in Seq(S) /\ t \in Seq(S) /\ q \in Seq(S) /\ Len(s) = 2 /\ Len(t) = 2 /\ Len(q) = 4
      /\ s[1] = a /\ s[2] = b /\ t[1] = r /\ t[2] = w /\ q[1] = a /\ q[2] = b /\ q[3] = r /\ q[4] = w
  OBVIOUS
<1> HIDE DEF s, t, q
<1>2. /\ u \in Seq(S) /\ Len(u) = Len(s) + Len(t)
      /\ \A i \in 1 .. Len(s) : u[i] = s[i]
      /\ \A i \in Len(s) + 1 .. Len(s) + Len(t) : u[i] = t[i - Len(s)]
  BY <1>1, Joined
<1> HIDE DEF u
<1>3. Len(u) = 4 /\ u[1] = a /\ u[2] = b /\ u[3] = r /\ u[4] = w
  BY <1>1, <1>2
<1>4. \A i \in 1 .. Len(u) : u[i] = q[i]
  BY <1>1, <1>3
<1>5. u = q
  BY <1>1, <1>2, <1>3, <1>4, SeqEqual
<1> QED BY <1>5 DEF u, s, t, q

(* A step is what its op says.                                             *)
LEMMA StepKinds ==
  ASSUME NEW d, NEW s \in StepSet(d)
  PROVE  /\ s.op \in Reads => /\ s.at \in Place /\ s.reg \in Regs(d) \cup {"sysfs"}
                             /\ s.fail \in Outcomes
         /\ s.op = "readhv" => s.reg = "VO" /\ "VO" \in Regs(d)
         /\ s.op = "write" => /\ s.at \in Place /\ s.fail \in Outcomes
                              /\ \/ s.reg = "sysfs"
                                 \/ s.reg \in Regs(d) /\ s.set \in Settings(d, s.reg)
         /\ s.op = "select" => s.reg \in Regs(d)
         /\ s.op \in Reads \cup {"write", "take", "give", "ask", "select"}
         /\ Jump(s) \in Nat
<1>1. CASE s \in Readings(d)
  <2>1. s.op \in Reads /\ s.at \in Place /\ s.reg \in Regs(d) \cup {"sysfs"} /\ s.fail \in Outcomes
        /\ (s.op = "readhv" => s.reg = "VO" /\ "VO" \in Regs(d))
    BY <1>1 DEF Readings, Reads
  <2> QED BY <2>1 DEF Reads, Outcomes, Jump
<1>2. CASE s \in RawWrites
  <2>1. s.op = "write" /\ s.at \in Place /\ s.reg = "sysfs" /\ s.fail \in Outcomes
    BY <1>2 DEF RawWrites
  <2> QED BY <2>1 DEF Reads, Outcomes, Jump
<1>3. CASE s \in Writes(d)
  <2>1. s.op = "write" /\ s.at \in Place /\ s.reg \in Regs(d) /\ s.fail \in Outcomes /\ s.set \in Settings(d, s.reg)
    BY <1>3 DEF Writes
  <2> QED BY <2>1 DEF Reads, Outcomes, Jump
<1>4. CASE s \in [op : {"take", "give", "ask"}]
  <2>1. s.op \in {"take", "give", "ask"}
    BY <1>4
  <2> QED BY <2>1 DEF Reads, Jump
<1>5. CASE s \in [op : {"select"}, reg : Regs(d)]
  <2>1. s.op = "select" /\ s.reg \in Regs(d)
    BY <1>5
  <2> QED BY <2>1 DEF Reads, Jump
<1> QED BY <1>1, <1>2, <1>3, <1>4, <1>5 DEF StepSet

(* Two blocks one after the other are a block.                             *)
LEMMA BlockJoin ==
  ASSUME NEW d, NEW a, NEW b, Block(d, a), Block(d, b), Len(a) + Len(b) < 90
  PROVE  Block(d, a \o b) /\ Len(a \o b) = Len(a) + Len(b)
<1> DEFINE S == StepSet(d)
           q == a \o b
           m == Len(a)
           n == Len(b)
<1>1. a \in Seq(S) /\ b \in Seq(S)
  BY DEF Block, Sound, StepSeq
<1> HIDE DEF S
<1>2. /\ q \in Seq(S) /\ m \in Nat /\ n \in Nat /\ Len(q) = m + n
      /\ \A i \in 1 .. m : q[i] = a[i]
      /\ \A i \in m + 1 .. m + n : i - m \in 1 .. n /\ q[i] = b[i - m]
  BY <1>1, Joined
<1>3. /\ \A i \in 1 .. m : a[i].op \notin {"take", "give"}
      /\ \A i \in 1 .. m - 1 : Feeds(d, a[i], a[i + 1])
      /\ \A i \in 1 .. m : Jump(a[i]) > 0 =>
           \/ Jump(a[i]) = 99
           \/ i + 1 + Jump(a[i]) = m + 1
           \/ i + 1 + Jump(a[i]) \in 1 .. m /\ Fresh(d, a[i + 1 + Jump(a[i])])
  BY DEF Block, Sound
<1>4. /\ \A i \in 1 .. n : b[i].op \notin {"take", "give"}
      /\ \A i \in 1 .. n - 1 : Feeds(d, b[i], b[i + 1])
      /\ \A i \in 1 .. n : Jump(b[i]) > 0 =>
           \/ Jump(b[i]) = 99
           \/ i + 1 + Jump(b[i]) = n + 1
           \/ i + 1 + Jump(b[i]) \in 1 .. n /\ Fresh(d, b[i + 1 + Jump(b[i])])
  BY DEF Block, Sound
<1>5. (m > 0 => Fresh(d, a[1])) /\ (n > 0 => Fresh(d, b[1]))
  BY <1>1, EmptySeq, LenProperties DEF Block
<1>6. m + n < 90
  OBVIOUS
<1>a. \A i \in 1 .. m : Jump(a[i]) \in Nat
  BY <1>1, LenProperties, StepKinds DEF S
<1>b. \A i \in 1 .. n : Jump(b[i]) \in Nat
  BY <1>1, LenProperties, StepKinds DEF S
<1>7. \A x : Fresh(d, x) => \A y : Feeds(d, y, x)
  BY DEF Fresh, Feeds
<1> HIDE DEF q, m, n
<1>8. ASSUME NEW i \in 1 .. m + n
      PROVE  q[i].op \notin {"take", "give"}
  <2>1. CASE i \in 1 .. m
    BY <2>1, <1>2, <1>3
  <2>2. CASE i \in m + 1 .. m + n
    BY <2>2, <1>2, <1>4
  <2> QED BY <2>1, <2>2, <1>2
<1>9. ASSUME NEW i \in 1 .. m + n - 1
      PROVE  Feeds(d, q[i], q[i + 1])
  <2>1. CASE i \in 1 .. m - 1
    BY <2>1, <1>2, <1>3
  <2>2. CASE i = m
    <3>1. m + 1 \in m + 1 .. m + n /\ n > 0 /\ (m + 1) - m = 1
      BY <2>2, <1>2
    <3>2. q[i + 1] = b[1]
      BY <3>1, <2>2, <1>2
    <3> QED BY <3>1, <3>2, <1>5, <1>7
  <2>3. CASE i \in m + 1 .. m + n
    <3>1. /\ i + 1 \in m + 1 .. m + n /\ i - m \in 1 .. n - 1 /\ (i + 1) - m = (i - m) + 1
      BY <2>3, <1>2
    <3>2. q[i] = b[i - m] /\ q[i + 1] = b[(i - m) + 1]
      BY <3>1, <2>3, <1>2
    <3> QED BY <3>1, <3>2, <1>4
  <2> QED BY <2>1, <2>2, <2>3, <1>2
<1>10. ASSUME NEW i \in 1 .. m + n, Jump(q[i]) > 0
       PROVE  \/ Jump(q[i]) = 99
              \/ i + 1 + Jump(q[i]) = m + n + 1
              \/ i + 1 + Jump(q[i]) \in 1 .. m + n /\ Fresh(d, q[i + 1 + Jump(q[i])])
  <2>1. CASE i \in 1 .. m
    <3> DEFINE j == Jump(a[i])
    <3>1. q[i] = a[i] /\ j \in Nat
      BY <2>1, <1>2, <1>a
    <3>2. CASE j = 99
      BY <3>1, <3>2
    <3>3. CASE i + 1 + j = m + 1
      <4>1. CASE n = 0
        BY <4>1, <3>1, <3>3, <1>2
      <4>2. CASE n > 0
        <5>1. i + 1 + j \in m + 1 .. m + n /\ (i + 1 + j) - m = 1
          BY <4>2, <3>3, <1>2
        <5>2. q[i + 1 + j] = b[1]
          BY <5>1, <1>2
        <5> QED BY <5>1, <5>2, <4>2, <3>1, <1>5, <1>2
      <4> QED BY <4>1, <4>2, <1>2
    <3>4. CASE i + 1 + j \in 1 .. m /\ Fresh(d, a[i + 1 + j])
      BY <3>4, <3>1, <1>2
    <3> QED BY <3>1, <3>2, <3>3, <3>4, <1>3, <1>10, <2>1
  <2>2. CASE i \in m + 1 .. m + n
    <3> DEFINE h == i - m
               j == Jump(b[h])
    <3>1. q[i] = b[h] /\ h \in 1 .. n /\ j \in Nat /\ i = h + m
      BY <2>2, <1>2, <1>b
    <3> HIDE DEF h
    <3>2. CASE j = 99
      BY <3>1, <3>2
    <3>3. CASE h + 1 + j = n + 1
      <4> HIDE DEF j
      <4>1. i + 1 + j = m + n + 1
        BY <3>3, <3>1, <1>2
      <4> QED BY <4>1, <3>1 DEF j
    <3>4. CASE h + 1 + j \in 1 .. n /\ Fresh(d, b[h + 1 + j])
      <4> DEFINE k == i + 1 + j
      <4>1. k \in m + 1 .. m + n /\ k - m = h + 1 + j /\ k \in 1 .. m + n
        <5> HIDE DEF j
        <5> QED BY <3>4, <3>1, <1>2 DEF k
      <4>2. q[k] = b[h + 1 + j]
        <5> HIDE DEF k, j
        <5> QED BY <4>1, <1>2
      <4> QED BY <4>1, <4>2, <3>1, <3>4
    <3> QED BY <3>1, <3>2, <3>3, <3>4, <1>4, <1>10
  <2> QED BY <2>1, <2>2, <1>2
<1>11. Sound(d, q)
  BY <1>2, <1>6, <1>8, <1>9, <1>10 DEF Sound, StepSeq, S
<1>12. q # << >> => Fresh(d, q[1])
  <2>1. CASE m > 0
    BY <2>1, <1>2, <1>5
  <2>2. CASE m = 0 /\ n > 0
    <3>1. 1 \in m + 1 .. m + n /\ 1 - m = 1
      BY <2>2, <1>2
    <3> QED BY <3>1, <2>2, <1>2, <1>5
  <2>3. CASE m = 0 /\ n = 0
    BY <2>3, <1>2, EmptySeq
  <2> QED BY <2>1, <2>2, <2>3, <1>2
<1> QED BY <1>11, <1>12, <1>2 DEF Block, q, m, n

-----------------------------------------------------------------------------
(* The registers, and what handlers write to them.                         *)

Driver == {"jbd4020", "jbd4040"}

(* The registers that the drivers know.                                    *)
LEMMA RegisterNames ==
  /\ Regs("jbd4020") = {"LUM", "CUR", "TEMP", "FLIP", "OFFSET", "VO"}
  /\ Regs("jbd4040") = {"LUM", "CUR", "TX", "FLIP", "OFFSET", "FPS", "PVT", "TEMP"}
  BY DEF Regs, Width

(* The fields that both drivers have in the same registers.                *)
LEMMA SharedWidths ==
  ASSUME NEW d \in Driver
  PROVE  /\ {"LUM", "CUR", "FLIP", "OFFSET", "TEMP"} \subseteq Regs(d)
         /\ Fields(d, "LUM") = {"val", "rest"} /\ Width[d]["LUM"]["val"] = 8191
         /\ Fields(d, "CUR") = {"val", "rest"} /\ Width[d]["CUR"]["val"] = 255
         /\ Fields(d, "FLIP") = {"flip", "mirror"}
         /\ Width[d]["FLIP"]["flip"] = 1 /\ Width[d]["FLIP"]["mirror"] = 1
         /\ {"h", "v"} \subseteq Fields(d, "OFFSET")
         /\ Width[d]["OFFSET"]["h"] = 31 /\ Width[d]["OFFSET"]["v"] = 31
<1>1. CASE d = "jbd4020"
  BY <1>1 DEF Regs, Fields, Width
<1>2. CASE d = "jbd4040"
  BY <1>2 DEF Regs, Fields, Width
<1> QED BY <1>1, <1>2 DEF Driver

(* The registers of the JBD4020 that carry a picture's place.              *)
LEMMA Widths4020 ==
  /\ Fields("jbd4020", "OFFSET") = {"en", "h", "v"} /\ Width["jbd4020"]["OFFSET"]["en"] = 1
  /\ Fields("jbd4020", "VO") = {"flip", "mirror", "en", "h", "v"}
  /\ Width["jbd4020"]["VO"]["flip"] = 1 /\ Width["jbd4020"]["VO"]["mirror"] = 1
  /\ Width["jbd4020"]["VO"]["en"] = 1
  /\ Width["jbd4020"]["VO"]["h"] = 4095 /\ Width["jbd4020"]["VO"]["v"] = 4095
  BY DEF Fields, Width

(* The registers that only the JBD4040 has.                                *)
LEMMA Widths4040 ==
  /\ Width["jbd4040"]["CUR"]["rest"] = 255
  /\ Fields("jbd4040", "OFFSET") = {"h", "v"}
  /\ Fields("jbd4040", "TX") = {"val"} /\ Width["jbd4040"]["TX"]["val"] = 65535
  /\ Fields("jbd4040", "FPS") = {"idx", "scan"} /\ Width["jbd4040"]["FPS"]["idx"] = 7
  /\ Width["jbd4040"]["FPS"]["scan"] = 1
  /\ Fields("jbd4040", "PVT") = {"ctl"} /\ Width["jbd4040"]["PVT"]["ctl"] = 3
  BY DEF Fields, Width

(* Every register has fields, with room for a number.                      *)
LEMMA FieldsNamed ==
  ASSUME NEW d \in Driver, NEW g \in Regs(d)
  PROVE  Fields(d, g) \subseteq FieldNames /\ Fields(d, g) # {} /\ \A f \in Fields(d, g) : Width[d][g][f] \in Nat
<1>1. CASE d = "jbd4020"
  <2>1. g \in {"LUM", "CUR", "TEMP", "FLIP", "OFFSET", "VO"}
    BY <1>1, RegisterNames
  <2> QED BY <1>1, <2>1 DEF Fields, FieldNames, Width
<1>2. CASE d = "jbd4040"
  <2>1. g \in {"LUM", "CUR", "TX", "FLIP", "OFFSET", "FPS", "PVT", "TEMP"}
    BY <1>2, RegisterNames
  <2> QED BY <1>2, <2>1 DEF Fields, FieldNames, Width
<1> QED BY <1>1, <1>2 DEF Driver

(* A choice of fields with numbers that fit is something to set.           *)
LEMMA SetFits ==
  ASSUME NEW d \in Driver, NEW g \in Regs(d), NEW F, NEW x,
         F \subseteq Fields(d, g), x \in [F -> Nat], \A f \in F : x[f] <= Width[d][g][f]
  PROVE  x \in Settings(d, g) /\ DOMAIN x = F
<1>1. F \in SUBSET FieldNames
  BY FieldsNamed
<1>2. x \in Some
  BY <1>1, Zenon DEF Some
<1>3. DOMAIN x = F
  OBVIOUS
<1> QED BY <1>2, <1>3 DEF Settings, Fit

(* What the masks in the handlers leave of a number.                       *)
LEMMA Numbers ==
  \A n \in Nat : /\ n % 32 \in 0 .. 31 /\ n % 256 \in 0 .. 255 /\ n % 8192 \in 0 .. 8191
                 /\ (n \div 256) % 256 \in 0 .. 255
  OBVIOUS

(* A luminance cut to its field fits it.                                   *)
LEMMA LuminSetting ==
  ASSUME NEW d \in Driver, NEW n \in Nat
  PROVE  [val |-> n % 8192] \in Settings(d, "LUM")
<1>1. {"val"} \subseteq Fields(d, "LUM") /\ [val |-> n % 8192] \in [{"val"} -> Nat] /\ n % 8192 <= 8191
  BY Numbers, SharedWidths
<1>2. "LUM" \in Regs(d)
  BY SharedWidths
<1> QED BY <1>1, <1>2, SetFits, SharedWidths

(* So does a current ...                                                   *)
LEMMA CurrentSetting ==
  ASSUME NEW d \in Driver, NEW n \in Nat
  PROVE  [val |-> n % 256] \in Settings(d, "CUR")
<1>1. {"val"} \subseteq Fields(d, "CUR") /\ [val |-> n % 256] \in [{"val"} -> Nat] /\ n % 256 <= 255
  BY Numbers, SharedWidths
<1>2. "CUR" \in Regs(d)
  BY SharedWidths
<1> QED BY <1>1, <1>2, SetFits, SharedWidths

(* ... and a switch.                                                       *)
LEMMA SwitchSettings ==
  ASSUME NEW d \in Driver, NEW e \in {0, 1}
  PROVE  [flip |-> e] \in Settings(d, "FLIP") /\ [mirror |-> e] \in Settings(d, "FLIP")
<1>1. {"flip"} \subseteq Fields(d, "FLIP") /\ [flip |-> e] \in [{"flip"} -> Nat] /\ e <= 1
  BY SharedWidths
<1>2. {"mirror"} \subseteq Fields(d, "FLIP") /\ [mirror |-> e] \in [{"mirror"} -> Nat]
  BY SharedWidths
<1>3. "FLIP" \in Regs(d)
  BY SharedWidths
<1>4. [flip |-> e] \in Settings(d, "FLIP")
  BY <1>1, <1>3, SetFits, SharedWidths
<1>5. [mirror |-> e] \in Settings(d, "FLIP")
  BY <1>1, <1>2, <1>3, SetFits, SharedWidths
<1> QED BY <1>4, <1>5

(* What the JBD4020 handlers put into OFFSET and VO fits them.             *)
LEMMA Settings4020 ==
  ASSUME NEW n \in Nat, NEW m \in Nat, NEW e \in {0, 1}, NEW g \in {"OFFSET", "VO"}
  PROVE  /\ [en |-> e] \in Settings("jbd4020", g)
         /\ [en |-> 1, h |-> n % 32, v |-> m % 32] \in Settings("jbd4020", g)
         /\ [flip |-> e] \in Settings("jbd4020", "VO") /\ [mirror |-> e] \in Settings("jbd4020", "VO")
         /\ [flip |-> 0, mirror |-> 0, h |-> 0, v |-> 0] \in Settings("jbd4020", "VO")
<1>1. "jbd4020" \in Driver /\ g \in Regs("jbd4020") /\ "VO" \in Regs("jbd4020")
  BY RegisterNames DEF Driver
<1>2. /\ {"en", "h", "v"} \subseteq Fields("jbd4020", g)
      /\ Width["jbd4020"][g]["en"] = 1 /\ Width["jbd4020"][g]["h"] \in {31, 4095}
      /\ Width["jbd4020"][g]["v"] \in {31, 4095}
  BY <1>1, SharedWidths, Widths4020
<1>3. n % 32 \in 0 .. 31 /\ m % 32 \in 0 .. 31
  BY Numbers
<1>4. [en |-> e] \in Settings("jbd4020", g)
  <2>1. {"en"} \subseteq Fields("jbd4020", g) /\ [en |-> e] \in [{"en"} -> Nat] /\ e <= 1
    BY <1>2
  <2> QED BY <2>1, <1>1, <1>2, SetFits
<1>5. [en |-> 1, h |-> n % 32, v |-> m % 32] \in Settings("jbd4020", g)
  <2> DEFINE x == [en |-> 1, h |-> n % 32, v |-> m % 32]
  <2>1. x \in [{"en", "h", "v"} -> Nat] /\ x["en"] <= 1 /\ x["h"] <= 31 /\ x["v"] <= 31
    BY <1>3
  <2> HIDE DEF x
  <2>2. \A f \in {"en", "h", "v"} : x[f] <= Width["jbd4020"][g][f]
    BY <2>1, <1>2
  <2> QED BY <2>1, <2>2, <1>1, <1>2, SetFits DEF x
<1>6. [flip |-> e] \in Settings("jbd4020", "VO")
  <2>1. {"flip"} \subseteq Fields("jbd4020", "VO") /\ [flip |-> e] \in [{"flip"} -> Nat] /\ e <= 1
    BY Widths4020
  <2> QED BY <2>1, <1>1, Widths4020, SetFits
<1>7. [mirror |-> e] \in Settings("jbd4020", "VO")
  <2>1. {"mirror"} \subseteq Fields("jbd4020", "VO") /\ [mirror |-> e] \in [{"mirror"} -> Nat] /\ e <= 1
    BY Widths4020
  <2> QED BY <2>1, <1>1, Widths4020, SetFits
<1>8. [flip |-> 0, mirror |-> 0, h |-> 0, v |-> 0] \in Settings("jbd4020", "VO")
  <2> DEFINE x == [flip |-> 0, mirror |-> 0, h |-> 0, v |-> 0]
             F == {"flip", "mirror", "h", "v"}
  <2>1. F \subseteq Fields("jbd4020", "VO") /\ x \in [F -> Nat] /\ \A f \in F : x[f] = 0
    BY Widths4020
  <2>2. \A f \in F : x[f] <= Width["jbd4020"]["VO"][f]
    BY <2>1, Widths4020
  <2> HIDE DEF x, F
  <2> QED BY <2>1, <2>2, <1>1, SetFits DEF x
<1> QED BY <1>4, <1>5, <1>6, <1>7, <1>8

(* A current and the bits next to it, as the JBD4040 sends them.           *)
LEMMA CurrentSetting4040 ==
  ASSUME NEW n \in Nat
  PROVE  [val |-> n % 256, rest |-> (n \div 256) % 256] \in Settings("jbd4040", "CUR")
<1> DEFINE x == [val |-> n % 256, rest |-> (n \div 256) % 256]
<1>1. "jbd4040" \in Driver /\ "CUR" \in Regs("jbd4040")
  BY RegisterNames DEF Driver
<1>2. n % 256 \in 0 .. 255 /\ (n \div 256) % 256 \in 0 .. 255
  OBVIOUS
<1>3. x \in [{"val", "rest"} -> Nat] /\ x["val"] <= 255 /\ x["rest"] <= 255
  BY <1>2
<1> HIDE DEF x
<1>4. \A f \in {"val", "rest"} : x[f] <= Width["jbd4040"]["CUR"][f]
  BY <1>3, <1>1, SharedWidths, Widths4040
<1> QED BY <1>3, <1>4, <1>1, SetFits, SharedWidths DEF x

(* The two numbers of a JBD4040 offset.                                    *)
LEMMA OffsetSetting4040 ==
  ASSUME NEW n \in Nat, NEW m \in Nat
  PROVE  [h |-> n % 32, v |-> m % 32] \in Settings("jbd4040", "OFFSET")
<1> DEFINE x == [h |-> n % 32, v |-> m % 32]
<1>1. "jbd4040" \in Driver /\ "OFFSET" \in Regs("jbd4040")
  BY RegisterNames DEF Driver
<1>2. n % 32 \in 0 .. 31 /\ m % 32 \in 0 .. 31
  BY Numbers
<1>3. x \in [{"h", "v"} -> Nat] /\ x["h"] <= 31 /\ x["v"] <= 31
  BY <1>2
<1> HIDE DEF x
<1>4. \A f \in {"h", "v"} : x[f] <= Width["jbd4040"]["OFFSET"][f]
  BY <1>3, <1>1, SharedWidths
<1> QED BY <1>3, <1>4, <1>1, SetFits, Widths4040 DEF x

(* A delay of 16 bits fits TX.                                             *)
LEMMA TxSetting ==
  ASSUME NEW n \in Nat, n <= 65535
  PROVE  [val |-> n] \in Settings("jbd4040", "TX")
<1>1. "jbd4040" \in Driver /\ "TX" \in Regs("jbd4040")
  BY RegisterNames DEF Driver
<1>2. {"val"} \subseteq Fields("jbd4040", "TX") /\ [val |-> n] \in [{"val"} -> Nat]
  BY Widths4040
<1>3. \A f \in {"val"} : [val |-> n][f] <= Width["jbd4040"]["TX"][f]
  BY Widths4040
<1> QED BY <1>1, <1>2, <1>3, SetFits

(* A place in fps_array fits the rate of FPS.                              *)
LEMMA FpsSetting ==
  ASSUME NEW n \in Nat, n <= 6
  PROVE  [idx |-> n] \in Settings("jbd4040", "FPS")
<1>1. "jbd4040" \in Driver /\ "FPS" \in Regs("jbd4040")
  BY RegisterNames DEF Driver
<1>2. {"idx"} \subseteq Fields("jbd4040", "FPS") /\ [idx |-> n] \in [{"idx"} -> Nat] /\ n <= 7
  BY Widths4040
<1> QED BY <1>1, <1>2, SetFits, Widths4040

(* The sensors' switch is all of PVT.                                      *)
LEMMA SensorSetting ==
  ASSUME NEW c \in {0, 3}
  PROVE  [ctl |-> c] \in Settings("jbd4040", "PVT") /\ DOMAIN [ctl |-> c] = Fields("jbd4040", "PVT")
<1>1. "jbd4040" \in Driver /\ "PVT" \in Regs("jbd4040")
  BY RegisterNames DEF Driver
<1>2. {"ctl"} \subseteq Fields("jbd4040", "PVT") /\ [ctl |-> c] \in [{"ctl"} -> Nat] /\ c <= 3
  BY Widths4040
<1> QED BY <1>1, <1>2, SetFits, Widths4040

(* The switches of OFFSET and VO.                                          *)
LEMMA SwitchSettings4020 ==
  ASSUME NEW e \in {0, 1}
  PROVE  /\ [en |-> e] \in Settings("jbd4020", "OFFSET") /\ [en |-> e] \in Settings("jbd4020", "VO")
         /\ [flip |-> e] \in Settings("jbd4020", "VO") /\ [mirror |-> e] \in Settings("jbd4020", "VO")
  BY 0 \in Nat, "OFFSET" \in {"OFFSET", "VO"}, "VO" \in {"OFFSET", "VO"}, Settings4020, Zenon

(* The numbers of OFFSET and VO.                                           *)
LEMMA OffsetSettings4020 ==
  ASSUME NEW n \in Nat, NEW m \in Nat
  PROVE  /\ [en |-> 1, h |-> n % 32, v |-> m % 32] \in Settings("jbd4020", "OFFSET")
         /\ [en |-> 1, h |-> n % 32, v |-> m % 32] \in Settings("jbd4020", "VO")
         /\ [flip |-> 0, mirror |-> 0, h |-> 0, v |-> 0] \in Settings("jbd4020", "VO")
  BY 0 \in {0, 1}, "OFFSET" \in {"OFFSET", "VO"}, "VO" \in {"OFFSET", "VO"}, Settings4020, Zenon

(* A register cleared as a whole.                                          *)
LEMMA ZeroSetting ==
  ASSUME NEW d \in Driver, NEW g \in Regs(d)
  PROVE  [f \in DOMAIN Width[d][g] |-> 0] \in Settings(d, g)
<1> DEFINE x == [f \in Fields(d, g) |-> 0]
<1>1. x \in [Fields(d, g) -> Nat] /\ \A f \in Fields(d, g) : x[f] <= Width[d][g][f]
  BY FieldsNamed
<1>2. x \in Settings(d, g)
  BY <1>1, SetFits
<1> QED BY <1>2 DEF Fields

-----------------------------------------------------------------------------
(* The blocks that handlers are put together from.                         *)

(* What a failure can mean.                                                *)
LEMMA FailOutcomes ==
  /\ End \in Outcomes /\ Note \in Outcomes
  /\ Skip(0) \in Outcomes /\ Skip(1) \in Outcomes /\ Skip(2) \in Outcomes /\ Skip(3) \in Outcomes
  /\ End.skip = 99 /\ Note.skip = 0 /\ \A n \in Nat : Skip(n).skip = n
  BY DEF End, Note, Skip, Outcomes

(* Reads are steps ...                                                     *)
LEMMA ReadMade ==
  ASSUME NEW d, NEW at \in Place, NEW g \in Regs(d) \cup {"sysfs"}, NEW fail \in Outcomes
  PROVE  /\ Rd(at, g, fail) \in StepSet(d) /\ Get(at, g, fail) \in StepSet(d)
         /\ g = "VO" => [Rd(at, g, fail) EXCEPT !.op = "readhv"] \in StepSet(d)
<1>1. Rd(at, g, fail) \in StepSet(d) /\ Get(at, g, fail) \in StepSet(d)
  BY DEF Rd, Get, StepSet, Readings
<1>2. ASSUME g = "VO"
      PROVE  [Rd(at, g, fail) EXCEPT !.op = "readhv"] \in StepSet(d)
  <2>1. g \in {"VO"} \cap Regs(d)
    BY <1>2
  <2>2. [Rd(at, g, fail) EXCEPT !.op = "readhv"] = [op |-> "readhv", at |-> at, reg |-> g, fail |-> fail]
    BY DEF Rd
  <2> QED BY <2>1, <2>2 DEF StepSet, Readings
<1> QED BY <1>1, <1>2

(* ... and so are writes of what fits.                                     *)
LEMMA WriteMade ==
  ASSUME NEW d, NEW at \in Place, NEW fail \in Outcomes
  PROVE  /\ \A g \in Regs(d) : \A set \in Settings(d, g) : Wr(at, g, set, fail) \in StepSet(d)
         /\ Wr(at, "sysfs", << >>, fail) \in StepSet(d)
<1>1. ASSUME NEW g \in Regs(d), NEW set \in Settings(d, g)
      PROVE  Wr(at, g, set, fail) \in StepSet(d)
  <2>1. set \in Some
    BY DEF Settings
  <2> QED BY <2>1 DEF Wr, StepSet, Writes
<1>2. Wr(at, "sysfs", << >>, fail) \in StepSet(d)
  BY DEF Wr, StepSet, RawWrites
<1> QED BY <1>1, <1>2

(* Nothing to do is a block.                                               *)
LEMMA NoBlock == ASSUME NEW d PROVE Block(d, << >>) /\ Len(<< >>) = 0
  BY EmptySeq DEF Block, Sound, StepSeq

(* One step alone, which needs nothing of temp.                            *)
LEMMA OneStep ==
  ASSUME NEW d, NEW s \in StepSet(d), Fresh(d, s), s.op \notin {"take", "give"}, Jump(s) \in {0, 99}
  PROVE  Block(d, << s >>) /\ Len(<< s >>) = 1
  BY DEF Block, Sound, StepSeq

(* A read to show a register.                                              *)
LEMMA GetBlock ==
  ASSUME NEW d, NEW at \in Place, NEW g \in Regs(d) \cup {"sysfs"}, NEW fail \in {End, Note, Skip(0)}
  PROVE  Block(d, << Get(at, g, fail) >>) /\ Len(<< Get(at, g, fail) >>) = 1
<1> DEFINE s == Get(at, g, fail)
<1>1. s.op = "get" /\ s.fail = fail
  BY DEF Get
<1>2. s \in StepSet(d)
  BY FailOutcomes, ReadMade
<1>3. Jump(s) \in {0, 99}
  BY <1>1, FailOutcomes DEF Jump, Reads
<1>4. Fresh(d, s)
  BY <1>1 DEF Fresh, Partial
<1> HIDE DEF s
<1>5. Block(d, << s >>) /\ Len(<< s >>) = 1
  BY <1>1, <1>2, <1>3, <1>4, OneStep
<1> QED BY <1>5 DEF s

(* A write of all the fields of a register.                                *)
LEMMA FullWriteBlock ==
  ASSUME NEW d, NEW at \in Place, NEW g \in Regs(d), NEW set \in Settings(d, g),
         DOMAIN set = Fields(d, g), NEW fail \in {End, Note, Skip(0)}
  PROVE  Block(d, << Wr(at, g, set, fail) >>) /\ Len(<< Wr(at, g, set, fail) >>) = 1
<1> DEFINE s == Wr(at, g, set, fail)
<1>1. s.op = "write" /\ s.fail = fail /\ s.set = set /\ s.reg = g
  BY DEF Wr
<1>2. s \in StepSet(d)
  BY FailOutcomes, WriteMade
<1>3. Jump(s) \in {0, 99}
  BY <1>1, FailOutcomes DEF Jump
<1>4. Fresh(d, s)
  BY <1>1 DEF Fresh, Partial
<1> HIDE DEF s
<1>5. Block(d, << s >>) /\ Len(<< s >>) = 1
  BY <1>1, <1>2, <1>3, <1>4, OneStep
<1> QED BY <1>5 DEF s

(* The raw accesses of reg and val.                                        *)
LEMMA RawBlocks ==
  ASSUME NEW d, NEW g \in Regs(d)
  PROVE  /\ Block(d, << Select(g) >>) /\ Len(<< Select(g) >>) = 1
         /\ Block(d, << Wr("R", "sysfs", << >>, Skip(0)) >>)
<1>1. Block(d, << Select(g) >>) /\ Len(<< Select(g) >>) = 1
  <2> DEFINE s == Select(g)
  <2>1. s \in StepSet(d) /\ s.op = "select"
    BY DEF Select, StepSet
  <2>2. Fresh(d, s) /\ Jump(s) = 0
    BY <2>1 DEF Fresh, Partial, Jump, Reads
  <2> HIDE DEF s
  <2>3. Block(d, << s >>) /\ Len(<< s >>) = 1
    BY <2>1, <2>2, OneStep
  <2> QED BY <2>3 DEF s
<1>2. Block(d, << Wr("R", "sysfs", << >>, Skip(0)) >>)
  <2> DEFINE s == Wr("R", "sysfs", << >>, Skip(0))
  <2>1. s.op = "write" /\ s.reg = "sysfs" /\ s.fail = Skip(0)
    BY DEF Wr
  <2>2. s \in StepSet(d)
    BY WriteMade, FailOutcomes DEF Place, Panel
  <2>3. Fresh(d, s) /\ Jump(s) = 0
    BY <2>1, FailOutcomes DEF Fresh, Partial, Jump, Reads
  <2> HIDE DEF s
  <2>4. Block(d, << s >>)
    BY <2>1, <2>2, <2>3, OneStep
  <2> QED BY <2>4 DEF s
<1> QED BY <1>1, <1>2

(* Read a register, write it with some of its fields replaced; the write   *)
(* may go to another panel.                                                *)
LEMMA ReadWriteBlock ==
  ASSUME NEW d, NEW at \in Place, NEW to \in Place, NEW g \in Regs(d), NEW set \in Settings(d, g),
         NEW lost \in {End, Skip(1)}, NEW fail \in {End, Skip(0)}
  PROVE  /\ Block(d, << Rd(at, g, lost), Wr(to, g, set, fail) >>)
         /\ Len(<< Rd(at, g, lost), Wr(to, g, set, fail) >>) = 2
<1> DEFINE r == Rd(at, g, lost)
           w == Wr(to, g, set, fail)
           q == << r, w >>
<1>1. r.op = "read" /\ r.reg = g /\ r.fail = lost /\ w.op = "write" /\ w.reg = g /\ w.fail = fail
  BY DEF Rd, Wr
<1>2. r \in StepSet(d) /\ w \in StepSet(d)
  BY FailOutcomes, ReadMade, WriteMade
<1>3. lost.skip \in {1, 99} /\ fail.skip \in {0, 99}
  BY FailOutcomes
<1>4. Jump(r) \in {1, 99} /\ Jump(w) \in {0, 99}
  BY <1>1, <1>3 DEF Jump, Reads
<1>5. Feeds(d, r, w) /\ Fresh(d, r)
  BY <1>1, <1>3 DEF Feeds, Fresh, Partial
<1> HIDE DEF r, w
<1>6. q \in Seq(StepSet(d)) /\ Len(q) = 2 /\ q[1] = r /\ q[2] = w
  BY <1>2
<1> HIDE DEF q
<1>7. \A i \in 1 .. Len(q) - 1 : Feeds(d, q[i], q[i + 1])
  BY <1>5, <1>6
<1>8. \A i \in 1 .. Len(q) : Jump(q[i]) > 0 => Jump(q[i]) = 99 \/ i + 1 + Jump(q[i]) = Len(q) + 1
  BY <1>4, <1>6
<1>9. \A i \in 1 .. Len(q) : q[i].op \notin {"take", "give"}
  BY <1>1, <1>6
<1>10. Sound(d, q)
  BY <1>6, <1>7, <1>8, <1>9 DEF Sound, StepSeq
<1> QED BY <1>5, <1>6, <1>10 DEF Block, q, r, w

(* Read, modify, write in an ioctl.                                        *)
LEMMA RmwBlock ==
  ASSUME NEW d, NEW p \in Panel, NEW g \in Regs(d), NEW set \in Settings(d, g)
  PROVE  /\ Block(d, Rmw(p, g, set)) /\ Len(Rmw(p, g, set)) = 2
         /\ Block(d, AttrRmw(p, g, set, 0)) /\ Len(AttrRmw(p, g, set, 0)) = 2
<1>1. p \in Place
  BY DEF Place
<1>2. Block(d, Rmw(p, g, set)) /\ Len(Rmw(p, g, set)) = 2
  BY <1>1, ReadWriteBlock DEF Rmw
<1>3. AttrRmw(p, g, set, 0) = << Rd(p, g, Skip(1)), Wr(p, g, set, Skip(0)) >>
  BY DEF AttrRmw
<1>4. Block(d, AttrRmw(p, g, set, 0)) /\ Len(AttrRmw(p, g, set, 0)) = 2
  BY <1>1, <1>3, ReadWriteBlock
<1> QED BY <1>2, <1>4

(* An attribute that goes on to a second register unless it cannot read    *)
(* the first.                                                              *)
LEMMA AttrPairBlock ==
  ASSUME NEW d, NEW p \in Panel, NEW g \in Regs(d), NEW s \in Settings(d, g),
         NEW h \in Regs(d), NEW u \in Settings(d, h),
         NEW r, r \in StepSet(d), r.op \in {"read", "readhv"}, r.reg = h, r.fail = Skip(1),
         r.op = "readhv" => g = "OFFSET" /\ h = "VO"
  PROVE  /\ Block(d, AttrRmw(p, g, s, 2) \o << r, Wr(p, h, u, Skip(0)) >>)
         /\ Len(AttrRmw(p, g, s, 2) \o << r, Wr(p, h, u, Skip(0)) >>) = 4
<1> DEFINE a == Rd(p, g, Skip(3))
           b == Wr(p, g, s, Skip(0))
           w == Wr(p, h, u, Skip(0))
           q == << a, b, r, w >>
<1>1. /\ a.op = "read" /\ a.reg = g /\ a.fail = Skip(3) /\ b.op = "write" /\ b.reg = g /\ b.fail = Skip(0)
      /\ w.op = "write" /\ w.reg = h /\ w.fail = Skip(0)
  BY DEF Rd, Wr
<1>2. p \in Place
  BY DEF Place
<1>3. a \in StepSet(d) /\ b \in StepSet(d) /\ w \in StepSet(d)
  BY <1>2, FailOutcomes, ReadMade, WriteMade
<1>4. Jump(a) = 3 /\ Jump(b) = 0 /\ Jump(r) = 1 /\ Jump(w) = 0
  BY <1>1, FailOutcomes DEF Jump, Reads
<1>5. Feeds(d, a, b) /\ Feeds(d, b, r) /\ Feeds(d, r, w) /\ Fresh(d, a)
  BY <1>1, FailOutcomes DEF Feeds, Fresh, Partial
<1>a. AttrRmw(p, g, s, 2) = << a, b >>
  BY DEF AttrRmw
<1> HIDE DEF a, b, w
<1>6. AttrRmw(p, g, s, 2) \o << r, w >> = q
  BY <1>3, <1>a, TwoPairs
<1>7. q \in Seq(StepSet(d)) /\ Len(q) = 4 /\ q[1] = a /\ q[2] = b /\ q[3] = r /\ q[4] = w
  BY <1>3
<1> HIDE DEF q
<1>8. \A i \in 1 .. Len(q) - 1 : Feeds(d, q[i], q[i + 1])
  BY <1>5, <1>7
<1>9. \A i \in 1 .. Len(q) : Jump(q[i]) > 0 => i + 1 + Jump(q[i]) = Len(q) + 1
  BY <1>4, <1>7
<1>10. \A i \in 1 .. Len(q) : q[i].op \notin {"take", "give"}
  BY <1>1, <1>7
<1>11. Sound(d, q)
  BY <1>7, <1>8, <1>9, <1>10 DEF Sound, StepSeq
<1> QED BY <1>5, <1>6, <1>7, <1>11 DEF Block, w

(* Two registers in an attribute, of which the second waits for the first. *)
LEMMA AttrTwoBlock ==
  ASSUME NEW d, NEW p \in Panel, NEW g \in Regs(d), NEW s \in Settings(d, g),
         NEW h \in Regs(d), NEW u \in Settings(d, h)
  PROVE  /\ Block(d, AttrRmw(p, g, s, 2) \o AttrRmw(p, h, u, 0))
         /\ Len(AttrRmw(p, g, s, 2) \o AttrRmw(p, h, u, 0)) = 4
<1> DEFINE r == Rd(p, h, Skip(1))
<1>1. r \in StepSet(d) /\ r.op = "read" /\ r.reg = h /\ r.fail = Skip(1)
  <2>1. p \in Place
    BY DEF Place
  <2>2. r \in StepSet(d)
    BY <2>1, FailOutcomes, ReadMade
  <2> QED BY <2>2 DEF Rd
<1>2. AttrRmw(p, h, u, 0) = << r, Wr(p, h, u, Skip(0)) >>
  BY DEF AttrRmw
<1> HIDE DEF r
<1>3. r.op \in {"read", "readhv"} /\ (r.op = "readhv" => g = "OFFSET" /\ h = "VO")
  BY <1>1
<1>4. /\ Block(d, AttrRmw(p, g, s, 2) \o << r, Wr(p, h, u, Skip(0)) >>)
      /\ Len(AttrRmw(p, g, s, 2) \o << r, Wr(p, h, u, Skip(0)) >>) = 4
  BY <1>1, <1>3, AttrPairBlock
<1> QED BY <1>2, <1>4

(* Ask a sensor of the JBD4040, if it is on.                               *)
LEMMA SensorBlock ==
  ASSUME NEW p \in Panel
  PROVE  /\ Block("jbd4040", << Rd(p, "PVT", Skip(2)), AskSensor, Get(p, "TEMP", Skip(0)) >>)
         /\ Len(<< Rd(p, "PVT", Skip(2)), AskSensor, Get(p, "TEMP", Skip(0)) >>) = 3
<1> DEFINE d == "jbd4040"
           a == Rd(p, "PVT", Skip(2))
           b == AskSensor
           g == Get(p, "TEMP", Skip(0))
           q == << a, b, g >>
<1>1. a.op = "read" /\ a.fail = Skip(2) /\ b.op = "ask" /\ g.op = "get" /\ g.fail = Skip(0)
  BY DEF Rd, Get, AskSensor
<1>2. a \in StepSet(d) /\ b \in StepSet(d) /\ g \in StepSet(d)
  <2>1. p \in Place /\ "PVT" \in Regs(d) /\ "TEMP" \in Regs(d)
    BY RegisterNames DEF Place
  <2>2. b \in StepSet(d)
    BY DEF AskSensor, StepSet
  <2>3. a \in StepSet(d) /\ g \in StepSet(d)
    BY <2>1, FailOutcomes, ReadMade
  <2> QED BY <2>2, <2>3
<1> HIDE DEF d
<1>3. Jump(a) = 2 /\ Jump(b) = 1 /\ Jump(g) = 0
  BY <1>1, FailOutcomes DEF Jump, Reads
<1>4. Feeds(d, a, b) /\ Feeds(d, b, g) /\ Fresh(d, a)
  BY <1>1 DEF Feeds, Fresh, Partial
<1> HIDE DEF a, b, g
<1>5. q \in Seq(StepSet(d)) /\ Len(q) = 3 /\ q[1] = a /\ q[2] = b /\ q[3] = g
  BY <1>2
<1> HIDE DEF q
<1>6. \A i \in 1 .. Len(q) - 1 : Feeds(d, q[i], q[i + 1])
  BY <1>4, <1>5
<1>7. \A i \in 1 .. Len(q) : Jump(q[i]) > 0 => i + 1 + Jump(q[i]) = Len(q) + 1
  BY <1>3, <1>5
<1>8. \A i \in 1 .. Len(q) : q[i].op \notin {"take", "give"}
  BY <1>1, <1>5
<1>9. Sound(d, q)
  BY <1>5, <1>6, <1>7, <1>8 DEF Sound, StepSeq
<1> QED BY <1>4, <1>5, <1>9 DEF Block, q, a, b, g, d

(* The same for each panel.                                                *)
Short(d, q) == Block(d, q) /\ Len(q) <= 8
Whole(d, q) == Block(d, q) /\ Len(q) <= 24

(* A block for each panel.                                                 *)
LEMMA ThreeBlocks ==
  ASSUME NEW d, NEW a, NEW b, NEW c, Short(d, a), Short(d, b), Short(d, c)
  PROVE  Whole(d, a \o b \o c)
<1> USE DEF Short, Whole
<1>1. Len(a) \in Nat /\ Len(b) \in Nat /\ Len(c) \in Nat
  BY LenProperties DEF Block, Sound, StepSeq
<1>2. Block(d, a \o b) /\ Len(a \o b) = Len(a) + Len(b)
  BY <1>1, BlockJoin
<1> DEFINE e == a \o b
<1>3. Block(d, e) /\ Len(e) \in Nat /\ Len(e) <= 16
  BY <1>1, <1>2
<1> HIDE DEF e
<1>4. Block(d, e \o c) /\ Len(e \o c) = Len(e) + Len(c)
  BY <1>1, <1>3, BlockJoin
<1> QED BY <1>1, <1>3, <1>4 DEF e

-----------------------------------------------------------------------------
(* The handlers.                                                           *)

(* What a handler of driver d is called with.                              *)
Requested(d, r) ==
  /\ d \in Driver /\ r.p \in Panel /\ r.ps \subseteq Panel /\ r.n \in Nat /\ r.en \in {0, 1} /\ r.short \in BOOLEAN
  /\ r.reg \in Regs(d)
  /\ r.name = "fps" => r.n <= 6
  /\ r.name = "tx" => r.n <= 65535

(* A request's numbers are numbers.                                        *)
LEMMA RequestParts ==
  ASSUME NEW d, NEW r, Requested(d, r), NEW p \in Panel
  PROVE  /\ Number(r, p) \in Nat /\ Vertical(r, p) \in Nat /\ MirrorBit(p, r.en) \in {0, 1} /\ p \in Place
<1>1. p \in {"R", "G", "B"}
  BY DEF Panel
<1>2. r.n \in Nat /\ r.en \in {0, 1}
  BY DEF Requested
<1>3. Number(r, p) \in Nat
  BY <1>1, <1>2 DEF Number
<1>4. Vertical(r, p) \in Nat
  BY <1>3 DEF Vertical
<1>5. MirrorBit(p, r.en) \in {0, 1} /\ p \in Place
  BY <1>2 DEF MirrorBit, Place
<1> QED BY <1>3, <1>4, <1>5

(* The places that a transfer can go to.                                   *)
LEMMA PanelNames == "R" \in Panel /\ "G" \in Panel /\ "B" \in Panel /\ "client" \in Place /\ "R" \in Place
  BY DEF Panel, Place

(* Blocks keep far from the 99 steps that End leaves out.                  *)
LEMMA FewSteps ==
  ASSUME NEW d, NEW q, Block(d, q), Len(q) \in {0, 1, 2, 3, 4}
  PROVE  Short(d, q) /\ Whole(d, q)
<1>1. \A n \in {0, 1, 2, 3, 4} : n <= 8 /\ n <= 24
  OBVIOUS
<1> QED BY <1>1, Zenon DEF Short, Whole

(* Short blocks one after the other.                                       *)
LEMMA ShortJoin ==
  ASSUME NEW d, NEW a, NEW b, Block(d, a), Block(d, b), Len(a) = 2, Len(b) = 2
  PROVE  Short(d, a \o b)
<1>1. Len(a) + Len(b) = 4 /\ Len(a) + Len(b) < 90
  OBVIOUS
<1>2. Block(d, a \o b) /\ Len(a \o b) = Len(a) + Len(b)
  BY <1>1, BlockJoin
<1> QED BY <1>1, <1>2 DEF Short

(* Reading a register of every panel.                                      *)
LEMMA GetsWhole ==
  ASSUME NEW d, NEW g \in Regs(d) \cup {"sysfs"}, NEW fail \in {End, Note, Skip(0)}
  PROVE  Whole(d, << Get("R", g, fail) >> \o << Get("G", g, fail) >> \o << Get("B", g, fail) >>)
<1>1. ASSUME NEW p \in Panel
      PROVE  Short(d, << Get(p, g, fail) >>)
  <2>1. p \in Place
    BY DEF Place
  <2>2. Block(d, << Get(p, g, fail) >>) /\ Len(<< Get(p, g, fail) >>) = 1
    BY <2>1, GetBlock
  <2> QED BY <2>2 DEF Short
<1> QED BY <1>1, PanelNames, ThreeBlocks

(* The commands that read, ...                                             *)
LEMMA GetCommands ==
  /\ Whole("jbd4020", LuminGet) /\ Whole("jbd4020", CurrentGet) /\ Whole("jbd4020", TempRead)
  /\ Whole("jbd4020", FlipGet) /\ Whole("jbd4020", MirrorGet) /\ Whole("jbd4020", OffsetGet)
<1> DEFINE d == "jbd4020"
<1>1. "LUM" \in Regs(d) /\ "CUR" \in Regs(d) /\ "TEMP" \in Regs(d) /\ "FLIP" \in Regs(d) /\ "VO" \in Regs(d)
  BY RegisterNames
<1> HIDE DEF d
<1>2. LuminGet = << Get("R", "LUM", Note) >> \o << Get("G", "LUM", Note) >> \o << Get("B", "LUM", Note) >>
  BY DEF LuminGet, PerPanel
<1>3. CurrentGet = << Get("R", "CUR", End) >> \o << Get("G", "CUR", End) >> \o << Get("B", "CUR", End) >>
  BY DEF CurrentGet, PerPanel
<1>4. TempRead = << Get("R", "TEMP", End) >> \o << Get("G", "TEMP", End) >> \o << Get("B", "TEMP", End) >>
  BY DEF TempRead, PerPanel
<1>5. OffsetGet = << Get("R", "VO", End) >> \o << Get("G", "VO", End) >> \o << Get("B", "VO", End) >>
  BY DEF OffsetGet, PerPanel
<1>6. Block(d, << Get("R", "FLIP", End) >>) /\ Len(<< Get("R", "FLIP", End) >>) = 1
  BY <1>1, PanelNames, GetBlock
<1>7. Whole(d, FlipGet) /\ Whole(d, MirrorGet)
  BY <1>6 DEF FlipGet, MirrorGet, Whole
<1>8. Whole(d, LuminGet) /\ Whole(d, CurrentGet) /\ Whole(d, TempRead) /\ Whole(d, OffsetGet)
  BY <1>1, <1>2, <1>3, <1>4, <1>5, GetsWhole
<1> QED BY <1>7, <1>8 DEF d

(* ... and those that write.                                               *)
LEMMA SetCommands ==
  ASSUME NEW r, Requested("jbd4020", r)
  PROVE  /\ Whole("jbd4020", LuminSet(r)) /\ Whole("jbd4020", CurrentSet(r))
         /\ Whole("jbd4020", FlipSet(r)) /\ Whole("jbd4020", MirrorSet(r)) /\ Whole("jbd4020", OffsetSet(r))
<1> DEFINE d == "jbd4020"
<1>1. /\ "LUM" \in Regs(d) /\ "CUR" \in Regs(d) /\ "FLIP" \in Regs(d) /\ "OFFSET" \in Regs(d) /\ "VO" \in Regs(d)
      /\ d \in Driver /\ Requested(d, r) /\ d = "jbd4020"
  BY RegisterNames DEF Driver
<1> HIDE DEF d
<1>2. r.en \in {0, 1}
  BY DEF Requested
<1>3. Whole(d, LuminSet(r))
  <2> DEFINE X(p) == Rmw(p, "LUM", [val |-> Number(r, p) % 8192])
  <2>1. LuminSet(r) = X("R") \o X("G") \o X("B")
    BY DEF LuminSet, PerPanel
  <2>2. ASSUME NEW p \in Panel
        PROVE  Short(d, X(p))
    <3>a. Number(r, p) \in Nat
      BY <1>1, RequestParts
    <3>1. [val |-> Number(r, p) % 8192] \in Settings(d, "LUM")
      BY <3>a, <1>1, LuminSetting
    <3>2. Block(d, X(p)) /\ Len(X(p)) = 2
      BY <1>1, <3>1, RmwBlock
    <3> HIDE DEF X
    <3> QED BY <3>2 DEF Short
  <2> HIDE DEF X
  <2> QED BY <2>1, <2>2, PanelNames, ThreeBlocks
<1>4. Whole(d, CurrentSet(r))
  <2> DEFINE X(p) == Rmw(p, "CUR", [val |-> Number(r, p) % 256])
  <2>1. CurrentSet(r) = X("R") \o X("G") \o X("B")
    BY DEF CurrentSet, PerPanel
  <2>2. ASSUME NEW p \in Panel
        PROVE  Short(d, X(p))
    <3>a. Number(r, p) \in Nat
      BY RequestParts
    <3>1. [val |-> Number(r, p) % 256] \in Settings(d, "CUR")
      BY <3>a, <1>1, CurrentSetting
    <3>2. Block(d, X(p)) /\ Len(X(p)) = 2
      BY <1>1, <3>1, RmwBlock
    <3> HIDE DEF X
    <3> QED BY <3>2 DEF Short
  <2> HIDE DEF X
  <2> QED BY <2>1, <2>2, PanelNames, ThreeBlocks
<1>5. ASSUME NEW p \in Panel, NEW g \in Regs(d), NEW s \in Settings(d, g), NEW h \in Regs(d), NEW u \in Settings(d, h)
      PROVE  Short(d, Rmw(p, g, s) \o Rmw(p, h, u))
  <2>1. Block(d, Rmw(p, g, s)) /\ Len(Rmw(p, g, s)) = 2 /\ Block(d, Rmw(p, h, u)) /\ Len(Rmw(p, h, u)) = 2
    BY RmwBlock
  <2> QED BY <2>1, ShortJoin
<1>6. Whole(d, FlipSet(r))
  <2> DEFINE X(p) == Rmw(p, "FLIP", [flip |-> r.en]) \o Rmw(p, "VO", [flip |-> r.en])
  <2>1. FlipSet(r) = X("R") \o X("G") \o X("B")
    BY DEF FlipSet, PerPanel
  <2>2. [flip |-> r.en] \in Settings(d, "FLIP") /\ [flip |-> r.en] \in Settings(d, "VO")
    BY <1>1, <1>2, SwitchSettings, SwitchSettings4020
  <2>3. \A p \in Panel : Short(d, X(p))
    BY <2>2, <1>1, <1>5
  <2> HIDE DEF X
  <2> QED BY <2>1, <2>3, PanelNames, ThreeBlocks
<1>7. Whole(d, MirrorSet(r))
  <2> DEFINE bit(p) == [mirror |-> MirrorBit(p, r.en)]
             X(p) == Rmw(p, "FLIP", bit(p)) \o Rmw(p, "VO", bit(p))
  <2>1. MirrorSet(r) = X("R") \o X("G") \o X("B")
    BY DEF MirrorSet, PerPanel
  <2>2. ASSUME NEW p \in Panel
        PROVE  bit(p) \in Settings(d, "FLIP") /\ bit(p) \in Settings(d, "VO")
    BY <1>1, RequestParts, SwitchSettings, SwitchSettings4020
  <2>3. \A p \in Panel : Short(d, X(p))
    <3> HIDE DEF bit
    <3> QED BY <2>2, <1>1, <1>5
  <2> HIDE DEF X
  <2> QED BY <2>1, <2>3, PanelNames, ThreeBlocks
<1>8. Whole(d, OffsetSet(r))
  <2> DEFINE hv(p) == [en |-> 1, h |-> Number(r, p) % 32, v |-> Vertical(r, p) % 32]
             s(p) == IF r.en = 1 THEN hv(p) ELSE [en |-> 0]
             u(p) == IF r.en = 1 THEN hv(p) ELSE [flip |-> 0, mirror |-> 0, h |-> 0, v |-> 0]
             Y(p, to) == << Rd(p, "VO", End), Wr(to, "VO", u(p), End) >>
             X(p, to) == Rmw(p, "OFFSET", s(p)) \o Y(p, to)
  <2>1. OffsetSet(r) = X("R", "R") \o X("G", "G") \o X("B", "R")
    BY DEF OffsetSet, PerPanel
  <2>2. ASSUME NEW p \in Panel
        PROVE  s(p) \in Settings(d, "OFFSET") /\ u(p) \in Settings(d, "VO")
    <3>1. Number(r, p) \in Nat /\ Vertical(r, p) \in Nat
      BY RequestParts
    <3>2. hv(p) \in Settings(d, "OFFSET") /\ hv(p) \in Settings(d, "VO")
      BY <3>1, <1>1, OffsetSettings4020
    <3>3. [en |-> 0] \in Settings(d, "OFFSET") /\ [flip |-> 0, mirror |-> 0, h |-> 0, v |-> 0] \in Settings(d, "VO")
      BY <3>1, <1>1, SwitchSettings4020, OffsetSettings4020
    <3> QED BY <3>2, <3>3
  <2> HIDE DEF s, u
  <2>3. ASSUME NEW p \in Panel, NEW to \in Panel
        PROVE  Short(d, X(p, to))
    <3>1. Block(d, Rmw(p, "OFFSET", s(p))) /\ Len(Rmw(p, "OFFSET", s(p))) = 2
      BY <2>2, <1>1, RmwBlock
    <3>2. p \in Place /\ to \in Place
      BY DEF Place
    <3>3. Block(d, Y(p, to)) /\ Len(Y(p, to)) = 2
      BY <2>2, <3>2, <1>1, ReadWriteBlock
    <3> HIDE DEF Y
    <3> QED BY <3>1, <3>3, ShortJoin
  <2> HIDE DEF X
  <2> QED BY <2>1, <2>3, PanelNames, ThreeBlocks
<1> QED BY <1>3, <1>4, <1>6, <1>7, <1>8 DEF d

(* The commands and attributes of both drivers.                            *)
LEMMA SharedHandlers ==
  ASSUME NEW d, NEW r, Requested(d, r)
  PROVE  /\ Whole(d, ReadReg(r)) /\ Whole(d, WriteReg(d, r)) /\ Whole(d, RegStore(r))
         /\ Whole(d, ValShow) /\ Whole(d, ValStore)
         /\ \A g \in Regs(d) : Whole(d, ShowColours(g))
<1>1. d \in Driver /\ r.reg \in Regs(d) /\ r.p \in Panel /\ "LUM" \in Regs(d)
  BY SharedWidths DEF Requested
<1>2. Whole(d, ReadReg(r)) /\ Whole(d, ValShow)
  <2>1. ASSUME NEW g \in Regs(d) \cup {"sysfs"}, NEW fail \in {End, Skip(0)}
        PROVE  Block(d, << Get("R", g, fail) >>) /\ Len(<< Get("R", g, fail) >>) = 1
    BY PanelNames, GetBlock
  <2>2. Whole(d, << Get("R", r.reg, End) >>) /\ Whole(d, << Get("R", "sysfs", Skip(0)) >>)
    BY <2>1, <1>1, FewSteps
  <2> QED BY <2>2 DEF ReadReg, ValShow
<1>3. Whole(d, WriteReg(d, r))
  <2> DEFINE x == [f \in DOMAIN Width[d][r.reg] |-> 0]
  <2>1. x \in Settings(d, r.reg) /\ DOMAIN x = Fields(d, r.reg)
    BY <1>1, ZeroSetting DEF Fields
  <2> HIDE DEF x
  <2>2. Block(d, << Wr("R", r.reg, x, End) >>) /\ Len(<< Wr("R", r.reg, x, End) >>) = 1
    BY <2>1, <1>1, PanelNames, FullWriteBlock
  <2> QED BY <2>2 DEF WriteReg, Whole, x
<1>4. Whole(d, RegStore(r)) /\ Whole(d, ValStore)
  BY <1>1, RawBlocks DEF RegStore, ValStore, Whole
<1>5. ASSUME NEW g \in Regs(d)
      PROVE  Whole(d, ShowColours(g))
  <2>1. ShowColours(g) = << Get("R", g, End) >> \o << Get("G", g, End) >> \o << Get("B", g, End) >>
    BY DEF ShowColours, PerPanel
  <2> QED BY <2>1, GetsWhole
<1> QED BY <1>2, <1>3, <1>4, <1>5

(* The attributes of the JBD4020 that write.                               *)
LEMMA Stores4020 ==
  ASSUME NEW r, Requested("jbd4020", r)
  PROVE  /\ Whole("jbd4020", Store4020Luminance(r)) /\ Whole("jbd4020", Store4020Current(r))
         /\ Whole("jbd4020", Store4020Flip(r)) /\ Whole("jbd4020", Store4020Mirror(r))
         /\ Whole("jbd4020", Store4020Offset(r))
<1> DEFINE d == "jbd4020"
<1>1. /\ "LUM" \in Regs(d) /\ "CUR" \in Regs(d) /\ "FLIP" \in Regs(d) /\ "OFFSET" \in Regs(d) /\ "VO" \in Regs(d)
      /\ d \in Driver /\ Requested(d, r) /\ d = "jbd4020" /\ r.en \in {0, 1} /\ r.p \in Panel
  BY RegisterNames DEF Driver, Requested
<1> HIDE DEF d
<1>2. Whole(d, Store4020Current(r))
  <2>1. Number(r, r.p) \in Nat
    BY <1>1, RequestParts
  <2>2. [val |-> Number(r, r.p) % 256] \in Settings(d, "CUR")
    BY <2>1, <1>1, CurrentSetting
  <2>3. Block(d, Store4020Current(r)) /\ Len(Store4020Current(r)) = 2
    BY <2>2, <1>1, RmwBlock DEF Store4020Current
  <2> QED BY <2>3 DEF Whole
<1>3. Whole(d, Store4020Flip(r))
  <2> DEFINE X(p) == AttrRmw(p, "FLIP", [flip |-> r.en], 2) \o AttrRmw(p, "VO", [flip |-> r.en], 0)
  <2>1. Store4020Flip(r) = X("R") \o X("G") \o X("B")
    BY DEF Store4020Flip, PerPanel
  <2>2. [flip |-> r.en] \in Settings(d, "FLIP") /\ [flip |-> r.en] \in Settings(d, "VO")
    BY <1>1, SwitchSettings, SwitchSettings4020
  <2>3. ASSUME NEW p \in Panel
        PROVE  Block(d, X(p)) /\ Len(X(p)) = 4
    BY <2>2, <1>1, AttrTwoBlock
  <2> HIDE DEF X
  <2>4. \A p \in Panel : Short(d, X(p))
    BY <2>3, FewSteps
  <2> QED BY <2>1, <2>4, PanelNames, ThreeBlocks
<1>4. Whole(d, Store4020Mirror(r))
  <2> DEFINE bit(p) == [mirror |-> MirrorBit(p, r.en)]
             X(p) == AttrRmw(p, "FLIP", bit(p), 2) \o AttrRmw(p, "VO", bit(p), 0)
  <2>1. Store4020Mirror(r) = X("R") \o X("G") \o X("B")
    BY DEF Store4020Mirror, PerPanel
  <2>2. ASSUME NEW p \in Panel
        PROVE  bit(p) \in Settings(d, "FLIP") /\ bit(p) \in Settings(d, "VO")
    BY <1>1, RequestParts, SwitchSettings, SwitchSettings4020
  <2> HIDE DEF bit
  <2>3. ASSUME NEW p \in Panel
        PROVE  Block(d, X(p)) /\ Len(X(p)) = 4
    BY <2>2, <1>1, AttrTwoBlock
  <2> HIDE DEF X
  <2>4. \A p \in Panel : Short(d, X(p))
    BY <2>3, FewSteps
  <2> QED BY <2>1, <2>4, PanelNames, ThreeBlocks
<1>5. Whole(d, Store4020Offset(r))
  <2> DEFINE s == IF r.en = 0 \/ r.short THEN [en |-> r.en]
                  ELSE [en |-> 1, h |-> Number(r, r.p) % 32, v |-> Vertical(r, r.p) % 32]
             u == [en |-> r.en]
             rd == [Rd(r.p, "VO", Skip(1)) EXCEPT !.op = "readhv"]
             q == AttrRmw(r.p, "OFFSET", s, 2) \o << rd, Wr(r.p, "VO", u, Skip(0)) >>
  <2>1. Number(r, r.p) \in Nat /\ Vertical(r, r.p) \in Nat /\ r.p \in Place
    BY <1>1, RequestParts
  <2>2. u \in Settings(d, "OFFSET") /\ u \in Settings(d, "VO")
    BY <1>1, SwitchSettings4020
  <2>3. s \in Settings(d, "OFFSET")
    <3>1. [en |-> 1, h |-> Number(r, r.p) % 32, v |-> Vertical(r, r.p) % 32] \in Settings(d, "OFFSET")
      BY <1>1, <2>1, OffsetSettings4020
    <3> QED BY <3>1, <2>2
  <2>4. rd \in StepSet(d)
    BY <1>1, <2>1, FailOutcomes, ReadMade
  <2>5. rd.op = "readhv" /\ rd.reg = "VO" /\ rd.fail = Skip(1)
    BY DEF Rd
  <2>6. Store4020Offset(r) = q
    BY DEF Store4020Offset
  <2> HIDE DEF s, u, rd
  <2>7. Block(d, q) /\ Len(q) = 4
    BY <1>1, <2>2, <2>3, <2>4, <2>5, AttrPairBlock
  <2> HIDE DEF q
  <2> QED BY <2>6, <2>7 DEF Whole
<1>6. Whole(d, Store4020Luminance(r))
  <2>1. Number(r, r.p) \in Nat
    BY <1>1, RequestParts
  <2>2. [val |-> Number(r, r.p) % 8192] \in Settings(d, "LUM")
    BY <2>1, <1>1, LuminSetting
  <2>3. Block(d, Store4020Luminance(r)) /\ Len(Store4020Luminance(r)) = 2
    BY <2>2, <1>1, RmwBlock DEF Store4020Luminance
  <2> QED BY <2>3 DEF Whole
<1> QED BY <1>2, <1>3, <1>4, <1>5, <1>6 DEF d

(* The attributes of the JBD4040, but fps.                                 *)
LEMMA Stores4040 ==
  ASSUME NEW r, Requested("jbd4040", r)
  PROVE  /\ Whole("jbd4040", Store4040Luminance(r))
         /\ Whole("jbd4040", Store4040Current(r)) /\ Whole("jbd4040", Store4040Flip(r))
         /\ Whole("jbd4040", Store4040Mirror(r)) /\ Whole("jbd4040", Store4040Offset(r))
         /\ r.name = "tx" => Whole("jbd4040", Store4040TxTiming(r))
         /\ Block("jbd4040", Show4040Temperature)
<1> DEFINE d == "jbd4040"
<1>1. /\ "LUM" \in Regs(d) /\ "CUR" \in Regs(d) /\ "FLIP" \in Regs(d) /\ "OFFSET" \in Regs(d)
      /\ "TX" \in Regs(d) /\ "PVT" \in Regs(d)
      /\ d \in Driver /\ Requested(d, r) /\ d = "jbd4040" /\ r.en \in {0, 1}
  BY RegisterNames DEF Driver, Requested
<1>2. ASSUME NEW p \in Panel
      PROVE  Number(r, p) \in Nat /\ Vertical(r, p) \in Nat /\ p \in Place
  BY <1>1, RequestParts
<1>e. Short(d, << >>)
  BY NoBlock, FewSteps
<1> HIDE DEF d
<1>3. Whole(d, Store4040Current(r))
  <2> DEFINE x(p) == [val |-> Number(r, p) % 256, rest |-> (Number(r, p) \div 256) % 256]
             w(p) == << Wr(p, "CUR", x(p), Skip(0)) >>
             X(p) == IF p \in r.ps THEN w(p) ELSE << >>
  <2>1. Store4040Current(r) = X("R") \o X("G") \o X("B")
    BY DEF Store4040Current, PerNamed, PerPanel
  <2>2. ASSUME NEW p \in Panel
        PROVE  Short(d, X(p))
    <3>1. x(p) \in Settings(d, "CUR")
      BY <1>1, <1>2, CurrentSetting4040
    <3>2. DOMAIN x(p) = Fields(d, "CUR")
      BY <1>1, SharedWidths
    <3> HIDE DEF x
    <3>3. Block(d, w(p)) /\ Len(w(p)) = 1
      BY <3>1, <3>2, <1>1, <1>2, FullWriteBlock
    <3> HIDE DEF w
    <3>4. Short(d, w(p))
      BY <3>3, FewSteps
    <3> QED BY <3>4, <1>e
  <2> HIDE DEF X
  <2> QED BY <2>1, <2>2, PanelNames, ThreeBlocks
<1>4. Whole(d, Store4040Flip(r))
  <2> DEFINE X(p) == AttrRmw(p, "FLIP", [flip |-> r.en], 0)
  <2>1. Store4040Flip(r) = X("R") \o X("G") \o X("B")
    BY DEF Store4040Flip, PerPanel
  <2>2. [flip |-> r.en] \in Settings(d, "FLIP")
    BY <1>1, SwitchSettings
  <2>3. ASSUME NEW p \in Panel
        PROVE  Block(d, X(p)) /\ Len(X(p)) = 2
    BY <2>2, <1>1, RmwBlock
  <2> HIDE DEF X
  <2>4. \A p \in Panel : Short(d, X(p))
    BY <2>3, FewSteps
  <2> QED BY <2>1, <2>4, PanelNames, ThreeBlocks
<1>5. Whole(d, Store4040Mirror(r))
  <2> DEFINE bit(p) == [mirror |-> MirrorBit(p, r.en)]
             X(p) == AttrRmw(p, "FLIP", bit(p), 0)
  <2>1. Store4040Mirror(r) = X("R") \o X("G") \o X("B")
    BY DEF Store4040Mirror, PerPanel
  <2>2. ASSUME NEW p \in Panel
        PROVE  bit(p) \in Settings(d, "FLIP")
    BY <1>1, RequestParts, SwitchSettings
  <2> HIDE DEF bit
  <2>3. ASSUME NEW p \in Panel
        PROVE  Block(d, X(p)) /\ Len(X(p)) = 2
    BY <2>2, <1>1, RmwBlock
  <2> HIDE DEF X
  <2>4. \A p \in Panel : Short(d, X(p))
    BY <2>3, FewSteps
  <2> QED BY <2>1, <2>4, PanelNames, ThreeBlocks
<1>6. Whole(d, Store4040Offset(r))
  <2> DEFINE x(p) == [h |-> Number(r, p) % 32, v |-> Vertical(r, p) % 32]
             w(p) == << Wr(p, "OFFSET", x(p), Skip(0)) >>
             X(p) == IF p \in r.ps THEN IF r.en = 0 \/ r.short THEN << >> ELSE w(p) ELSE << >>
  <2>1. Store4040Offset(r) = X("R") \o X("G") \o X("B")
    BY DEF Store4040Offset, PerNamed, PerPanel
  <2>2. ASSUME NEW p \in Panel
        PROVE  Short(d, X(p))
    <3>1. x(p) \in Settings(d, "OFFSET")
      BY <1>1, <1>2, OffsetSetting4040
    <3>2. DOMAIN x(p) = Fields(d, "OFFSET")
      BY <1>1, Widths4040
    <3> HIDE DEF x
    <3>3. Block(d, w(p)) /\ Len(w(p)) = 1
      BY <3>1, <3>2, <1>1, <1>2, FullWriteBlock
    <3> HIDE DEF w
    <3>4. Short(d, w(p))
      BY <3>3, FewSteps
    <3> QED BY <3>4, <1>e
  <2> HIDE DEF X
  <2> QED BY <2>1, <2>2, PanelNames, ThreeBlocks
<1>7. ASSUME r.name = "tx"
      PROVE  Whole(d, Store4040TxTiming(r))
  <2>1. r.n \in Nat /\ r.n <= 65535
    BY <1>7 DEF Requested
  <2>2. [val |-> r.n] \in Settings(d, "TX") /\ DOMAIN [val |-> r.n] = Fields(d, "TX")
    BY <1>1, <2>1, TxSetting, Widths4040
  <2>3. Block(d, << Wr("client", "TX", [val |-> r.n], Skip(0)) >>) /\ Len(<< Wr("client", "TX", [val |-> r.n], Skip(0)) >>) = 1
    BY <2>2, <1>1, PanelNames, FullWriteBlock
  <2> QED BY <2>3 DEF Whole, Store4040TxTiming
<1>8. Block(d, Show4040Temperature)
  <2> DEFINE Start(p) == << Wr(p, "PVT", [ctl |-> 3], Skip(0)) >>
             Ask(p) == << Rd(p, "PVT", Skip(2)), AskSensor, Get(p, "TEMP", Skip(0)) >>
             Stop(p) == << Wr(p, "PVT", [ctl |-> 0], Skip(0)) >>
  <2>1. Show4040Temperature = (Start("R") \o Start("G") \o Start("B")) \o (Ask("R") \o Ask("G") \o Ask("B"))
                              \o (Stop("R") \o Stop("G") \o Stop("B"))
    BY DEF Show4040Temperature, PerPanel
  <2>2. \A c \in {0, 3} : [ctl |-> c] \in Settings(d, "PVT") /\ DOMAIN [ctl |-> c] = Fields(d, "PVT")
    BY <1>1, SensorSetting
  <2>3. ASSUME NEW p \in Panel, NEW c \in {0, 3}
        PROVE  Short(d, << Wr(p, "PVT", [ctl |-> c], Skip(0)) >>)
    <3>1. p \in Place
      BY DEF Place
    <3> DEFINE w == << Wr(p, "PVT", [ctl |-> c], Skip(0)) >>
    <3>2. Block(d, w) /\ Len(w) = 1
      BY <3>1, <2>2, <1>1, FullWriteBlock
    <3> HIDE DEF w
    <3>3. Short(d, w)
      BY <3>2, FewSteps
    <3> QED BY <3>3 DEF w
  <2>4. ASSUME NEW p \in Panel
        PROVE  Short(d, Start(p)) /\ Short(d, Stop(p))
    BY <2>3
  <2>5. ASSUME NEW p \in Panel
        PROVE  Short(d, Ask(p))
    <3>1. Block(d, Ask(p)) /\ Len(Ask(p)) = 3
      BY <1>1, SensorBlock
    <3> HIDE DEF Ask
    <3> QED BY <3>1, FewSteps
  <2> HIDE DEF Start, Stop, Ask
  <2> DEFINE a == Start("R") \o Start("G") \o Start("B")
             b == Ask("R") \o Ask("G") \o Ask("B")
             c == Stop("R") \o Stop("G") \o Stop("B")
  <2>6. Whole(d, a) /\ Whole(d, b) /\ Whole(d, c)
    BY <2>4, <2>5, PanelNames, ThreeBlocks
  <2> HIDE DEF a, b, c
  <2>7. Len(a) \in Nat /\ Len(b) \in Nat /\ Len(c) \in Nat
    BY <2>6, LenProperties DEF Whole, Block, Sound, StepSeq
  <2> DEFINE e == a \o b
  <2>8. Len(a) + Len(b) < 90 /\ Len(a) + Len(b) <= 48
    BY <2>6, <2>7 DEF Whole
  <2>9. Block(d, e) /\ Len(e) = Len(a) + Len(b)
    BY <2>6, <2>8, BlockJoin DEF Whole
  <2> HIDE DEF e
  <2>10. Len(e) + Len(c) < 90 /\ Len(e) + Len(c) <= 72
    BY <2>6, <2>7, <2>8, <2>9 DEF Whole
  <2>11. Block(d, e \o c) /\ Len(e \o c) = Len(e) + Len(c)
    BY <2>6, <2>9, <2>10, BlockJoin DEF Whole
  <2>12. Block(d, Show4040Temperature)
    BY <2>1, <2>11 DEF e, a, b, c
  <2> QED BY <2>12
<1>9. Whole(d, Store4040Luminance(r))
  <2> DEFINE x(p) == [val |-> Number(r, p) % 8192]
             w(p) == AttrRmw(p, "LUM", x(p), 0)
             X(p) == IF p \in r.ps THEN w(p) ELSE << >>
  <2>1. Store4040Luminance(r) = X("R") \o X("G") \o X("B")
    BY DEF Store4040Luminance, PerNamed, PerPanel
  <2>2. ASSUME NEW p \in Panel
        PROVE  Short(d, X(p))
    <3>1. x(p) \in Settings(d, "LUM")
      BY <1>1, <1>2, LuminSetting
    <3> HIDE DEF x
    <3>2. Block(d, w(p)) /\ Len(w(p)) = 2
      BY <3>1, <1>1, RmwBlock
    <3> HIDE DEF w
    <3>3. Short(d, w(p))
      BY <3>2, FewSteps
    <3> QED BY <3>3, <1>e
  <2> HIDE DEF X
  <2> QED BY <2>1, <2>2, PanelNames, ThreeBlocks
<1> QED BY <1>3, <1>4, <1>5, <1>6, <1>7, <1>8, <1>9 DEF d

(* A request of a scenario.                                                *)
LEMMA ScenarioRequest ==
  ASSUME scen \in Scenarios, NEW r \in scen.requests
  PROVE  /\ Requested(Drv, r) /\ Drv \in Driver
         /\ \/ r.by = "ioctl" /\ r.name \in Ioctls
            \/ r.by = "show" /\ r.name \in Shows(Drv)
            \/ r.by = "store" /\ r.name \in Stores(Drv)
  BY ScenariosAssumption, RequestsAssumption DEF Requested, Driver, Drv

(* Every ioctl runs a block ...                                            *)
LEMMA IoctlBlock ==
  ASSUME NEW d, NEW r, Requested(d, r), r.by = "ioctl", r.name \in Ioctls
  PROVE  Block(d, IoctlSteps(d, r))
<1>1. CASE r.name \in {"READ_REG", "WRITE_REG"}
  <2>1. Block(d, ReadReg(r)) /\ Block(d, WriteReg(d, r))
    BY SharedHandlers DEF Whole
  <2>2. ~ Stub(d, r)
    BY <1>1 DEF Stub, Commands
  <2> QED BY <1>1, <2>1, <2>2 DEF IoctlSteps
<1>2. CASE Stub(d, r)
  BY <1>2, NoBlock DEF IoctlSteps
<1>3. CASE r.name \notin {"READ_REG", "WRITE_REG"} /\ ~ Stub(d, r)
  <2>1. /\ d = "jbd4020"
        /\ r.name \in {"LUMIN_GET", "LUMIN_SET", "CURRENT_GET", "CURRENT_SET", "TEMP_READ", "FLIP_GET",
                       "FLIP_SET", "MIRROR_GET", "MIRROR_SET", "OFFSET_GET", "OFFSET_SET"}
    BY <1>3 DEF Ioctls, Commands, Stub, Requested, Driver
  <2>2. /\ Block(d, LuminGet) /\ Block(d, CurrentGet) /\ Block(d, TempRead)
        /\ Block(d, FlipGet) /\ Block(d, MirrorGet) /\ Block(d, OffsetGet)
    BY <2>1, GetCommands DEF Whole
  <2>3. /\ Block(d, LuminSet(r)) /\ Block(d, CurrentSet(r)) /\ Block(d, FlipSet(r))
        /\ Block(d, MirrorSet(r)) /\ Block(d, OffsetSet(r))
    BY <2>1, SetCommands DEF Whole
  <2> QED BY <1>3, <2>1, <2>2, <2>3 DEF IoctlSteps
<1> QED BY <1>1, <1>2, <1>3

(* ... every show handler does ...                                         *)
LEMMA ShowBlock ==
  ASSUME NEW d, NEW r, Requested(d, r), r.name \in Shows(d)
  PROVE  Block(d, ShowSteps(d, r))
<1>1. d \in Driver
  BY DEF Requested
<1>2. \A g \in Regs(d) : Block(d, ShowColours(g))
  BY SharedHandlers DEF Whole
<1>3. /\ Block(d, ShowColours("LUM")) /\ Block(d, ShowColours("CUR")) /\ Block(d, ShowColours("TEMP"))
      /\ Block(d, ShowColours("FLIP")) /\ Block(d, ShowColours("OFFSET"))
  BY <1>1, <1>2, SharedWidths
<1>4. Block(d, ValShow)
  BY SharedHandlers DEF Whole
<1>5. CASE d = "jbd4020"
  <2>1. Block(d, ShowFlip(d))
    BY <1>5, GetCommands DEF FlipGet, ShowFlip, Whole
  <2>2. r.name \in {"luminance", "current", "temperature", "flip", "mirror", "offset", "val"}
    BY <1>5 DEF Shows
  <2> QED BY <1>3, <1>4, <1>5, <2>1, <2>2 DEF ShowSteps
<1>6. CASE d = "jbd4040"
  <2>1. Block(d, ShowFlip(d))
    BY <1>3, <1>6 DEF ShowFlip
  <2>2. r.name \in {"luminance", "current", "temperature", "flip", "mirror", "offset", "val", "fps"}
    BY <1>6 DEF Shows
  <2>3. Block(d, ShowFps)
    BY <1>6, RegisterNames, PanelNames, GetBlock DEF ShowFps
  <2>4. Block(d, Show4040Temperature)
    BY <1>6, Stores4040
  <2> QED BY <1>3, <1>4, <1>6, <2>1, <2>2, <2>3, <2>4 DEF ShowSteps
<1> QED BY <1>1, <1>5, <1>6 DEF Driver

(* ... and every store handler but store_fps.                              *)
LEMMA StoreBlock ==
  ASSUME NEW d, NEW r, Requested(d, r), r.name \in Stores(d), r.name # "fps"
  PROVE  Block(d, StoreSteps(d, r))
<1>1. d \in Driver
  BY DEF Requested
<1>2. Block(d, RegStore(r)) /\ Block(d, ValStore)
  BY SharedHandlers DEF Whole
<1>3. CASE d = "jbd4020"
  <2>1. r.name \in {"luminance", "current", "flip", "mirror", "offset", "reg", "val"}
    BY <1>3 DEF Stores
  <2>2. /\ Block(d, Store4020Luminance(r)) /\ Block(d, Store4020Current(r)) /\ Block(d, Store4020Flip(r))
        /\ Block(d, Store4020Mirror(r)) /\ Block(d, Store4020Offset(r))
    BY <1>3, Stores4020 DEF Whole
  <2> QED BY <1>2, <1>3, <2>1, <2>2 DEF StoreSteps
<1>4. CASE d = "jbd4040"
  <2>1. r.name \in {"luminance", "current", "flip", "mirror", "offset", "reg", "val", "tx"}
    BY <1>4 DEF Stores
  <2>2. /\ Block(d, Store4040Luminance(r)) /\ Block(d, Store4040Current(r)) /\ Block(d, Store4040Flip(r))
        /\ Block(d, Store4040Mirror(r)) /\ Block(d, Store4040Offset(r))
        /\ r.name = "tx" => Block(d, Store4040TxTiming(r))
    BY <1>4, Stores4040 DEF Whole
  <2> QED BY <1>2, <1>4, <2>1, <2>2 DEF StoreSteps
<1> QED BY <1>1, <1>3, <1>4 DEF Driver

(* Every handler but store_fps is a block.                                 *)
LEMMA HandlerBlock ==
  ASSUME scen \in Scenarios, NEW r \in scen.requests, ~ (r.by = "store" /\ r.name = "fps")
  PROVE  Block(Drv, Steps(r))
<1>1. Requested(Drv, r)
  BY ScenarioRequest
<1>2. CASE r.by = "ioctl" /\ r.name \in Ioctls
  BY <1>1, <1>2, IoctlBlock DEF Steps, Drv
<1>3. CASE r.by = "show" /\ r.name \in Shows(Drv)
  BY <1>1, <1>3, ShowBlock DEF Steps, Drv
<1>4. CASE r.by = "store" /\ r.name \in Stores(Drv)
  BY <1>1, <1>4, StoreBlock DEF Steps, Drv
<1> QED BY <1>2, <1>3, <1>4, ScenarioRequest

(* And store_fps is what it is.                                            *)
LEMMA FpsHandler ==
  ASSUME scen \in Scenarios, NEW r \in scen.requests, r.by = "store", r.name = "fps"
  PROVE  /\ Drv = "jbd4040" /\ Steps(r) = StoreFps(r) /\ Len(StoreFps(r)) = 4
         /\ [idx |-> r.n] \in Settings("jbd4040", "FPS")
<1>1. Requested(Drv, r) /\ Drv \in Driver /\ r.name \in Stores(Drv)
  BY ScenarioRequest
<1>2. Drv = "jbd4040"
  BY <1>1 DEF Stores, Driver
<1>3. Steps(r) = StoreFps(r)
  BY <1>2 DEF Steps, StoreSteps, Drv
<1>4. [idx |-> r.n] \in Settings("jbd4040", "FPS")
  BY <1>1, FpsSetting DEF Requested
<1> QED BY <1>2, <1>3, <1>4 DEF StoreFps

-----------------------------------------------------------------------------
(* Who is at work.                                                         *)

(* One thread runs at a time.                                              *)
LEMMA OneRuns ==
  ASSUME RestInv, ApartInv, NEW t \in Threads, NEW u \in Threads, loc[t] = "run", loc[u] = "run"
  PROVE  t = u
<1>1. SUFFICES ASSUME t # u PROVE FALSE
  OBVIOUS
<1>2. req[t].by = "ioctl" /\ req[u].by = "ioctl"
  BY <1>1 DEF ApartInv
<1>3. mutex = t /\ mutex = u
  BY <1>2 DEF RestInv
<1> QED BY <1>1, <1>3

(* A thread with steps to take runs a request.                             *)
LEMMA AtWork ==
  ASSUME TInv, NEW t \in Threads, job[t] # << >>
  PROVE  /\ loc[t] = "run" /\ req[t] \in scen.requests /\ scen \in Scenarios /\ Requested(Drv, req[t])
         /\ job[t] \in Seq(StepSet(Drv)) /\ Len(job[t]) \in Nat /\ Len(job[t]) > 0
         /\ Head(job[t]) = job[t][1] /\ job[t][1] \in StepSet(Drv) /\ Drv \in Driver
         /\ \A u \in Threads \ {t} : loc[u] # "run" /\ job[u] = << >>
<1>1. loc[t] = "run" /\ req[t] \in scen.requests /\ scen \in Scenarios
  BY DEF TInv, RestInv, Arrays
<1>2. Requested(Drv, req[t]) /\ Drv \in Driver
  BY <1>1, ScenarioRequest
<1>3. job[t] \in Seq(StepSet(Drv))
  BY DEF TInv, Arrays, StepSeq
<1>4. Len(job[t]) \in Nat /\ Len(job[t]) > 0
  BY <1>3, EmptySeq, LenProperties
<1>5. Head(job[t]) = job[t][1] /\ job[t][1] \in StepSet(Drv)
  BY <1>3, <1>4, LenProperties
<1>6. \A u \in Threads \ {t} : loc[u] # "run"
  BY <1>1, OneRuns DEF TInv
<1>7. \A u \in Threads \ {t} : job[u] = << >>
  BY <1>6 DEF TInv, RestInv
<1> QED BY <1>1, <1>2, <1>3, <1>4, <1>5, <1>6, <1>7

(* The address is changed only inside store_fps.                           *)
LEMMA AddrWhile ==
  ASSUME TInv, NEW t \in Threads, job[t] # << >>
  PROVE  addr = Panel \/ (SetsFps(t) /\ Len(job[t]) \in {2, 3} /\ addr = {"R"})
<1>1. SUFFICES ASSUME addr # Panel PROVE SetsFps(t) /\ Len(job[t]) \in {2, 3} /\ addr = {"R"}
  OBVIOUS
<1>2. PICK u \in Threads : SetsFps(u) /\ Len(job[u]) \in {2, 3}
  BY <1>1 DEF TInv, AddrInv
<1>3. u = t
  BY <1>2, AtWork DEF SetsFps
<1>4. addr = {"R"}
  BY <1>1 DEF TInv, Arrays
<1> QED BY <1>2, <1>3, <1>4

(* A step of a running thread that others do not see in their variables.   *)
LEMMA StepFrame ==
  ASSUME TInv, NEW t \in Threads, job[t] # << >>, UNCHANGED <<scen, mutex, loc, req>>, Arrays',
         \A u \in Threads \ {t} : /\ job'[u] = job[u] /\ sent'[u] = sent[u] /\ ok'[u] = ok[u]
                                  /\ temp'[u] = temp[u] /\ saved'[u] = saved[u],
         FpsOK(t)', SoundOK(t)', SentOK(t)',
         addr' # Panel => SetsFps(t)' /\ Len(job'[t]) \in {2, 3}
  PROVE  TInv'
<1>1. loc[t] = "run" /\ \A u \in Threads \ {t} : loc[u] # "run"
  BY AtWork
<1>2. RestInv'
  <2>1. ASSUME NEW u \in Threads
        PROVE  /\ loc'[u] # "run" => job'[u] = << >> /\ ~ sent'[u] /\ ok'[u] /\ temp'[u] = << >> /\ saved'[u] = Panel
               /\ loc'[u] = "idle" <=> req'[u] = NoReq
               /\ loc'[u] = "wait" => req'[u].by = "ioctl"
               /\ loc'[u] = "run" /\ req'[u].by = "ioctl" <=> mutex' = u
    BY <2>1, <1>1 DEF TInv, RestInv
  <2> QED BY <2>1, Zenon DEF RestInv, NoReq
<1>3. ApartInv'
  BY DEF TInv, ApartInv
<1>4. ASSUME NEW u \in Threads \ {t}
      PROVE  FpsOK(u)' /\ SoundOK(u)' /\ SentOK(u)'
  <2>1. loc'[u] # "run" /\ ~ sent'[u]
    BY <1>1 DEF TInv, RestInv
  <2> QED BY <2>1 DEF FpsOK, SoundOK, SentOK, SetsFps
<1>5. HandlersOK'
  BY <1>4 DEF HandlersOK
<1>6. AddrInv'
  BY DEF AddrInv, SetsFps
<1> QED BY <1>2, <1>3, <1>5, <1>6 DEF TInv

-----------------------------------------------------------------------------
(* Steps of the handlers.                                                  *)

(* What is left of sound steps is sound; the next step has what it needs   *)
(* from this one, or needs nothing.                                        *)
LEMMA SoundRest ==
  ASSUME NEW d, NEW q, Sound(d, q), q # << >>, NEW k \in {0, Jump(q[1])}
  PROVE  /\ Sound(d, Rest(q, k))
         /\ Rest(q, k) # << >> => Fresh(d, Rest(q, k)[1]) \/ (k = 0 /\ Feeds(d, q[1], Rest(q, k)[1]))
<1> DEFINE S == StepSet(d)
           n == Len(q)
           r == Rest(q, k)
           m == Len(r)
<1>1. q \in Seq(S) /\ n \in Nat /\ n > 0 /\ n < 90
  BY EmptySeq, LenProperties DEF Sound, StepSeq
<1>2. \A i \in 1 .. n : q[i] \in S /\ Jump(q[i]) \in Nat
  BY <1>1, LenProperties, StepKinds
<1>3. k \in Nat
  BY <1>1, <1>2
<1>4. /\ \A i \in 1 .. n : q[i].op \notin {"take", "give"}
      /\ \A i \in 1 .. n - 1 : Feeds(d, q[i], q[i + 1])
      /\ \A i \in 1 .. n : Jump(q[i]) > 0 =>
           \/ Jump(q[i]) = 99
           \/ i + 1 + Jump(q[i]) = n + 1
           \/ i + 1 + Jump(q[i]) \in 1 .. n /\ Fresh(d, q[i + 1 + Jump(q[i])])
  BY DEF Sound
<1> HIDE DEF S, n
<1>5. /\ r \in Seq(S) /\ m \in Nat
      /\ k + 1 <= n => m = n - (k + 1)
      /\ k + 1 > n => m = 0
      /\ \A i \in 1 .. m : i + k + 1 \in 1 .. n /\ r[i] = q[i + k + 1]
  BY <1>1, <1>3, Remainder DEF n
<1> HIDE DEF r, m
<1>6. ASSUME NEW i \in 1 .. m
      PROVE  r[i].op \notin {"take", "give"}
  BY <1>4, <1>5
<1>7. ASSUME NEW i \in 1 .. m - 1
      PROVE  Feeds(d, r[i], r[i + 1])
  <2> DEFINE j == i + k + 1
  <2>1. i \in 1 .. m /\ i + 1 \in 1 .. m /\ m = n - (k + 1) /\ j \in 1 .. n - 1 /\ (i + 1) + k + 1 = j + 1
    BY <1>1, <1>3, <1>5
  <2>2. r[i] = q[j] /\ r[i + 1] = q[j + 1]
    BY <2>1, <1>5
  <2> QED BY <2>1, <2>2, <1>4
<1>8. ASSUME NEW i \in 1 .. m, Jump(r[i]) > 0
      PROVE  \/ Jump(r[i]) = 99
             \/ i + 1 + Jump(r[i]) = m + 1
             \/ i + 1 + Jump(r[i]) \in 1 .. m /\ Fresh(d, r[i + 1 + Jump(r[i])])
  <2> DEFINE j == i + k + 1
             x == Jump(r[i])
  <2>1. m = n - (k + 1) /\ j \in 1 .. n /\ r[i] = q[j]
    BY <1>1, <1>3, <1>5
  <2>2. x \in Nat
    BY <2>1, <1>2
  <2>3. \/ x = 99
        \/ j + 1 + x = n + 1
        \/ j + 1 + x \in 1 .. n /\ Fresh(d, q[j + 1 + x])
    BY <2>1, <1>4, <1>8
  <2> HIDE DEF x
  <2>4. CASE j + 1 + x = n + 1
    <3>1. i + 1 + x = m + 1
      BY <2>1, <2>2, <2>4, <1>1, <1>3, <1>5
    <3> QED BY <3>1 DEF x
  <2>5. CASE j + 1 + x \in 1 .. n /\ Fresh(d, q[j + 1 + x])
    <3>1. i + 1 + x \in 1 .. m /\ (i + 1 + x) + k + 1 = j + 1 + x
      BY <2>1, <2>2, <2>5, <1>1, <1>3, <1>5
    <3>2. r[i + 1 + x] = q[(i + 1 + x) + k + 1]
      BY <3>1, <1>5
    <3> QED BY <3>1, <3>2, <2>5 DEF x
  <2> QED BY <2>3, <2>4, <2>5 DEF x
<1>9. m < 90
  BY <1>1, <1>3, <1>5
<1>10. Sound(d, r)
  BY <1>5, <1>6, <1>7, <1>8, <1>9 DEF Sound, StepSeq, S, m
<1>11. ASSUME r # << >>
       PROVE  Fresh(d, r[1]) \/ (k = 0 /\ Feeds(d, q[1], r[1]))
  <2>1. m > 0
    BY <1>11, <1>5, EmptySeq DEF m
  <2>2. 1 \in 1 .. m /\ m = n - (k + 1) /\ k + 2 \in 1 .. n /\ r[1] = q[k + 2] /\ k # 99
    BY <2>1, <1>1, <1>3, <1>5
  <2>3. CASE k = 0
    <3>1. 1 \in 1 .. n - 1 /\ r[1] = q[1 + 1]
      BY <2>2, <2>3, <1>1
    <3> QED BY <3>1, <2>3, <1>4
  <2>4. CASE k # 0
    <3>1. k = Jump(q[1]) /\ k > 0 /\ 1 \in 1 .. n /\ 1 + 1 + k = k + 2
      BY <2>4, <1>1, <1>3
    <3>2. k = 99 \/ 1 + 1 + k = n + 1 \/ Fresh(d, q[1 + 1 + k])
      BY <3>1, <1>4
    <3> QED BY <3>1, <3>2, <2>2, <1>1
  <2> QED BY <2>3, <2>4
<1> QED BY <1>10, <1>11 DEF r

(* The part of the invariant about temp, after a step.                     *)
LEMMA SoundStep ==
  ASSUME TInv, NEW t \in Threads, job[t] # << >>, ~ SetsFps(t), UNCHANGED <<scen, loc, req>>,
         NEW k \in {0, Jump(job[t][1])}, job'[t] = Rest(job[t], k),
         /\ k = 0 /\ job[t][1].op \in {"read", "readhv"} /\ job[t][1].fail.skip > 0 /\ job[t][1].reg \in Regs(Drv)
         => temp'[t] \in Contents(Drv, job[t][1].reg),
         k = 0 /\ job[t][1].op = "write" /\ job[t][1].reg = "OFFSET" => temp'[t] \in Contents(Drv, "OFFSET")
  PROVE  SoundOK(t)'
<1> DEFINE q == job[t]
           r == Rest(q, k)
<1>1. Sound(Drv, q)
  BY AtWork DEF TInv, HandlersOK, SoundOK
<1>2. /\ Sound(Drv, r)
      /\ r # << >> => Fresh(Drv, r[1]) \/ (k = 0 /\ Feeds(Drv, q[1], r[1]))
  BY <1>1, SoundRest
<1>3. job'[t] = r /\ Drv' = Drv /\ k \in Nat
  <2>1. Jump(job[t][1]) \in Nat
    BY AtWork, StepKinds
  <2> QED BY <2>1 DEF Drv
<1> HIDE DEF r
<1>4. ASSUME r # << >>, Partial(Drv, r[1])
      PROVE  temp'[t] \in Contents(Drv, r[1].reg)
  <2>1. k = 0 /\ Feeds(Drv, q[1], r[1])
    BY <1>2, <1>4 DEF Fresh
  <2>2. q[1].op \in {"read", "readhv"} /\ q[1].reg = r[1].reg /\ q[1].fail.skip > 0
    BY <2>1, <1>4 DEF Feeds
  <2>3. q[1].reg \in Regs(Drv)
    <3>1. q[1].reg \in Regs(Drv) \cup {"sysfs"}
      BY <2>2, AtWork, StepKinds DEF Reads
    <3> QED BY <3>1, <2>2, <1>4 DEF Partial
  <2> QED BY <2>1, <2>2, <2>3
<1>5. ASSUME r # << >>, r[1].op = "readhv"
      PROVE  temp'[t] \in Contents(Drv, "OFFSET")
  <2>1. k = 0 /\ Feeds(Drv, q[1], r[1])
    BY <1>2, <1>5 DEF Fresh
  <2> QED BY <2>1, <1>5 DEF Feeds
<1> QED BY <1>2, <1>3, <1>4, <1>5 DEF SoundOK

(* The transfer at the head: its register and its panels.                  *)
LEMMA Transfer ==
  ASSUME TInv, NEW t \in Threads, At(t, Reads \cup {"write"})
  PROVE  /\ job[t] # << >> /\ Head(job[t]) = job[t][1] /\ job[t][1].op \in Reads \cup {"write"}
         /\ RegOf(t) \in Regs(Drv) /\ Dest(t) \in SUBSET Panel /\ Drv \in Driver
         /\ job[t][1].reg # "sysfs" => RegOf(t) = job[t][1].reg
         /\ job[t][1].fail.skip = Jump(job[t][1])
<1>1. job[t] # << >> /\ Head(job[t]).op \in Reads \cup {"write"}
  BY DEF At
<1>2. Head(job[t]) = job[t][1] /\ job[t][1] \in StepSet(Drv) /\ Drv \in Driver
  BY <1>1, AtWork
<1> DEFINE s == job[t][1]
<1>3. s.op \in Reads \cup {"write"} /\ s.at \in Place /\ (s.reg = "sysfs" \/ s.reg \in Regs(Drv))
  BY <1>1, <1>2, StepKinds
<1>4. s.fail.skip = Jump(s)
  BY <1>3 DEF Jump, Reads
<1> HIDE DEF s
<1>5. RegOf(t) \in Regs(Drv) /\ (s.reg # "sysfs" => RegOf(t) = s.reg)
  BY <1>2, <1>3 DEF RegOf, TInv, Arrays, s
<1>6. addr \in SUBSET Panel
  BY DEF TInv, Arrays, Panel
<1>7. Dest(t) \in SUBSET Panel
  BY <1>2, <1>3, <1>6 DEF Dest, Place, s
<1> QED BY <1>1, <1>2, <1>3, <1>4, <1>5, <1>7 DEF s

(* What a register holds is a function on its fields.                      *)
LEMMA ContentsType ==
  ASSUME NEW d \in Driver, NEW g \in Regs(d), NEW x \in Contents(d, g)
  PROVE  x \in [Fields(d, g) -> Nat] /\ \A f \in Fields(d, g) : x[f] \in 0 .. Width[d][g][f]
  BY FieldsNamed DEF Contents, Fit

(* What a write puts into a register fits it.                              *)
LEMMA ModifiedFits ==
  ASSUME TInv, NEW t \in Threads, At(t, {"write"}),
         Partial(Drv, job[t][1]) => temp[t] \in Contents(Drv, job[t][1].reg)
  PROVE  Modified(t) \in Contents(Drv, RegOf(t))
<1> DEFINE s == job[t][1]
           g == RegOf(t)
           F == Fields(Drv, g)
<1>1. At(t, Reads \cup {"write"}) /\ Head(job[t]).op = "write"
  BY DEF At
<1>2. /\ Head(job[t]) = s /\ g \in Regs(Drv) /\ Drv \in Driver /\ s \in StepSet(Drv) /\ s.op = "write"
      /\ s.reg # "sysfs" => g = s.reg
  BY <1>1, Transfer, AtWork
<1>3. s.reg # "sysfs" => s.set \in Settings(Drv, g)
  BY <1>2, StepKinds DEF Reads
<1>4. F = DOMAIN Width[scen.drv][g] /\ \A f \in F : Width[Drv][g][f] \in Nat
  BY <1>2, FieldsNamed DEF Fields, Drv
<1>5. s.reg # "sysfs" => /\ DOMAIN s.set \subseteq F
                         /\ \A f \in DOMAIN s.set : s.set[f] \in Nat /\ s.set[f] <= Width[Drv][g][f]
  BY <1>3 DEF Settings, Some, Fit
<1>6. Partial(Drv, s) => temp[t] \in [F -> Nat] /\ \A f \in F : temp[t][f] <= Width[Drv][g][f]
  BY <1>2 DEF Contents, Fit, Partial
<1>7. ~ Partial(Drv, s) /\ s.reg # "sysfs" => DOMAIN s.set = F
  BY <1>2 DEF Partial
<1> DEFINE v(f) == IF s.reg # "sysfs" /\ f \in DOMAIN s.set THEN s.set[f]
                   ELSE IF s.reg # "sysfs" /\ f \in DOMAIN temp[t] THEN temp[t][f] ELSE 0
<1>8. Modified(t) = [f \in F |-> v(f)]
  BY <1>2, <1>4 DEF Modified
<1> HIDE DEF s, g, F
<1>9. ASSUME NEW f \in F
      PROVE  v(f) \in Nat /\ v(f) <= Width[Drv][g][f]
  <2>1. CASE s.reg = "sysfs"
    BY <2>1, <1>4, <1>9
  <2>2. CASE s.reg # "sysfs" /\ f \in DOMAIN s.set
    BY <2>2, <1>5
  <2>3. CASE s.reg # "sysfs" /\ f \notin DOMAIN s.set
    <3>1. temp[t] \in [F -> Nat] /\ temp[t][f] <= Width[Drv][g][f]
      BY <2>3, <1>6, <1>7, <1>9
    <3> QED BY <3>1, <2>3, <1>9
  <2> QED BY <2>1, <2>2, <2>3
<1> HIDE DEF v
<1>10. Modified(t) \in [F -> Nat] /\ \A f \in DOMAIN Modified(t) : Modified(t)[f] <= Width[Drv][g][f]
  BY <1>8, <1>9
<1> QED BY <1>10 DEF Contents, Fit, g, F

(* The steps of store_fps.                                                 *)
LEMMA FpsSteps ==
  ASSUME NEW r, [idx |-> r.n] \in Settings("jbd4040", "FPS")
  PROVE  LET q == StoreFps(r) IN
         /\ q \in Seq(StepSet("jbd4040")) /\ Len(q) = 4
         /\ q[1].op = "take" /\ q[3].op = "give"
         /\ q[2].op = "read" /\ q[2].at = "client" /\ q[2].reg = "FPS" /\ q[2].fail = Note
         /\ q[4].op = "write" /\ q[4].at = "client" /\ q[4].reg = "FPS" /\ q[4].fail = Note
         /\ q[4].set = [idx |-> r.n]
<1> DEFINE d == "jbd4040"
           a == TakeAddr
           b == Rd("client", "FPS", Note)
           c == GiveAddr
           e == Wr("client", "FPS", [idx |-> r.n], Note)
<1>1. "FPS" \in Regs(d) /\ "client" \in Place
  BY RegisterNames, PanelNames
<1>2. b \in StepSet(d) /\ e \in StepSet(d)
  BY <1>1, FailOutcomes, ReadMade, WriteMade
<1>3. a \in StepSet(d) /\ c \in StepSet(d) /\ a.op = "take" /\ c.op = "give"
  BY DEF TakeAddr, GiveAddr, StepSet
<1>4. /\ b.op = "read" /\ b.at = "client" /\ b.reg = "FPS" /\ b.fail = Note
      /\ e.op = "write" /\ e.at = "client" /\ e.reg = "FPS" /\ e.fail = Note /\ e.set = [idx |-> r.n]
  BY DEF Rd, Wr
<1>5. StoreFps(r) = << a, b, c, e >>
  BY DEF StoreFps
<1> HIDE DEF a, b, c, e, d
<1>6. << a, b, c, e >> \in Seq(StepSet(d))
  BY <1>2, <1>3
<1> QED BY <1>3, <1>4, <1>5, <1>6 DEF d

(* Where store_fps is, by the number of steps left.                        *)
LEMMA FpsHead ==
  ASSUME TInv, NEW t \in Threads, job[t] # << >>, SetsFps(t)
  PROVE  LET n == Len(job[t])
             s == job[t][1]
         IN /\ Drv = "jbd4040" /\ n \in 1 .. 4 /\ [idx |-> req[t].n] \in Settings("jbd4040", "FPS")
            /\ n = 4 => s.op = "take"
            /\ n = 3 => s.op = "read" /\ s.at = "client" /\ s.reg = "FPS" /\ s.fail = Note
            /\ n = 2 => s.op = "give"
            /\ n = 1 => s.op = "write" /\ s.at = "client" /\ s.reg = "FPS" /\ s.fail = Note
                        /\ s.set = [idx |-> req[t].n]
<1> DEFINE q == StoreFps(req[t])
           n == Len(job[t])
<1>1. req[t].by = "store" /\ req[t].name = "fps" /\ req[t] \in scen.requests /\ scen \in Scenarios
      /\ n \in Nat /\ n > 0
  BY AtWork DEF SetsFps
<1>2. [idx |-> req[t].n] \in Settings("jbd4040", "FPS") /\ Drv = "jbd4040"
  BY <1>1, FpsHandler
<1>3. n \in 0 .. 4 /\ \A i \in 1 .. n : job[t][i] = q[i + (4 - n)]
  BY DEF TInv, HandlersOK, FpsOK
<1> HIDE DEF n
<1>4. n \in 1 .. 4 /\ job[t][1] = q[1 + (4 - n)]
  BY <1>1, <1>3
<1>5. /\ n = 4 => job[t][1] = q[1]
      /\ n = 3 => job[t][1] = q[2]
      /\ n = 2 => job[t][1] = q[3]
      /\ n = 1 => job[t][1] = q[4]
  BY <1>4
<1> QED BY <1>2, <1>4, <1>5, FpsSteps DEF n

(* When it has taken a step and left out k, it has fewer steps to take.    *)
LEMMA FpsRest ==
  ASSUME TInv, NEW t \in Threads, job[t] # << >>, SetsFps(t), NEW k \in Nat
  PROVE  LET n == Len(job[t])
             r == Rest(job[t], k)
             m == Len(r)
         IN /\ m = IF k + 1 <= n THEN n - (k + 1) ELSE 0
            /\ m \in 0 .. 3
            /\ \A i \in 1 .. m : r[i] = StoreFps(req[t])[i + (4 - m)]
<1> DEFINE q == StoreFps(req[t])
           n == Len(job[t])
           r == Rest(job[t], k)
           m == Len(r)
<1>1. n \in 0 .. 4 /\ \A i \in 1 .. n : job[t][i] = q[i + (4 - n)]
  BY DEF TInv, HandlersOK, FpsOK, SetsFps
<1>2. job[t] \in Seq(StepSet(Drv)) /\ n \in Nat /\ n > 0
  BY AtWork
<1>3. /\ m \in Nat
      /\ k + 1 <= n => m = n - (k + 1)
      /\ k + 1 > n => m = 0
      /\ \A i \in 1 .. m : i + k + 1 \in 1 .. n /\ r[i] = job[t][i + k + 1]
  BY <1>2, Remainder
<1> HIDE DEF n, r, m, q
<1>4. m = (IF k + 1 <= n THEN n - (k + 1) ELSE 0) /\ m \in 0 .. 3
  BY <1>1, <1>2, <1>3
<1>5. ASSUME NEW i \in 1 .. m
      PROVE  r[i] = q[i + (4 - m)]
  <2>1. i + k + 1 \in 1 .. n /\ (i + k + 1) + (4 - n) = i + (4 - m)
    BY <1>1, <1>3, <1>4
  <2>2. r[i] = job[t][i + k + 1] /\ job[t][i + k + 1] = q[(i + k + 1) + (4 - n)]
    BY <2>1, <1>1, <1>3
  <2> QED BY <2>1, <2>2
<1> QED BY <1>4, <1>5 DEF n, r, m, q

(* The step of store_fps that has the given number of steps after it.      *)
LEMMA FpsPlace ==
  ASSUME TInv, NEW t \in Threads, job[t] # << >>, SetsFps(t)
  PROVE  LET s == job[t][1]
             n == Len(job[t])
         IN /\ s.op = "take" => n = 4
            /\ s.op = "give" => n = 2
            /\ s.op = "write" => n = 1 /\ s.at = "client" /\ s.reg = "FPS" /\ s.fail = Note
            /\ s.op \in Reads => n = 3 /\ s.op = "read" /\ s.reg = "FPS" /\ s.fail = Note
            /\ s.op \in {"take", "give", "write", "read"}
<1> DEFINE s == job[t][1]
           n == Len(job[t])
<1>1. /\ n \in 1 .. 4
      /\ n = 4 => s.op = "take"
      /\ n = 3 => s.op = "read" /\ s.at = "client" /\ s.reg = "FPS" /\ s.fail = Note
      /\ n = 2 => s.op = "give"
      /\ n = 1 => s.op = "write" /\ s.at = "client" /\ s.reg = "FPS" /\ s.fail = Note
  BY FpsHead
<1> HIDE DEF s, n
<1>2. n = 4 \/ n = 3 \/ n = 2 \/ n = 1
  BY <1>1
<1>3. \A x \in Reads : x # "take" /\ x # "give" /\ x # "write"
  BY DEF Reads
<1> QED BY <1>1, <1>2, <1>3 DEF s, n

(* store_fps after one step.                                               *)
LEMMA FpsNext ==
  ASSUME TInv, NEW t \in Threads, job[t] # << >>, SetsFps(t), job'[t] = Rest(job[t], 0)
  PROVE  LET m == Len(job'[t]) IN
         /\ m = Len(job[t]) - 1 /\ m \in 0 .. 3
         /\ \A i \in 1 .. m : job'[t][i] = StoreFps(req[t])[i + (4 - m)]
<1> DEFINE n == Len(job[t])
           m == Len(Rest(job[t], 0))
<1>1. n \in Nat /\ n > 0
  BY AtWork
<1>2. /\ m = (IF 0 + 1 <= n THEN n - (0 + 1) ELSE 0)
      /\ m \in 0 .. 3
      /\ \A i \in 1 .. m : Rest(job[t], 0)[i] = StoreFps(req[t])[i + (4 - m)]
  BY FpsRest
<1> HIDE DEF n, m
<1>3. m = n - 1
  BY <1>1, <1>2
<1> QED BY <1>2, <1>3 DEF n, m

(* The job after a step.                                                   *)
LEMMA Continued ==
  ASSUME TInv, NEW t \in Threads, job[t] # << >>, NEW k \in Nat, Continue(t, k), scen' = scen
  PROVE  /\ job'[t] = Rest(job[t], k) /\ ~ sent'[t] /\ sent' \in [Threads -> BOOLEAN]
         /\ \A u \in Threads \ {t} : job'[u] = job[u] /\ sent'[u] = sent[u]
         /\ DOMAIN job' = Threads /\ \A u \in Threads : StepSeq(Drv', job'[u])
         /\ Drv' = Drv
<1>1. DOMAIN job = Threads /\ sent \in [Threads -> BOOLEAN] /\ \A u \in Threads : StepSeq(Drv, job[u])
  BY DEF TInv, Arrays
<1>2. job'[t] = Rest(job[t], k) /\ \A u \in Threads \ {t} : job'[u] = job[u]
  BY <1>1 DEF Continue, Rest
<1>3. DOMAIN job' = Threads
  BY <1>1 DEF Continue
<1>4. Drv' = Drv
  BY DEF Drv
<1>5. Rest(job[t], k) \in Seq(StepSet(Drv))
  BY AtWork, Remainder
<1>6. ASSUME NEW u \in Threads
      PROVE  StepSeq(Drv', job'[u])
  <2>1. CASE u = t
    BY <2>1, <1>2, <1>4, <1>5 DEF StepSeq
  <2>2. CASE u # t
    BY <2>2, <1>1, <1>2, <1>4
  <2> QED BY <2>1, <2>2
<1>7. ~ sent'[t] /\ sent' \in [Threads -> BOOLEAN] /\ \A u \in Threads \ {t} : sent'[u] = sent[u]
  BY <1>1 DEF Continue
<1> QED BY <1>2, <1>3, <1>4, <1>6, <1>7

(* The address of a read goes out.                                         *)
LEMMA SendAddressStep ==
  ASSUME TInv, NEW t \in Threads, SendAddress(t)
  PROVE  TInv'
<1>1. At(t, Reads \cup {"write"}) /\ At(t, Reads) /\ Drv' = Drv
  BY DEF SendAddress, At, Drv
<1>2. job[t] # << >> /\ RegOf(t) \in Regs(Drv) /\ job[t][1].op \in Reads
  BY <1>1, Transfer DEF At
<1>3. UNCHANGED <<scen, regs, addr, sysfsReg, mutex, loc, req, job, temp, seen, saved, ok, faults>>
  BY DEF SendAddress
<1>4. ptr' \in [Panel -> Regs(Drv)] /\ sent' \in [Threads -> BOOLEAN] /\ sent'[t]
      /\ \A u \in Threads \ {t} : sent'[u] = sent[u]
  BY <1>2 DEF SendAddress, TInv, Arrays
<1>5. Arrays'
  BY <1>1, <1>3, <1>4 DEF TInv, Arrays
<1>6. FpsOK(t)'
  <2>1. SetsFps(t) => Len(job[t]) = 3
    BY <1>2, FpsPlace
  <2> QED BY <1>1, <1>3, <2>1 DEF TInv, HandlersOK, FpsOK, SetsFps
<1>7. SoundOK(t)'
  BY <1>1, <1>3 DEF TInv, HandlersOK, SoundOK, SetsFps
<1>8. SentOK(t)'
  <2>1. Dest(t)' = Dest(t) /\ RegOf(t)' = RegOf(t)
    BY <1>3 DEF Dest, RegOf
  <2>2. \A p \in Dest(t) : ptr'[p] = RegOf(t)
    BY <1>1, Transfer DEF SendAddress
  <2> QED BY <1>2, <1>3, <2>1, <2>2 DEF SentOK
<1>9. addr' # Panel => SetsFps(t)' /\ Len(job'[t]) \in {2, 3}
  BY <1>2, <1>3, AddrWhile DEF SetsFps
<1> QED BY <1>2, <1>3, <1>4, <1>5, <1>6, <1>7, <1>8, <1>9, StepFrame

(* The video path's register with the numbers of an offset in SRAM.        *)
LEMMA OffsetKept ==
  ASSUME NEW v \in Contents("jbd4020", "VO"), NEW x \in Contents("jbd4020", "OFFSET")
  PROVE  [v EXCEPT !.h = x.h, !.v = x.v] \in Contents("jbd4020", "VO")
<1> DEFINE y == [v EXCEPT !.h = x.h, !.v = x.v]
           F == {"flip", "mirror", "en", "h", "v"}
<1>1. "jbd4020" \in Driver /\ "VO" \in Regs("jbd4020") /\ "OFFSET" \in Regs("jbd4020")
      /\ Fields("jbd4020", "VO") = F /\ Fields("jbd4020", "OFFSET") = {"en", "h", "v"}
  BY RegisterNames, Widths4020 DEF Driver
<1>2. v \in [F -> Nat] /\ \A f \in F : v[f] \in 0 .. Width["jbd4020"]["VO"][f]
  BY <1>1, ContentsType
<1>3. x.h \in 0 .. 31 /\ x.v \in 0 .. 31
  BY <1>1, ContentsType, SharedWidths
<1>a. y = [f \in F |-> IF f = "v" THEN x.v ELSE IF f = "h" THEN x.h ELSE v[f]]
  BY <1>2
<1>b. x.h \in Nat /\ x.v \in Nat /\ \A f \in F : v[f] \in Nat
  BY <1>2, <1>3
<1>4. y \in [F -> Nat] /\ y["h"] = x.h /\ y["v"] = x.v /\ \A f \in F \ {"h", "v"} : y[f] = v[f]
  BY <1>a, <1>b
<1> HIDE DEF y
<1>5. ASSUME NEW f \in F
      PROVE  y[f] <= Width["jbd4020"]["VO"][f]
  <2>1. CASE f \in {"h", "v"}
    BY <2>1, <1>3, <1>4, Widths4020
  <2>2. CASE f \notin {"h", "v"}
    BY <2>2, <1>2, <1>4, <1>1, FieldsNamed
  <2> QED BY <2>1, <2>2
<1>6. y \in Contents("jbd4020", "VO")
  BY <1>1, <1>4, <1>5 DEF Contents, Fit
<1> QED BY <1>6 DEF y

(* A value that arrives.                                                   *)
LEMMA ArriveStep ==
  ASSUME TInv, NEW t \in Threads, At(t, Reads), NEW v \in Contents(Drv, RegOf(t)), Arrive(t, v), ptr' = ptr
  PROVE  TInv'
<1> DEFINE s == job[t][1]
<1>1. At(t, Reads \cup {"write"})
  BY DEF At
<1>2. job[t] # << >> /\ RegOf(t) \in Regs(Drv) /\ s.op \in Reads /\ Head(job[t]) = s /\ Drv \in Driver
      /\ (s.reg # "sysfs" => RegOf(t) = s.reg) /\ s \in StepSet(Drv)
  BY <1>1, Transfer, AtWork DEF At
<1>3. UNCHANGED <<scen, regs, addr, sysfsReg, mutex, loc, req, saved, ok, faults, ptr>>
  BY DEF Arrive
<1>4. Continue(t, 0)
  BY DEF Arrive
<1>5. /\ job'[t] = Rest(job[t], 0) /\ ~ sent'[t] /\ sent' \in [Threads -> BOOLEAN]
      /\ \A u \in Threads \ {t} : job'[u] = job[u] /\ sent'[u] = sent[u]
      /\ DOMAIN job' = Threads /\ \A u \in Threads : StepSeq(Drv', job'[u])
      /\ Drv' = Drv
  BY <1>2, <1>3, <1>4, Continued
<1>6. DOMAIN temp = Threads /\ DOMAIN seen = Threads
  BY DEF TInv, Arrays
<1>7. DOMAIN temp' = Threads /\ DOMAIN seen' = Threads /\ \A u \in Threads \ {t} : temp'[u] = temp[u]
  BY <1>6 DEF Arrive
<1>8. /\ s.op = "read" => temp'[t] = v
      /\ s.op = "readhv" => temp'[t] = [v EXCEPT !.h = temp[t].h, !.v = temp[t].v]
  BY <1>2, <1>6 DEF Arrive
<1>9. Arrays'
  BY <1>3, <1>5, <1>7 DEF TInv, Arrays
<1>10. FpsOK(t)'
  <2>1. CASE SetsFps(t)
    <3>1. Len(job[t]) = 3 /\ s.op = "read" /\ s.reg = "FPS" /\ Drv = "jbd4040"
      BY <1>2, <2>1, FpsHead, FpsPlace
    <3>2. /\ Len(job'[t]) = 2
          /\ \A i \in 1 .. Len(job'[t]) : job'[t][i] = StoreFps(req[t])[i + (4 - Len(job'[t]))]
      <4>1. /\ Len(job'[t]) = Len(job[t]) - 1
            /\ \A i \in 1 .. Len(job'[t]) : job'[t][i] = StoreFps(req[t])[i + (4 - Len(job'[t]))]
        BY <1>2, <1>5, <2>1, FpsNext
      <4> QED BY <3>1, <4>1
    <3>3. saved[t] = Panel /\ addr = {"R"} /\ ok[t]
      BY <2>1, <3>1 DEF TInv, HandlersOK, FpsOK
    <3>4. temp'[t] \in Contents(Drv, "FPS")
      BY <1>2, <1>8, <3>1
    <3> QED BY <1>3, <1>5, <3>1, <3>2, <3>3, <3>4 DEF FpsOK
  <2>2. CASE ~ SetsFps(t)
    BY <2>2, <1>3 DEF FpsOK, SetsFps
  <2> QED BY <2>1, <2>2
<1>11. SoundOK(t)'
  <2>1. CASE SetsFps(t)
    BY <2>1, <1>3 DEF SoundOK, SetsFps
  <2>2. CASE ~ SetsFps(t)
    <3>1. ASSUME s.op \in {"read", "readhv"}, s.reg \in Regs(Drv)
          PROVE  temp'[t] \in Contents(Drv, s.reg)
      <4>1. RegOf(t) = s.reg
        <5>1. "sysfs" \notin Regs(Drv)
          BY <1>2, RegisterNames DEF Driver
        <5> QED BY <1>2, <3>1, <5>1
      <4>2. CASE s.op = "read"
        BY <1>8, <4>1, <4>2
      <4>3. CASE s.op = "readhv"
        <5>1. s.reg = "VO" /\ Drv = "jbd4020"
          BY <1>2, <4>3, StepKinds, RegisterNames DEF Driver
        <5>2. temp[t] \in Contents("jbd4020", "OFFSET")
          BY <1>2, <2>2, <4>3, <5>1, AtWork DEF TInv, HandlersOK, SoundOK
        <5>3. v \in Contents("jbd4020", "VO")
          BY <4>1, <5>1
        <5>4. [v EXCEPT !.h = temp[t].h, !.v = temp[t].v] \in Contents("jbd4020", "VO")
          BY <5>2, <5>3, OffsetKept
        <5> QED BY <1>8, <4>3, <5>1, <5>4
      <4> QED BY <3>1, <4>2, <4>3
    <3>2. s.op # "write"
      BY <1>2 DEF Reads
    <3> QED BY <1>2, <1>3, <1>5, <2>2, <3>1, <3>2, SoundStep
  <2> QED BY <2>1, <2>2
<1>12. SentOK(t)'
  BY <1>5 DEF SentOK
<1>13. addr' # Panel => SetsFps(t)' /\ Len(job'[t]) \in {2, 3}
  <2>1. ASSUME addr # Panel
        PROVE  SetsFps(t) /\ Len(job'[t]) \in {2, 3}
    <3>1. SetsFps(t)
      BY <1>2, <2>1, AddrWhile
    <3>2. Len(job[t]) = 3
      BY <1>2, <3>1, FpsPlace
    <3>3. Len(job'[t]) = Len(job[t]) - 1
      BY <1>2, <1>5, <3>1, FpsNext
    <3>4. Len(job'[t]) = 2
      BY <3>2, <3>3
    <3> QED BY <3>1, <3>4
  <2> QED BY <1>3, <2>1 DEF SetsFps
<1> QED BY <1>2, <1>3, <1>5, <1>7, <1>9, <1>10, <1>11, <1>12, <1>13, StepFrame

(* A read ends.                                                            *)
LEMMA ReadStep ==
  ASSUME TInv, NEW t \in Threads, ReadCombined(t) \/ Fetch(t)
  PROVE  TInv'
<1>1. At(t, Reads) /\ At(t, Reads \cup {"write"}) /\ ptr' = ptr
  BY DEF ReadCombined, Fetch, At
<1>2. RegOf(t) \in Regs(Drv) /\ Dest(t) \in SUBSET Panel
  BY <1>1, Transfer
<1>3. \A p \in Panel : regs[p][RegOf(t)] \in Contents(Drv, RegOf(t))
  BY <1>2 DEF TInv, Arrays
<1>4. CASE ReadCombined(t)
  <2>1. PICK p \in Dest(t) : Arrive(t, regs[p][RegOf(t)])
    BY <1>4 DEF ReadCombined
  <2> QED BY <2>1, <1>1, <1>2, <1>3, ArriveStep
<1>5. CASE Fetch(t)
  <2>1. PICK p \in Dest(t) : Arrive(t, regs[p][ptr[p]])
    BY <1>5 DEF Fetch
  <2>2. ptr[p] = RegOf(t)
    BY <1>5 DEF Fetch, TInv, HandlersOK, SentOK
  <2>3. Arrive(t, regs[p][RegOf(t)])
    BY <2>1, <2>2
  <2> QED BY <2>3, <1>1, <1>2, <1>3, ArriveStep
<1> QED BY <1>4, <1>5

(* What the head of a sound handler or of store_fps needs is there.        *)
LEMMA HeadFed ==
  ASSUME TInv, NEW t \in Threads, At(t, {"write"})
  PROVE  /\ Modified(t) \in Contents(Drv, RegOf(t))
         /\ SetsFps(t) => RegOf(t) = "FPS"
<1>1. job[t] # << >> /\ job[t][1].op = "write" /\ At(t, Reads \cup {"write"})
  BY Transfer DEF At
<1>2. CASE SetsFps(t)
  <2>1. Len(job[t]) = 1 /\ job[t][1].reg = "FPS"
    BY <1>1, <1>2, FpsPlace
  <2>2. temp[t] \in Contents(Drv, "FPS")
    BY <1>2, <2>1 DEF TInv, HandlersOK, FpsOK
  <2>3. RegOf(t) = "FPS"
    BY <1>1, <2>1, Transfer
  <2> QED BY <2>1, <2>2, <2>3, ModifiedFits
<1>3. CASE ~ SetsFps(t)
  <2>1. Partial(Drv, job[t][1]) => temp[t] \in Contents(Drv, job[t][1].reg)
    BY <1>1, <1>3, AtWork DEF TInv, HandlersOK, SoundOK
  <2> QED BY <2>1, <1>3, ModifiedFits
<1> QED BY <1>2, <1>3

(* A transfer fails.                                                       *)
LEMMA FailsStep ==
  ASSUME TInv, NEW t \in Threads, Fails(t)
  PROVE  TInv'
<1> DEFINE s == job[t][1]
           k == s.fail.skip
<1>1. At(t, Reads \cup {"write"})
  BY DEF Fails
<1>2. job[t] # << >> /\ s.op \in Reads \cup {"write"} /\ Head(job[t]) = s /\ Drv \in Driver
      /\ s \in StepSet(Drv) /\ k = Jump(s) /\ k \in Nat
      /\ (s.reg # "sysfs" => RegOf(t) = s.reg)
  BY <1>1, Transfer, AtWork, StepKinds
<1>3. UNCHANGED <<scen, regs, ptr, addr, sysfsReg, mutex, loc, req, seen, saved>> /\ Continue(t, k)
  BY <1>2 DEF Fails, hw
<1>4. /\ job'[t] = Rest(job[t], k) /\ ~ sent'[t] /\ sent' \in [Threads -> BOOLEAN]
      /\ \A u \in Threads \ {t} : job'[u] = job[u] /\ sent'[u] = sent[u]
      /\ DOMAIN job' = Threads /\ \A u \in Threads : StepSeq(Drv', job'[u])
      /\ Drv' = Drv
  BY <1>2, <1>3, Continued
<1>5. DOMAIN temp = Threads /\ ok \in [Threads -> BOOLEAN] /\ faults \in Nat /\ scen.faults \in Nat
  BY ScenariosAssumption DEF TInv, Arrays
<1>6. DOMAIN temp' = Threads /\ ok' \in [Threads -> BOOLEAN] /\ faults' \in 0 .. scen.faults
      /\ \A u \in Threads \ {t} : temp'[u] = temp[u] /\ ok'[u] = ok[u]
  BY <1>5 DEF Fails
<1>7. s.op = "write" => temp'[t] = Modified(t)
  BY <1>2, <1>5 DEF Fails, At
<1>8. Arrays'
  BY <1>3, <1>4, <1>6 DEF TInv, Arrays
<1>9. FpsOK(t)'
  <2>1. CASE SetsFps(t)
    <3>1. Drv = "jbd4040" /\ s.fail = Note /\ k = 0
      BY <1>2, <2>1, FpsHead, FpsPlace, FailOutcomes
    <3>2. /\ Len(job'[t]) = Len(job[t]) - 1
          /\ \A i \in 1 .. Len(job'[t]) : job'[t][i] = StoreFps(req[t])[i + (4 - Len(job'[t]))]
      BY <1>2, <1>4, <2>1, <3>1, FpsNext
    <3>3. CASE s.op \in Reads
      <4>1. Len(job[t]) = 3 /\ Len(job'[t]) = 2
        BY <1>2, <2>1, <3>2, <3>3, FpsPlace
      <4>2. saved[t] = Panel /\ addr = {"R"} /\ ~ ok'[t]
        <5>a. Head(job[t]).fail.err = TRUE
          BY <1>2, <3>1 DEF Note
        <5>1. ~ ok'[t]
          BY <1>5, <5>a, Zenon DEF Fails
        <5> QED BY <5>1, <2>1, <4>1 DEF TInv, HandlersOK, FpsOK
      <4>3. req'[t] = req[t] /\ saved'[t] = saved[t] /\ addr' = addr
        BY <1>3
      <4>4. Len(job'[t]) \notin {1, 3, 4} /\ Len(job'[t]) \in 0 .. 4
        BY <4>1
      <4> QED BY <1>4, <3>1, <3>2, <4>1, <4>2, <4>3, <4>4 DEF FpsOK
    <3>4. CASE s.op = "write"
      <4>1. Len(job[t]) = 1 /\ Len(job'[t]) = 0
        BY <1>2, <2>1, <3>2, <3>4, FpsPlace
      <4>2. Len(job'[t]) \notin {1, 2, 3, 4} /\ Len(job'[t]) \in 0 .. 4
        BY <4>1
      <4>3. req'[t] = req[t]
        BY <1>3
      <4> QED BY <1>4, <3>1, <3>2, <4>2, <4>3 DEF FpsOK
    <3> QED BY <1>2, <3>3, <3>4
  <2>2. CASE ~ SetsFps(t)
    BY <2>2, <1>3 DEF FpsOK, SetsFps
  <2> QED BY <2>1, <2>2
<1>10. SoundOK(t)'
  <2>1. CASE SetsFps(t)
    BY <2>1, <1>3 DEF SoundOK, SetsFps
  <2>2. CASE ~ SetsFps(t)
    <3>1. ~ (k = 0 /\ s.op \in {"read", "readhv"} /\ s.fail.skip > 0)
      BY <1>2
    <3>2. s.op = "write" /\ s.reg = "OFFSET" => temp'[t] \in Contents(Drv, "OFFSET")
      <4>1. SUFFICES ASSUME s.op = "write", s.reg = "OFFSET" PROVE temp'[t] \in Contents(Drv, "OFFSET")
        OBVIOUS
      <4>2. At(t, {"write"}) /\ RegOf(t) = "OFFSET"
        BY <1>2, <4>1 DEF At
      <4> QED BY <4>1, <4>2, <1>7, HeadFed
    <3> HIDE DEF s
    <3> QED BY <1>2, <1>3, <1>4, <2>2, <3>1, <3>2, SoundStep DEF s
  <2> QED BY <2>1, <2>2
<1>11. SentOK(t)'
  BY <1>4 DEF SentOK
<1>12. addr' # Panel => SetsFps(t)' /\ Len(job'[t]) \in {2, 3}
  <2>1. ASSUME addr # Panel
        PROVE  SetsFps(t) /\ Len(job'[t]) \in {2, 3}
    <3>1. SetsFps(t) /\ Len(job[t]) \in {2, 3}
      BY <1>2, <2>1, AddrWhile
    <3>a. s.op # "write"
      <4>1. s.op = "write" => Len(job[t]) = 1
        BY <1>2, <3>1, FpsPlace
      <4> QED BY <3>1, <4>1
    <3>2. Len(job[t]) = 3 /\ k = 0
      BY <1>2, <3>1, <3>a, FpsPlace, FailOutcomes
    <3>3. Len(job'[t]) = Len(job[t]) - 1
      BY <1>2, <1>4, <3>1, <3>2, FpsNext
    <3>4. Len(job'[t]) = 2
      BY <3>2, <3>3
    <3> QED BY <3>1, <3>4
  <2> QED BY <1>3, <2>1 DEF SetsFps
<1> QED BY <1>2, <1>3, <1>4, <1>6, <1>8, <1>9, <1>10, <1>11, <1>12, StepFrame

(* A write arrives.                                                        *)
LEMMA WriteStep ==
  ASSUME TInv, NEW t \in Threads, Write(t)
  PROVE  TInv'
<1> DEFINE s == job[t][1]
           g == RegOf(t)
           m == Modified(t)
<1>1. At(t, {"write"}) /\ At(t, Reads \cup {"write"})
  BY DEF Write, At
<1>2. job[t] # << >> /\ s.op = "write" /\ Drv \in Driver /\ s \in StepSet(Drv) /\ g \in Regs(Drv)
      /\ (s.reg # "sysfs" => g = s.reg)
  BY <1>1, Transfer, AtWork DEF At
<1>3. UNCHANGED <<scen, addr, sysfsReg, mutex, loc, req, seen, saved, ok, faults>> /\ Continue(t, 0)
  BY DEF Write
<1>4. /\ job'[t] = Rest(job[t], 0) /\ ~ sent'[t] /\ sent' \in [Threads -> BOOLEAN]
      /\ \A u \in Threads \ {t} : job'[u] = job[u] /\ sent'[u] = sent[u]
      /\ DOMAIN job' = Threads /\ \A u \in Threads : StepSeq(Drv', job'[u])
      /\ Drv' = Drv
  BY <1>2, <1>3, Continued
<1>5. m \in Contents(Drv, g)
  BY <1>1, HeadFed
<1>6. DOMAIN temp' = Threads /\ temp'[t] = m /\ \A u \in Threads \ {t} : temp'[u] = temp[u]
  BY DEF Write, TInv, Arrays
<1> HIDE DEF m, g
<1>7. DOMAIN regs' = Panel /\ \A p \in Panel : DOMAIN regs'[p] = Regs(Drv)
  <2>1. regs' = [p \in Panel |-> IF p \in Dest(t) THEN [regs[p] EXCEPT ![g] = m] ELSE regs[p]]
    BY DEF Write, m, g
  <2> QED BY <2>1 DEF TInv, Arrays
<1>8. ASSUME NEW p \in Panel, NEW h \in Regs(Drv)
      PROVE  regs'[p][h] \in Contents(Drv, h)
  <2>1. regs'[p] = IF p \in Dest(t) THEN [regs[p] EXCEPT ![g] = m] ELSE regs[p]
    BY DEF Write, m, g
  <2>2. DOMAIN regs[p] = Regs(Drv) /\ regs[p][h] \in Contents(Drv, h)
    BY DEF TInv, Arrays
  <2> QED BY <2>1, <2>2, <1>2, <1>5
<1>9. ptr' \in [Panel -> Regs(Drv)]
  BY <1>2 DEF Write, TInv, Arrays, g
<1>10. Arrays'
  BY <1>3, <1>4, <1>6, <1>7, <1>8, <1>9 DEF TInv, Arrays
<1>11. FpsOK(t)'
  <2>1. CASE SetsFps(t)
    <3>1. Drv = "jbd4040" /\ Len(job[t]) = 1
      BY <1>2, <2>1, FpsHead, FpsPlace
    <3>2. /\ Len(job'[t]) = Len(job[t]) - 1
          /\ \A i \in 1 .. Len(job'[t]) : job'[t][i] = StoreFps(req[t])[i + (4 - Len(job'[t]))]
      BY <1>2, <1>4, <2>1, FpsNext
    <3>3. Len(job'[t]) \notin {1, 2, 3, 4} /\ Len(job'[t]) \in 0 .. 4
      BY <3>1, <3>2
    <3>4. req'[t] = req[t]
      BY <1>3
    <3> QED BY <1>4, <3>1, <3>2, <3>3, <3>4 DEF FpsOK
  <2>2. CASE ~ SetsFps(t)
    BY <2>2, <1>3 DEF FpsOK, SetsFps
  <2> QED BY <2>1, <2>2
<1>12. SoundOK(t)'
  <2>1. CASE SetsFps(t)
    BY <2>1, <1>3 DEF SoundOK, SetsFps
  <2>2. CASE ~ SetsFps(t)
    <3>1. s.reg = "OFFSET" => temp'[t] \in Contents(Drv, "OFFSET")
      BY <1>2, <1>5, <1>6
    <3>2. s.op \notin {"read", "readhv"}
      BY <1>2
    <3> HIDE DEF s
    <3> QED BY <1>2, <1>3, <1>4, <2>2, <3>1, <3>2, SoundStep DEF s
  <2> QED BY <2>1, <2>2
<1>13. SentOK(t)'
  BY <1>4 DEF SentOK
<1>14. addr' = Panel
  <2>1. SUFFICES ASSUME addr # Panel PROVE FALSE
    BY <1>3
  <2>2. SetsFps(t) /\ Len(job[t]) \in {2, 3}
    BY <1>2, <2>1, AddrWhile
  <2>3. Len(job[t]) = 1
    BY <1>2, <2>2, FpsPlace
  <2> QED BY <2>2, <2>3
<1> QED BY <1>2, <1>3, <1>4, <1>6, <1>10, <1>11, <1>12, <1>13, <1>14, StepFrame

(* store_fps turns the client to red ...                                   *)
LEMMA ChangeAddrStep ==
  ASSUME TInv, NEW t \in Threads, ChangeAddr(t)
  PROVE  TInv'
<1> DEFINE s == job[t][1]
<1>1. job[t] # << >> /\ s.op = "take"
  BY AtWork DEF ChangeAddr, At
<1>2. SetsFps(t)
  <2>1. SUFFICES ASSUME ~ SetsFps(t) PROVE FALSE
    OBVIOUS
  <2>2. Sound(Drv, job[t]) /\ Len(job[t]) > 0 /\ Len(job[t]) \in Nat
    BY <1>1, <2>1, AtWork DEF TInv, HandlersOK, SoundOK
  <2> QED BY <1>1, <2>2 DEF Sound
<1>3. UNCHANGED <<scen, regs, ptr, sysfsReg, mutex, loc, req, temp, seen, ok, faults>> /\ Continue(t, 0)
      /\ addr' = {"R"}
  BY DEF ChangeAddr
<1>4. /\ job'[t] = Rest(job[t], 0) /\ ~ sent'[t] /\ sent' \in [Threads -> BOOLEAN]
      /\ \A u \in Threads \ {t} : job'[u] = job[u] /\ sent'[u] = sent[u]
      /\ DOMAIN job' = Threads /\ \A u \in Threads : StepSeq(Drv', job'[u])
      /\ Drv' = Drv
  BY <1>1, <1>3, Continued
<1>5. Len(job[t]) = 4 /\ Drv = "jbd4040"
  BY <1>1, <1>2, FpsHead, FpsPlace
<1>6. /\ Len(job'[t]) = Len(job[t]) - 1
      /\ \A i \in 1 .. Len(job'[t]) : job'[t][i] = StoreFps(req[t])[i + (4 - Len(job'[t]))]
  BY <1>1, <1>2, <1>4, FpsNext
<1>7. addr = Panel
  BY <1>1, <1>5, AddrWhile
<1>8. saved' \in [Threads -> SUBSET Panel] /\ saved'[t] = Panel /\ \A u \in Threads \ {t} : saved'[u] = saved[u]
  BY <1>7 DEF ChangeAddr, TInv, Arrays
<1>9. Arrays'
  BY <1>3, <1>4, <1>8 DEF TInv, Arrays
<1>10. Len(job'[t]) = 3
  BY <1>5, <1>6
<1>11. ok[t]
  BY <1>2, <1>5 DEF TInv, HandlersOK, FpsOK
<1>12. FpsOK(t)'
  <2>1. Len(job'[t]) \notin {1, 2} /\ Len(job'[t]) \in 0 .. 4
    BY <1>10
  <2>2. req'[t] = req[t] /\ ok'[t] = ok[t]
    BY <1>3
  <2> QED BY <1>3, <1>4, <1>5, <1>6, <1>8, <1>11, <2>1, <2>2 DEF FpsOK
<1>13. SoundOK(t)' /\ SentOK(t)'
  BY <1>2, <1>3, <1>4 DEF SoundOK, SentOK, SetsFps
<1>14. SetsFps(t)'
  BY <1>2, <1>3 DEF SetsFps
<1> QED BY <1>1, <1>3, <1>4, <1>8, <1>9, <1>10, <1>12, <1>13, <1>14, StepFrame

(* ... and back.                                                           *)
LEMMA RestoreAddrStep ==
  ASSUME TInv, NEW t \in Threads, RestoreAddr(t)
  PROVE  TInv'
<1> DEFINE s == job[t][1]
           k == IF ok[t] THEN 0 ELSE 99
<1>1. job[t] # << >> /\ s.op = "give"
  BY AtWork DEF RestoreAddr, At
<1>2. SetsFps(t)
  <2>1. SUFFICES ASSUME ~ SetsFps(t) PROVE FALSE
    OBVIOUS
  <2>2. Sound(Drv, job[t]) /\ Len(job[t]) > 0 /\ Len(job[t]) \in Nat
    BY <1>1, <2>1, AtWork DEF TInv, HandlersOK, SoundOK
  <2> QED BY <1>1, <2>2 DEF Sound
<1>3. UNCHANGED <<scen, regs, ptr, sysfsReg, mutex, loc, req, temp, seen, saved, ok, faults>> /\ Continue(t, k)
      /\ addr' = saved[t] /\ k \in Nat
  BY FailOutcomes DEF RestoreAddr
<1>4. /\ job'[t] = Rest(job[t], k) /\ ~ sent'[t] /\ sent' \in [Threads -> BOOLEAN]
      /\ \A u \in Threads \ {t} : job'[u] = job[u] /\ sent'[u] = sent[u]
      /\ DOMAIN job' = Threads /\ \A u \in Threads : StepSeq(Drv', job'[u])
      /\ Drv' = Drv
  BY <1>1, <1>3, Continued
<1>5. Len(job[t]) = 2 /\ Drv = "jbd4040"
  BY <1>1, <1>2, FpsHead, FpsPlace
<1>6. /\ Len(job'[t]) = IF k + 1 <= Len(job[t]) THEN Len(job[t]) - (k + 1) ELSE 0
      /\ \A i \in 1 .. Len(job'[t]) : job'[t][i] = StoreFps(req[t])[i + (4 - Len(job'[t]))]
  <2> HIDE DEF k
  <2>1. k \in Nat /\ job'[t] = Rest(job[t], k)
    BY <1>3, <1>4
  <2> QED BY <1>1, <1>2, <2>1, FpsRest
<1>7. addr' = Panel
  BY <1>2, <1>3, <1>5 DEF TInv, HandlersOK, FpsOK
<1>8. Arrays'
  BY <1>3, <1>4, <1>7 DEF TInv, Arrays
<1>9. Len(job'[t]) \in {0, 1} /\ (Len(job'[t]) = 1 => ok[t])
  BY <1>5, <1>6
<1>10. Len(job'[t]) = 1 => temp'[t] \in Contents(Drv', "FPS")
  BY <1>2, <1>3, <1>4, <1>5, <1>9 DEF TInv, HandlersOK, FpsOK
<1>11. FpsOK(t)'
  <2>1. Len(job'[t]) \notin {2, 3, 4} /\ Len(job'[t]) \in 0 .. 4
    BY <1>9
  <2>2. req'[t] = req[t]
    BY <1>3
  <2> QED BY <1>4, <1>5, <1>6, <1>10, <2>1, <2>2 DEF FpsOK
<1>12. SoundOK(t)' /\ SentOK(t)'
  BY <1>2, <1>3, <1>4 DEF SoundOK, SentOK, SetsFps
<1> QED BY <1>1, <1>3, <1>4, <1>7, <1>8, <1>11, <1>12, StepFrame

(* Steps without a transfer.                                               *)
LEMMA OwnStep ==
  ASSUME TInv, NEW t \in Threads, SelectReg(t) \/ AskIfOn(t)
  PROVE  TInv'
<1> DEFINE s == job[t][1]
<1>1. job[t] # << >> /\ s.op \in {"select", "ask"} /\ s \in StepSet(Drv) /\ Head(job[t]) = s
  BY AtWork DEF SelectReg, AskIfOn, At
<1>2. ~ SetsFps(t)
  BY <1>1, FpsPlace
<1>3. UNCHANGED <<scen, regs, ptr, addr, mutex, loc, req, temp, seen, saved, ok, faults>>
  BY DEF SelectReg, AskIfOn, hw
<1>4. PICK k \in {0, Jump(s)} : Continue(t, k)
  <2>1. CASE SelectReg(t)
    BY <2>1 DEF SelectReg
  <2>2. CASE AskIfOn(t)
    <3>1. s.op = "ask"
      BY <2>2, <1>1 DEF AskIfOn, At
    <3>2. Jump(s) = 1
      BY <3>1 DEF Jump
    <3> QED BY <2>2, <3>2 DEF AskIfOn
  <2> QED BY <2>1, <2>2
<1>5. k \in Nat
  BY <1>1, StepKinds
<1>6. /\ job'[t] = Rest(job[t], k) /\ ~ sent'[t] /\ sent' \in [Threads -> BOOLEAN]
      /\ \A u \in Threads \ {t} : job'[u] = job[u] /\ sent'[u] = sent[u]
      /\ DOMAIN job' = Threads /\ \A u \in Threads : StepSeq(Drv', job'[u])
      /\ Drv' = Drv
  BY <1>1, <1>3, <1>4, <1>5, Continued
<1>7. sysfsReg' \in Regs(Drv)
  <2>1. CASE SelectReg(t)
    <3>1. s.op = "select" /\ sysfsReg' = s.reg
      BY <2>1, <1>1 DEF SelectReg, At
    <3> QED BY <3>1, <1>1, StepKinds
  <2>2. CASE AskIfOn(t)
    BY <2>2 DEF AskIfOn, hw, TInv, Arrays
  <2> QED BY <2>1, <2>2
<1>8. Arrays'
  BY <1>3, <1>6, <1>7 DEF TInv, Arrays
<1>9. FpsOK(t)' /\ SentOK(t)'
  BY <1>2, <1>3, <1>6 DEF FpsOK, SentOK, SetsFps
<1>10. SoundOK(t)'
  <2>1. s.op \notin {"read", "readhv", "write"}
    BY <1>1
  <2> HIDE DEF s
  <2> QED BY <1>1, <1>2, <1>3, <1>4, <1>6, <2>1, SoundStep DEF s
<1>11. addr' = Panel
  BY <1>1, <1>2, <1>3, AddrWhile
<1> QED BY <1>1, <1>3, <1>6, <1>8, <1>9, <1>10, <1>11, StepFrame

(* A request is not the absence of one.                                    *)
LEMMA SomeRequest ==
  ASSUME scen \in Scenarios, NEW r \in scen.requests
  PROVE  r # NoReq
<1>1. r.by \in {"ioctl", "show", "store"}
  BY ScenarioRequest
<1> QED BY <1>1 DEF NoReq

(* A handler that begins.                                                  *)
LEMMA BeginStep ==
  ASSUME TInv, NEW t \in Threads, loc[t] # "run", NEW r \in scen.requests, req'[t] = r,
         UNCHANGED <<scen, hw, sent, temp, seen, saved, ok, faults>>,
         loc' = [loc EXCEPT ![t] = "run"], job' = [job EXCEPT ![t] = Steps(r)]
  PROVE  /\ DOMAIN job' = Threads /\ \A u \in Threads : StepSeq(Drv', job'[u])
         /\ FpsOK(t)' /\ SoundOK(t)' /\ SentOK(t)'
<1>1. scen \in Scenarios /\ Drv' = Drv
  BY DEF TInv, Arrays, Drv
<1>2. DOMAIN job = Threads /\ DOMAIN loc = Threads /\ \A u \in Threads : StepSeq(Drv, job[u])
  BY DEF TInv, Arrays
<1>3. job'[t] = Steps(r) /\ loc'[t] = "run" /\ DOMAIN job' = Threads
      /\ \A u \in Threads \ {t} : job'[u] = job[u]
  BY <1>2
<1>4. ~ sent'[t] /\ ok'[t]
  BY DEF TInv, RestInv
<1>5. addr' = addr
  BY DEF hw
<1>6. CASE r.by = "store" /\ r.name = "fps"
  <2>1. /\ Drv = "jbd4040" /\ Steps(r) = StoreFps(r) /\ Len(StoreFps(r)) = 4
        /\ [idx |-> r.n] \in Settings("jbd4040", "FPS")
    BY <1>1, <1>6, FpsHandler
  <2>2. StoreFps(r) \in Seq(StepSet(Drv))
    BY <2>1, FpsSteps
  <2>3. StepSeq(Drv', job'[t])
    BY <1>1, <1>3, <2>1, <2>2 DEF StepSeq
  <2>4. SetsFps(t)'
    BY <1>3, <1>6 DEF SetsFps
  <2>5. Len(job'[t]) = 4 /\ Len(job'[t]) \notin {1, 2, 3} /\ Len(job'[t]) \in 0 .. 4
    BY <1>3, <2>1
  <2>6. ASSUME NEW i \in 1 .. Len(job'[t])
        PROVE  job'[t][i] = StoreFps(r)[i + (4 - Len(job'[t]))]
    <3>1. i \in 1 .. 4
      BY <2>5
    <3>2. i + (4 - 4) = i
      BY <3>1
    <3>3. Len(job'[t]) = 4
      BY <2>5
    <3> QED BY <1>3, <2>1, <3>2, <3>3
  <2>7. FpsOK(t)'
    BY <1>1, <1>4, <2>1, <2>5, <2>6 DEF FpsOK
  <2> QED BY <1>1, <1>2, <1>3, <1>4, <2>3, <2>4, <2>7 DEF SoundOK, SentOK
<1>7. CASE ~ (r.by = "store" /\ r.name = "fps")
  <2>1. Block(Drv, Steps(r))
    BY <1>1, <1>7, HandlerBlock
  <2>2. Sound(Drv, Steps(r)) /\ (Steps(r) # << >> => Fresh(Drv, Steps(r)[1]))
    BY <2>1 DEF Block
  <2>3. StepSeq(Drv', job'[t])
    BY <1>1, <1>3, <2>2 DEF Sound
  <2>4. ~ SetsFps(t)'
    BY <1>7 DEF SetsFps
  <2>5. SoundOK(t)'
    BY <1>1, <1>3, <2>2 DEF SoundOK, Fresh
  <2> QED BY <1>1, <1>2, <1>3, <1>4, <2>3, <2>4, <2>5 DEF FpsOK, SentOK
<1> QED BY <1>6, <1>7

(* Others are not disturbed by a thread that starts or ends.               *)
LEMMA OthersKeep ==
  ASSUME TInv, NEW t \in Threads, UNCHANGED <<scen, hw, sent, temp, saved, ok>>,
         \A u \in Threads \ {t} : loc'[u] = loc[u] /\ req'[u] = req[u] /\ job'[u] = job[u],
         NEW u \in Threads \ {t}
  PROVE  FpsOK(u)' /\ SoundOK(u)' /\ SentOK(u)'
<1>1. FpsOK(u) /\ SoundOK(u) /\ SentOK(u)
  BY DEF TInv, HandlersOK
<1>2. Drv' = Drv /\ addr' = addr /\ ptr' = ptr /\ sysfsReg' = sysfsReg
  BY DEF Drv, hw
<1>3. loc'[u] = loc[u] /\ req'[u] = req[u] /\ job'[u] = job[u] /\ sent'[u] = sent[u]
      /\ temp'[u] = temp[u] /\ saved'[u] = saved[u] /\ ok'[u] = ok[u]
  OBVIOUS
<1>4. FpsOK(u)'
  BY <1>1, <1>2, <1>3 DEF FpsOK, SetsFps
<1>5. SoundOK(u)'
  BY <1>1, <1>2, <1>3 DEF SoundOK, SetsFps
<1>6. SentOK(u)'
  BY <1>1, <1>2, <1>3 DEF SentOK, Dest, RegOf
<1> QED BY <1>4, <1>5, <1>6

(* Between attributes and other handlers the address is the broadcast one. *)
LEMMA AddrOtherwise ==
  ASSUME TInv, NEW t \in Threads, ~ (SetsFps(t) /\ Len(job[t]) \in {2, 3}), addr' = addr,
         \A w \in Threads \ {t} : loc'[w] = loc[w] /\ req'[w] = req[w] /\ job'[w] = job[w]
  PROVE  AddrInv'
<1>1. SUFFICES ASSUME addr # Panel PROVE \E w \in Threads : SetsFps(w)' /\ Len(job'[w]) \in {2, 3}
  BY DEF AddrInv
<1>2. PICK w \in Threads : SetsFps(w) /\ Len(job[w]) \in {2, 3}
  BY <1>1 DEF TInv, AddrInv
<1>3. w \in Threads \ {t}
  BY <1>2
<1> QED BY <1>2, <1>3 DEF SetsFps

(* An attribute is opened.                                                 *)
LEMMA StartAttributeStep ==
  ASSUME TInv, NEW t \in Threads, StartAttribute(t)
  PROVE  TInv'
<1>1. PICK r \in scen.requests : /\ r.by \in {"show", "store"} /\ MayStart(t, r)
                                 /\ req' = [req EXCEPT ![t] = r] /\ Begin(t, r)
  BY DEF StartAttribute
<1>2. loc[t] = "idle" /\ UNCHANGED <<scen, hw, mutex, sent, temp, seen, saved, ok, faults>>
  BY DEF StartAttribute
<1>3. loc' = [loc EXCEPT ![t] = "run"] /\ job' = [job EXCEPT ![t] = Steps(r)]
  BY <1>1 DEF Begin
<1>4. /\ DOMAIN loc = Threads /\ DOMAIN req = Threads /\ DOMAIN job = Threads /\ scen \in Scenarios
      /\ req \in [Threads -> scen.requests \cup {NoReq}] /\ loc \in [Threads -> {"idle", "wait", "run"}]
  BY DEF TInv, Arrays
<1>5. /\ req'[t] = r /\ loc'[t] = "run"
      /\ \A u \in Threads \ {t} : loc'[u] = loc[u] /\ req'[u] = req[u] /\ job'[u] = job[u]
  BY <1>1, <1>3, <1>4
<1>6. \A u \in Threads \ {t} : loc[u] = "idle"
  BY <1>1 DEF MayStart
<1>7. /\ DOMAIN job' = Threads /\ \A u \in Threads : StepSeq(Drv', job'[u])
      /\ FpsOK(t)' /\ SoundOK(t)' /\ SentOK(t)'
  BY <1>2, <1>3, <1>5, BeginStep
<1>8. Arrays'
  <2>1. req' \in [Threads -> scen.requests \cup {NoReq}] /\ loc' \in [Threads -> {"idle", "wait", "run"}]
    BY <1>1, <1>3, <1>4
  <2>2. Drv' = Drv /\ UNCHANGED <<regs, ptr, addr, sysfsReg>>
    BY <1>2 DEF Drv, hw
  <2> QED BY <1>2, <1>7, <2>1, <2>2 DEF TInv, Arrays
<1>9. r # NoReq /\ r.by # "ioctl"
  BY <1>1, <1>4, SomeRequest
<1>10. RestInv'
  <2>1. mutex # t
    BY <1>2 DEF TInv, RestInv
  <2>2. ASSUME NEW u \in Threads
        PROVE  /\ loc'[u] # "run" => job'[u] = << >> /\ ~ sent'[u] /\ ok'[u] /\ temp'[u] = << >> /\ saved'[u] = Panel
               /\ loc'[u] = "idle" <=> req'[u] = NoReq
               /\ loc'[u] = "wait" => req'[u].by = "ioctl"
               /\ loc'[u] = "run" /\ req'[u].by = "ioctl" <=> mutex' = u
    <3>1. CASE u = t
      BY <3>1, <1>2, <1>5, <1>9, <2>1
    <3>2. CASE u # t
      BY <3>2, <1>2, <1>5 DEF TInv, RestInv
    <3> QED BY <3>1, <3>2
  <2> QED BY <2>2, Zenon DEF RestInv, NoReq
<1>11. ApartInv'
  BY <1>5, <1>6 DEF ApartInv
<1>12. HandlersOK'
  <2>1. ASSUME NEW u \in Threads
        PROVE  FpsOK(u)' /\ SoundOK(u)' /\ SentOK(u)'
    <3>1. CASE u = t
      BY <3>1, <1>7
    <3>2. CASE u # t
      BY <3>2, <1>2, <1>5, OthersKeep
    <3> QED BY <3>1, <3>2
  <2> QED BY <2>1 DEF HandlersOK
<1>13. AddrInv'
  BY <1>2, <1>5, AddrOtherwise DEF SetsFps, hw
<1> QED BY <1>8, <1>10, <1>11, <1>12, <1>13 DEF TInv

(* An ioctl is called ...                                                  *)
LEMMA StartIoctlStep ==
  ASSUME TInv, NEW t \in Threads, StartIoctl(t)
  PROVE  TInv'
<1>1. PICK r \in scen.requests : r.by = "ioctl" /\ MayStart(t, r) /\ req' = [req EXCEPT ![t] = r]
  BY DEF StartIoctl
<1>2. loc[t] = "idle" /\ UNCHANGED <<scen, hw, mutex, job, sent, temp, seen, saved, ok, faults>>
      /\ loc' = [loc EXCEPT ![t] = "wait"]
  BY DEF StartIoctl
<1>3. /\ DOMAIN loc = Threads /\ DOMAIN req = Threads /\ scen \in Scenarios
      /\ req \in [Threads -> scen.requests \cup {NoReq}] /\ loc \in [Threads -> {"idle", "wait", "run"}]
  BY DEF TInv, Arrays
<1>4. /\ req'[t] = r /\ loc'[t] = "wait"
      /\ \A u \in Threads \ {t} : loc'[u] = loc[u] /\ req'[u] = req[u] /\ job'[u] = job[u]
  BY <1>1, <1>2, <1>3
<1>5. Arrays'
  <2>1. req' \in [Threads -> scen.requests \cup {NoReq}] /\ loc' \in [Threads -> {"idle", "wait", "run"}]
    BY <1>1, <1>2, <1>3
  <2>2. Drv' = Drv /\ UNCHANGED <<regs, ptr, addr, sysfsReg>>
    BY <1>2 DEF Drv, hw
  <2> QED BY <1>2, <2>1, <2>2 DEF TInv, Arrays
<1>6. r # NoReq
  BY <1>1, <1>3, SomeRequest
<1>7. RestInv'
  <2>1. mutex # t
    BY <1>2 DEF TInv, RestInv
  <2>2. ASSUME NEW u \in Threads
        PROVE  /\ loc'[u] # "run" => job'[u] = << >> /\ ~ sent'[u] /\ ok'[u] /\ temp'[u] = << >> /\ saved'[u] = Panel
               /\ loc'[u] = "idle" <=> req'[u] = NoReq
               /\ loc'[u] = "wait" => req'[u].by = "ioctl"
               /\ loc'[u] = "run" /\ req'[u].by = "ioctl" <=> mutex' = u
    <3>1. CASE u = t
      BY <3>1, <1>1, <1>2, <1>4, <1>6, <2>1 DEF TInv, RestInv
    <3>2. CASE u # t
      BY <3>2, <1>2, <1>4 DEF TInv, RestInv
    <3> QED BY <3>1, <3>2
  <2> QED BY <2>2, Zenon DEF RestInv, NoReq
<1>8. ApartInv'
  BY <1>1, <1>4 DEF TInv, ApartInv, MayStart
<1>9. HandlersOK'
  <2>1. ASSUME NEW u \in Threads
        PROVE  FpsOK(u)' /\ SoundOK(u)' /\ SentOK(u)'
    <3>1. CASE u = t
      <4>1. loc'[t] # "run" /\ ~ sent'[t]
        BY <1>2, <1>4 DEF TInv, RestInv
      <4> QED BY <3>1, <4>1 DEF FpsOK, SoundOK, SentOK, SetsFps
    <3>2. CASE u # t
      BY <3>2, <1>2, <1>4, OthersKeep
    <3> QED BY <3>1, <3>2
  <2> QED BY <2>1 DEF HandlersOK
<1>10. AddrInv'
  BY <1>2, <1>4, AddrOtherwise DEF SetsFps, hw
<1> QED BY <1>5, <1>7, <1>8, <1>9, <1>10 DEF TInv

(* ... and gets the mutex.                                                 *)
LEMMA LockStep ==
  ASSUME TInv, NEW t \in Threads, Lock(t)
  PROVE  TInv'
<1> DEFINE r == req[t]
<1>1. loc[t] = "wait" /\ mutex = NoThread /\ mutex' = t /\ UNCHANGED <<scen, hw, req, sent, temp, seen, saved, ok, faults>>
  BY DEF Lock
<1>2. loc' = [loc EXCEPT ![t] = "run"] /\ job' = [job EXCEPT ![t] = Steps(r)]
  BY DEF Lock, Begin
<1>3. /\ DOMAIN loc = Threads /\ DOMAIN req = Threads /\ DOMAIN job = Threads /\ scen \in Scenarios
      /\ req \in [Threads -> scen.requests \cup {NoReq}] /\ loc \in [Threads -> {"idle", "wait", "run"}]
  BY DEF TInv, Arrays
<1>4. r \in scen.requests /\ r.by = "ioctl" /\ r # NoReq
  BY <1>1, <1>3 DEF TInv, RestInv
<1>5. /\ req'[t] = r /\ loc'[t] = "run"
      /\ \A u \in Threads \ {t} : loc'[u] = loc[u] /\ req'[u] = req[u] /\ job'[u] = job[u]
  BY <1>1, <1>2, <1>3
<1> HIDE DEF r
<1>6. /\ DOMAIN job' = Threads /\ \A u \in Threads : StepSeq(Drv', job'[u])
      /\ FpsOK(t)' /\ SoundOK(t)' /\ SentOK(t)'
  BY <1>1, <1>2, <1>4, <1>5, BeginStep
<1>7. Arrays'
  <2>1. loc' \in [Threads -> {"idle", "wait", "run"}]
    BY <1>2, <1>3
  <2>2. Drv' = Drv /\ UNCHANGED <<regs, ptr, addr, sysfsReg>>
    BY <1>1 DEF Drv, hw
  <2> QED BY <1>1, <1>6, <2>1, <2>2 DEF TInv, Arrays
<1>8. RestInv'
  <2>1. ASSUME NEW u \in Threads
        PROVE  /\ loc'[u] # "run" => job'[u] = << >> /\ ~ sent'[u] /\ ok'[u] /\ temp'[u] = << >> /\ saved'[u] = Panel
               /\ loc'[u] = "idle" <=> req'[u] = NoReq
               /\ loc'[u] = "wait" => req'[u].by = "ioctl"
               /\ loc'[u] = "run" /\ req'[u].by = "ioctl" <=> mutex' = u
    <3>1. CASE u = t
      BY <3>1, <1>1, <1>4, <1>5
    <3>2. CASE u # t
      <4>1. mutex # u
        BY <1>1, NoThreadAssumption
      <4> QED BY <3>2, <4>1, <1>1, <1>5 DEF TInv, RestInv
    <3> QED BY <3>1, <3>2
  <2> QED BY <2>1, Zenon DEF RestInv, NoReq
<1>9. ApartInv'
  BY <1>1, <1>4, <1>5 DEF TInv, ApartInv
<1>10. HandlersOK'
  <2>1. ASSUME NEW u \in Threads
        PROVE  FpsOK(u)' /\ SoundOK(u)' /\ SentOK(u)'
    <3>1. CASE u = t
      BY <3>1, <1>6
    <3>2. CASE u # t
      BY <3>2, <1>1, <1>5, OthersKeep
    <3> QED BY <3>1, <3>2
  <2> QED BY <2>1 DEF HandlersOK
<1>11. AddrInv'
  BY <1>1, <1>5, AddrOtherwise DEF SetsFps, hw
<1> QED BY <1>7, <1>8, <1>9, <1>10, <1>11 DEF TInv

(* A handler returns.                                                      *)
LEMMA ReturnStep ==
  ASSUME TInv, NEW t \in Threads, Return(t)
  PROVE  TInv'
<1>1. loc[t] = "run" /\ job[t] = << >> /\ UNCHANGED <<scen, hw, job, sent, faults>>
  BY DEF Return, AtEnd
<1>2. /\ loc' = [loc EXCEPT ![t] = "idle"] /\ req' = [req EXCEPT ![t] = NoReq]
      /\ temp' = [temp EXCEPT ![t] = << >>] /\ seen' = [seen EXCEPT ![t] = << >>]
      /\ saved' = [saved EXCEPT ![t] = Panel] /\ ok' = [ok EXCEPT ![t] = TRUE]
      /\ mutex' = IF req[t].by = "ioctl" THEN NoThread ELSE mutex
  BY DEF Return
<1>3. ~ sent[t]
  BY <1>1 DEF TInv, HandlersOK, SentOK
<1>4. Arrays'
  <2>1. Drv' = Drv /\ UNCHANGED <<regs, ptr, addr, sysfsReg>>
    BY <1>1 DEF Drv, hw
  <2>2. /\ req' \in [Threads -> scen.requests \cup {NoReq}] /\ loc' \in [Threads -> {"idle", "wait", "run"}]
        /\ DOMAIN temp' = Threads /\ DOMAIN seen' = Threads /\ saved' \in [Threads -> SUBSET Panel]
        /\ ok' \in [Threads -> BOOLEAN] /\ mutex' \in Threads \cup {NoThread}
    BY <1>2 DEF TInv, Arrays
  <2> QED BY <1>1, <2>1, <2>2 DEF TInv, Arrays
<1>5. /\ loc'[t] = "idle" /\ req'[t] = NoReq /\ temp'[t] = << >> /\ saved'[t] = Panel /\ ok'[t]
      /\ \A u \in Threads \ {t} : /\ loc'[u] = loc[u] /\ req'[u] = req[u] /\ job'[u] = job[u]
                                  /\ temp'[u] = temp[u] /\ saved'[u] = saved[u] /\ ok'[u] = ok[u]
  BY <1>1, <1>2 DEF TInv, Arrays
<1>6. \A u \in Threads \ {t} : loc[u] # "run"
  BY <1>1, OneRuns DEF TInv
<1>7. mutex' # t
  <2>1. NoThread # t
    BY NoThreadAssumption
  <2> QED BY <1>1, <1>2, <2>1 DEF TInv, RestInv
<1>8. \A u \in Threads \ {t} : mutex' # u
  <2>1. \A u \in Threads \ {t} : mutex # u /\ NoThread # u
    BY <1>6, NoThreadAssumption DEF TInv, RestInv
  <2> QED BY <1>2, <2>1
<1>9. RestInv'
  <2>1. ASSUME NEW u \in Threads
        PROVE  /\ loc'[u] # "run" => job'[u] = << >> /\ ~ sent'[u] /\ ok'[u] /\ temp'[u] = << >> /\ saved'[u] = Panel
               /\ loc'[u] = "idle" <=> req'[u] = NoReq
               /\ loc'[u] = "wait" => req'[u].by = "ioctl"
               /\ loc'[u] = "run" /\ req'[u].by = "ioctl" <=> mutex' = u
    <3>1. CASE u = t
      BY <3>1, <1>1, <1>3, <1>5, <1>7
    <3>2. CASE u # t
      BY <3>2, <1>1, <1>5, <1>6, <1>8 DEF TInv, RestInv
    <3> QED BY <3>1, <3>2
  <2> QED BY <2>1, Zenon DEF RestInv, NoReq
<1>10. ApartInv'
  BY <1>5 DEF TInv, ApartInv
<1>11. HandlersOK'
  <2>1. ASSUME NEW u \in Threads
        PROVE  FpsOK(u)' /\ SoundOK(u)' /\ SentOK(u)'
    <3>1. loc'[u] # "run" /\ ~ sent'[u]
      BY <1>1, <1>3, <1>5, <1>6 DEF TInv, RestInv
    <3> QED BY <3>1 DEF FpsOK, SoundOK, SentOK, SetsFps
  <2> QED BY <2>1 DEF HandlersOK
<1>12. AddrInv'
  <2>1. Len(job[t]) \notin {2, 3}
    BY <1>1, EmptySeq
  <2> QED BY <1>1, <1>5, <2>1, AddrOtherwise DEF hw
<1> QED BY <1>4, <1>9, <1>10, <1>11, <1>12 DEF TInv

(* A step that changes nothing a handler's promise is about keeps it.      *)
LEMMA OthersUntouched ==
  ASSUME TInv, UNCHANGED <<scen, regs, ptr, addr, sysfsReg, loc, req, job, sent, temp, saved, ok>>,
         NEW t \in Threads
  PROVE  FpsOK(t)' /\ SoundOK(t)' /\ SentOK(t)'
<1>1. FpsOK(t) /\ SoundOK(t) /\ SentOK(t)
  BY DEF TInv, HandlersOK
<1>2. Drv' = Drv
  BY DEF Drv
<1>3. FpsOK(t)'
  BY <1>1, <1>2 DEF FpsOK, SetsFps
<1>4. SoundOK(t)'
  BY <1>1, <1>2 DEF SoundOK, SetsFps
<1>5. SentOK(t)'
  BY <1>1, <1>2 DEF SentOK, Dest, RegOf
<1> QED BY <1>3, <1>4, <1>5

(* Every step keeps the invariant.                                         *)
LEMMA NextKeeps == TInv /\ [Next]_vars => TInv'
<1> SUFFICES ASSUME TInv, [Next]_vars PROVE TInv'
  OBVIOUS
<1>1. CASE UNCHANGED vars
  <2>1. UNCHANGED <<scen, regs, ptr, addr, sysfsReg, mutex, loc, req, job, sent, temp, seen, saved, ok, faults>>
    BY <1>1 DEF vars, hw
  <2>2. Drv' = Drv /\ Arrays'
    BY <2>1 DEF TInv, Arrays, Drv
  <2>3. RestInv' /\ ApartInv' /\ AddrInv'
    BY <2>1 DEF TInv, RestInv, ApartInv, AddrInv, SetsFps
  <2>4. HandlersOK'
    <3>1. ASSUME NEW t \in Threads PROVE FpsOK(t)' /\ SoundOK(t)' /\ SentOK(t)'
      BY <2>1, OthersUntouched
    <3> QED BY <3>1 DEF HandlersOK
  <2> QED BY <2>2, <2>3, <2>4 DEF TInv
<1>2. CASE Next
  <2>1. PICK t \in Threads : StartAttribute(t) \/ StartIoctl(t) \/ Lock(t) \/ Proceed(t)
    BY <1>2 DEF Next
  <2>2. CASE StartAttribute(t)
    BY <2>2, StartAttributeStep
  <2>3. CASE StartIoctl(t)
    BY <2>3, StartIoctlStep
  <2>4. CASE Lock(t)
    BY <2>4, LockStep
  <2>5. CASE SendAddress(t)
    BY <2>5, SendAddressStep
  <2>6. CASE ReadCombined(t) \/ Fetch(t)
    BY <2>6, ReadStep
  <2>7. CASE Fails(t)
    BY <2>7, FailsStep
  <2>8. CASE Write(t)
    BY <2>8, WriteStep
  <2>9. CASE ChangeAddr(t)
    BY <2>9, ChangeAddrStep
  <2>10. CASE RestoreAddr(t)
    BY <2>10, RestoreAddrStep
  <2>11. CASE SelectReg(t) \/ AskIfOn(t)
    BY <2>11, OwnStep
  <2>12. CASE Return(t)
    BY <2>12, ReturnStep
  <2> QED BY <2>1, <2>2, <2>3, <2>4, <2>5, <2>6, <2>7, <2>8, <2>9, <2>10, <2>11, <2>12 DEF Proceed
<1> QED BY <1>1, <1>2

(* What the panel drivers leave fits the registers.                        *)
LEMMA BootedFits ==
  ASSUME NEW d \in {"jbd4020", "jbd4040"}, NEW p \in Panel
  PROVE  /\ DOMAIN Booted(d, p) = Regs(d)
         /\ \A g \in Regs(d) : Booted(d, p)[g] \in Contents(d, g)
<1> DEFINE b == Booted(d, p)
<1>1. CASE d = "jbd4020"
  <2>1. DOMAIN b = Regs(d) /\ Regs(d) = {"LUM", "CUR", "TEMP", "FLIP", "OFFSET", "VO"}
    BY <1>1 DEF Booted, Regs, Width
  <2>2. b["LUM"] \in Contents(d, "LUM") /\ b["TEMP"] \in Contents(d, "TEMP")
    BY <1>1 DEF Booted, Contents, Fields, Fit, Width
  <2>3. b["CUR"] \in Contents(d, "CUR")
    BY <1>1 DEF Booted, Contents, Fields, Fit, Width
  <2>4. b["FLIP"] \in Contents(d, "FLIP")
    BY <1>1 DEF Booted, Contents, Fields, Fit, Width
  <2>5. b["OFFSET"] \in Contents(d, "OFFSET")
    BY <1>1 DEF Booted, Contents, Fields, Fit, Width
  <2>6. b["VO"] \in Contents(d, "VO")
    BY <1>1 DEF Booted, Contents, Fields, Fit, Width
  <2> HIDE DEF b
  <2> QED BY <2>1, <2>2, <2>3, <2>4, <2>5, <2>6 DEF b
<1>2. CASE d = "jbd4040"
  <2>1. DOMAIN b = Regs(d) /\ Regs(d) = {"LUM", "CUR", "TX", "FLIP", "OFFSET", "FPS", "PVT", "TEMP"}
    BY <1>2 DEF Booted, Regs, Width
  <2>2. b["LUM"] \in Contents(d, "LUM") /\ b["TEMP"] \in Contents(d, "TEMP")
    BY <1>2 DEF Booted, Contents, Fields, Fit, Width
  <2>3. b["CUR"] \in Contents(d, "CUR")
    BY <1>2 DEF Booted, Contents, Fields, Fit, Width
  <2>4. b["FLIP"] \in Contents(d, "FLIP")
    BY <1>2 DEF Booted, Contents, Fields, Fit, Width
  <2>5. b["OFFSET"] \in Contents(d, "OFFSET")
    BY <1>2 DEF Booted, Contents, Fields, Fit, Width
  <2>6. b["TX"] \in Contents(d, "TX")
    BY <1>2 DEF Booted, Contents, Fields, Fit, Width
  <2>7. b["FPS"] \in Contents(d, "FPS") /\ b["PVT"] \in Contents(d, "PVT")
    BY <1>2 DEF Booted, Contents, Fields, Fit, Width
  <2> HIDE DEF b
  <2> QED BY <2>1, <2>2, <2>3, <2>4, <2>5, <2>6, <2>7 DEF b
<1> QED BY <1>1, <1>2

(* The panel drivers leave a state that has the invariant.                 *)
LEMMA InitTInv == Init => TInv
<1> SUFFICES ASSUME Init PROVE TInv
  OBVIOUS
<1>1. scen \in Scenarios /\ Drv \in {"jbd4020", "jbd4040"} /\ scen.faults \in Nat
  BY ScenariosAssumption DEF Init, Drv
<1>2. "FLIP" \in Regs(Drv)
  BY <1>1 DEF Regs, Width
<1>3. DOMAIN regs = Panel /\ \A p \in Panel : regs[p] = Booted(Drv, p)
  BY DEF Init, Drv
<1>4. \A t \in Threads : /\ loc[t] = "idle" /\ req[t] = NoReq /\ job[t] = << >> /\ ~ sent[t]
                         /\ temp[t] = << >> /\ saved[t] = Panel /\ ok[t]
  BY DEF Init
<1>5. Arrays
  <2>1. \A t \in Threads : StepSeq(Drv, job[t])
    BY <1>4, EmptySeq DEF StepSeq
  <2>2. /\ ptr \in [Panel -> Regs(Drv)] /\ sysfsReg \in Regs(Drv) /\ addr \in {Panel, {"R"}}
        /\ mutex \in Threads \cup {NoThread} /\ loc \in [Threads -> {"idle", "wait", "run"}]
        /\ req \in [Threads -> scen.requests \cup {NoReq}]
    BY <1>2 DEF Init
  <2>3. /\ sent \in [Threads -> BOOLEAN] /\ ok \in [Threads -> BOOLEAN] /\ DOMAIN job = Threads
        /\ DOMAIN temp = Threads /\ DOMAIN seen = Threads /\ saved \in [Threads -> SUBSET Panel]
    BY DEF Init
  <2>4. faults \in 0 .. scen.faults
    BY <1>1 DEF Init
  <2>5. \A p \in Panel : DOMAIN regs[p] = Regs(Drv) /\ \A g \in Regs(Drv) : regs[p][g] \in Contents(Drv, g)
    BY <1>1, <1>3, BootedFits
  <2> QED BY <1>1, <1>3, <2>1, <2>2, <2>3, <2>4, <2>5 DEF Arrays
<1>6. RestInv
  <2>1. mutex = NoThread
    BY DEF Init
  <2> QED BY <1>4, <2>1, NoThreadAssumption DEF RestInv
<1>7. ApartInv /\ AddrInv
  BY <1>4 DEF Init, ApartInv, AddrInv
<1>8. HandlersOK
  BY <1>4 DEF HandlersOK, FpsOK, SoundOK, SentOK, SetsFps
<1> QED BY <1>5, <1>6, <1>7, <1>8 DEF TInv

(* The invariant holds always.                                             *)
LEMMA Invariance == Spec => []TInv
<1> QED BY InitTInv, NextKeeps, PTL DEF Spec

(* I2cTypeOK: every register keeps to the width of its fields, whatever    *)
(* the numbers that are asked for and whichever transfers fail.            *)
THEOREM I2cTypeCorrect == Spec => []I2cTypeOK
<1>1. TInv => I2cTypeOK
  <2> SUFFICES ASSUME TInv PROVE I2cTypeOK
    OBVIOUS
  <2>1. ASSUME NEW p \in Panel, NEW g \in Regs(Drv), NEW f \in DOMAIN Width[Drv][g]
        PROVE  regs[p][g][f] \in 0 .. Width[Drv][g][f]
    <3>1. Drv \in {"jbd4020", "jbd4040"}
      BY ScenariosAssumption DEF TInv, Arrays, Drv
    <3>2. regs[p][g] \in [Fields(Drv, g) -> Nat] /\ Fit(Drv, g, regs[p][g])
      BY DEF TInv, Arrays, Contents
    <3>3. regs[p][g][f] \in Nat /\ regs[p][g][f] <= Width[Drv][g][f]
      BY <3>2 DEF Fit, Fields
    <3>4. Width[Drv][g][f] \in Nat
      BY <3>1 DEF Regs, Width
    <3> QED BY <3>3, <3>4
  <2>2. addr \in (SUBSET Panel) \ {{}}
    BY DEF TInv, Arrays, Panel
  <2> QED BY <2>1, <2>2 DEF I2cTypeOK, TInv, Arrays, Drv
<1> QED BY <1>1, Invariance, PTL

(* AddrIsBroadcast: store_fps, which points the driver's own client at red *)
(* for one read, leaves it at the broadcast address on every way out.      *)
THEOREM AddrIsBroadcastCorrect == Spec => []AddrIsBroadcast
<1>1. TInv => AddrIsBroadcast
  BY DEF TInv, AddrInv, AddrIsBroadcast, Quiet, SetsFps
<1> QED BY <1>1, Invariance, PTL
=============================================================================
