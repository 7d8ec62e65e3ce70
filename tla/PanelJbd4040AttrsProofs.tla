---------------------- MODULE PanelJbd4040AttrsProofs ----------------------
(***************************************************************************)
(* Proofs about PanelJbd4040Attrs, for any number of threads and for all   *)
(* scenarios whose users keep to a discipline (UsersKeepApart).  The code  *)
(* itself keeps no handler waiting: without a discipline                   *)
(* FieldsFollowRequests is false, as the run attrs_race shows.             *)
(*                                                                         *)
(* The inductive invariant AttrInv says of the steps that a handler has    *)
(* still to take (JobOK) that what it will write back it either holds, and *)
(* the register still has it, or is yet to read.  That every handler       *)
(* starts with such a list is a lemma for each (StepsOK), which also says  *)
(* what the list sets: what FieldsFollowRequests then follows from.        *)
(***************************************************************************)
EXTENDS PanelJbd4040Attrs, SequenceTheorems, WellFoundedInduction, TLAPS

-----------------------------------------------------------------------------
(* Lists of lists.                                                         *)

(* A set of numbers that is not empty has a smallest one: the induction    *)
(* that the lemmas about FlattenSeq use.                                   *)
LEMMA LeastNumber ==
  ASSUME NEW T \in SUBSET Nat, T # {}
  PROVE  \E n \in T : \A m \in T : n <= m
<1>1. IsWellFoundedOn(OpToRel(<, Nat), Nat)
  BY NatLessThanWellFounded, Zenon
<1>2. PICK x \in T : \A y \in T : ~ (<<y, x>> \in OpToRel(<, Nat))
  BY <1>1, WFMin, Zenon
<1>3. ASSUME NEW y \in T PROVE x <= y
  <2>1. ~ (<<y, x>> \in OpToRel(<, Nat))
    BY <1>2, Zenon
  <2>2. ~ (y < x)
    BY <2>1, Zenon DEF OpToRel
  <2> QED
    BY <2>2
<1> QED
  BY <1>3

(* flat is the first n lists of seqs one after the other, list i behind    *)
(* position b[i].                                                          *)
IsFlat(seqs, n, flat, b) ==
  /\ b \in [1 .. n -> Nat]
  /\ \A i \in 1 .. n : \A m \in 1 .. Len(seqs[i]) :
       b[i] + m \in 1 .. Len(flat) /\ flat[b[i] + m] = seqs[i][m]
  /\ \A k \in 1 .. Len(flat) :
       \E i \in 1 .. n : \E m \in 1 .. Len(seqs[i]) : k = b[i] + m
  /\ \A i \in 1 .. n : \A j \in 1 .. n : i < j => b[i] + Len(seqs[i]) <= b[j]
  /\ b[n] + Len(seqs[n]) = Len(flat)

(* The recursive function that FlattenSeq is defined by exists.            *)
LEMMA FlattenExists ==
  ASSUME NEW seqs, NEW N \in Nat \ {0}
  PROVE  \E g : g = [i \in 1 .. N |-> IF i = 1 THEN seqs[i] ELSE g[i - 1] \o seqs[i]]
<1> DEFINE Def(n, g) == g = [i \in 1 .. n |-> IF i = 1 THEN seqs[i] ELSE g[i - 1] \o seqs[i]]
           Exists(n) == \E g : Def(n, g)
           T == {n \in 1 .. N : ~ Exists(n)}
<1>1. ASSUME T # {} PROVE FALSE
  <2> HIDE DEF Exists
  <2>1. PICK n \in T : \A m \in T : n <= m
    <3>1. T \in SUBSET Nat
      OBVIOUS
    <3> HIDE DEF T
    <3> QED
      BY <1>1, <3>1, LeastNumber
  <2>2. n \in 1 .. N /\ ~ Exists(n)
    BY <2>1
  <2>3. CASE n = 1
    <3>1. Def(1, [i \in 1 .. 1 |-> seqs[1]])
      OBVIOUS
    <3> QED
      BY <2>2, <2>3, <3>1 DEF Exists
  <2>4. CASE n # 1
    <3>1. n - 1 \in 1 .. N /\ ~ (n <= n - 1)
      BY <2>2, <2>4
    <3>a. ~ (n - 1 \in T)
      BY <2>1, <3>1
    <3>b. Exists(n - 1)
      BY <3>a, <3>1
    <3>2. PICK h : Def(n - 1, h)
      BY <3>b DEF Exists
    <3> DEFINE g == [i \in 1 .. n |-> IF i = n THEN h[n - 1] \o seqs[n] ELSE h[i]]
    <3>3. ASSUME NEW i \in 1 .. n
          PROVE  g[i] = IF i = 1 THEN seqs[i] ELSE g[i - 1] \o seqs[i]
      <4>1. CASE i = n
        <5>a. n - 1 \in 1 .. n /\ n - 1 # n
          BY <2>2, <2>4
        <5>1. g[i] = h[n - 1] \o seqs[n] /\ g[n - 1] = h[n - 1]
          BY <4>1, <5>a
        <5> QED
          BY <5>1, <4>1, <2>4
      <4>2. CASE i # n
        <5>1. i \in 1 .. n - 1 /\ g[i] = h[i] /\ (i # 1 => g[i - 1] = h[i - 1])
          BY <4>2, <2>2, <2>4
        <5>2. h[i] = IF i = 1 THEN seqs[i] ELSE h[i - 1] \o seqs[i]
          BY <3>2, <5>1
        <5> QED
          BY <5>1, <5>2
      <4> QED
        BY <4>1, <4>2
    <3>4. Def(n, g)
      BY <3>3
    <3> QED
      BY <2>2, <3>4 DEF Exists
  <2> QED
    BY <2>3, <2>4
<1>2. Exists(N)
  <2> HIDE DEF Exists
  <2>1. N \in 1 .. N
    OBVIOUS
  <2> QED
    BY <1>1, <2>1
<1> QED
  BY <1>2

(* What FlattenSeq computes, list by list.                                 *)
LEMMA FlattenStep ==
  ASSUME NEW S, NEW N \in Nat \ {0}, NEW seqs \in [1 .. N -> Seq(S)]
  PROVE  \E g : /\ FlattenSeq(seqs) = g[N] /\ g[1] = seqs[1]
                /\ \A i \in 1 .. N : i # 1 => g[i] = g[i - 1] \o seqs[i]
<1> DEFINE Def(g) == g = [i \in 1 .. N |-> IF i = 1 THEN seqs[i] ELSE g[i - 1] \o seqs[i]]
<1> DEFINE g == CHOOSE h : Def(h)
<1>1. Len(seqs) = N
  <2>1. seqs \in Seq(Seq(S)) /\ DOMAIN seqs = 1 .. N
    OBVIOUS
  <2> QED
    BY <2>1
<1>2. FlattenSeq(seqs) = g[N]
  BY <1>1 DEF FlattenSeq
<1>3. Def(g)
  <2>1. \E h : Def(h)
    BY FlattenExists
  <2> QED
    BY <2>1
<1>4. /\ g[1] = seqs[1]
      /\ \A i \in 1 .. N : i # 1 => g[i] = g[i - 1] \o seqs[i]
  <2> HIDE DEF g
  <2>1. 1 \in 1 .. N
    OBVIOUS
  <2>2. \A i \in 1 .. N : g[i] = IF i = 1 THEN seqs[i] ELSE g[i - 1] \o seqs[i]
    BY <1>3
  <2> QED
    BY <2>1, <2>2
<1> HIDE DEF g
<1> QED
  BY <1>2, <1>4

(* FlattenSeq puts its lists one after the other.                          *)
LEMMA FlattenIsFlat ==
  ASSUME NEW S, NEW N \in Nat \ {0}, NEW seqs \in [1 .. N -> Seq(S)]
  PROVE  /\ FlattenSeq(seqs) \in Seq(S)
         /\ \E b : IsFlat(seqs, N, FlattenSeq(seqs), b)
<1>4. PICK g : /\ FlattenSeq(seqs) = g[N] /\ g[1] = seqs[1]
               /\ \A i \in 1 .. N : i # 1 => g[i] = g[i - 1] \o seqs[i]
  BY FlattenStep
<1> DEFINE Good(n) == g[n] \in Seq(S) /\ \E b : IsFlat(seqs, n, g[n], b)
           T == {n \in 1 .. N : ~ Good(n)}
<1>5. Good(1)
  <2>1. g[1] \in Seq(S) /\ g[1] = seqs[1] /\ Len(seqs[1]) \in Nat
    BY <1>4
  <2>2. IsFlat(seqs, 1, g[1], [i \in 1 .. 1 |-> 0])
    BY <2>1 DEF IsFlat
  <2> QED
    BY <2>1, <2>2
<1>6. ASSUME NEW n \in 1 .. N, n # 1, Good(n - 1) PROVE Good(n)
  <2>1. PICK c : IsFlat(seqs, n - 1, g[n - 1], c)
    BY <1>6
  <2> DEFINE x == Len(g[n - 1])
             y == Len(seqs[n])
             b == [i \in 1 .. n |-> IF i = n THEN x ELSE c[i]]
  <2>2. g[n] = g[n - 1] \o seqs[n] /\ g[n - 1] \in Seq(S) /\ seqs[n] \in Seq(S)
    BY <1>4, <1>6
  <2>3. /\ g[n] \in Seq(S) /\ Len(g[n]) = x + y /\ x \in Nat /\ y \in Nat
        /\ \A i \in 1 .. x + y : g[n][i] = IF i <= x THEN g[n - 1][i] ELSE seqs[n][i - x]
    BY <2>2, ConcatProperties
  <2>4. /\ c \in [1 .. n - 1 -> Nat]
        /\ \A i \in 1 .. n - 1 : \A m \in 1 .. Len(seqs[i]) :
             c[i] + m \in 1 .. x /\ g[n - 1][c[i] + m] = seqs[i][m]
        /\ \A k \in 1 .. x :
             \E i \in 1 .. n - 1 : \E m \in 1 .. Len(seqs[i]) : k = c[i] + m
        /\ \A i \in 1 .. n - 1 : \A j \in 1 .. n - 1 : i < j => c[i] + Len(seqs[i]) <= c[j]
        /\ c[n - 1] + Len(seqs[n - 1]) = x
    BY <2>1 DEF IsFlat
  <2>5. \A i \in 1 .. n : Len(seqs[i]) \in Nat
    BY <1>6
  <2>6. b[n] = x /\ \A i \in 1 .. n - 1 : b[i] = c[i]
    BY <1>6
  <2>7. b \in [1 .. n -> Nat]
    BY <2>3, <2>4, <1>6
  <2> HIDE DEF x, y, b
  <2>8. ASSUME NEW i \in 1 .. n, NEW m \in 1 .. Len(seqs[i])
        PROVE  b[i] + m \in 1 .. Len(g[n]) /\ g[n][b[i] + m] = seqs[i][m]
    <3>1. CASE i = n
      <4>1. b[i] + m \in 1 .. x + y /\ ~ (b[i] + m <= x) /\ (b[i] + m) - x = m
        BY <3>1, <2>3, <2>6 DEF y
      <4> QED
        BY <3>1, <4>1, <2>3
    <3>2. CASE i # n
      <4>1. i \in 1 .. n - 1 /\ b[i] = c[i]
        BY <3>2, <2>6
      <4>2. c[i] + m \in 1 .. x /\ g[n - 1][c[i] + m] = seqs[i][m]
        BY <4>1, <2>4
      <4> QED
        BY <4>1, <4>2, <2>3
    <3> QED
      BY <3>1, <3>2
  <2>9. ASSUME NEW k \in 1 .. Len(g[n])
        PROVE  \E i \in 1 .. n : \E m \in 1 .. Len(seqs[i]) : k = b[i] + m
    <3>1. CASE k <= x
      <4>1. PICK i \in 1 .. n - 1 : \E m \in 1 .. Len(seqs[i]) : k = c[i] + m
        BY <3>1, <2>4
      <4> QED
        BY <4>1, <2>6
    <3>2. CASE ~ (k <= x)
      <4>1. k - x \in 1 .. Len(seqs[n]) /\ k = b[n] + (k - x)
        BY <3>2, <2>3, <2>6 DEF y
      <4> QED
        BY <4>1
    <3> QED
      BY <3>1, <3>2
  <2>10. ASSUME NEW i \in 1 .. n, NEW j \in 1 .. n, i < j
         PROVE  b[i] + Len(seqs[i]) <= b[j]
    <3>1. i \in 1 .. n - 1 /\ b[i] = c[i]
      BY <2>10, <2>6
    <3>2. CASE j # n
      <4>1. j \in 1 .. n - 1 /\ b[j] = c[j]
        BY <3>2, <2>6
      <4> QED
        BY <3>1, <4>1, <2>4, <2>10
    <3>3. CASE j = n
      <4>1. CASE i = n - 1
        BY <4>1, <3>1, <3>3, <2>4, <2>6
      <4>2. CASE i # n - 1
        <5>1. i < n - 1 /\ n - 1 \in 1 .. n - 1
          BY <4>2, <3>1
        <5>2. c[i] + Len(seqs[i]) <= c[n - 1]
          BY <5>1, <3>1, <2>4
        <5>3. c[i] \in Nat /\ c[n - 1] \in Nat /\ Len(seqs[i]) \in Nat /\ Len(seqs[n - 1]) \in Nat
          BY <5>1, <3>1, <2>4, <2>5
        <5> QED
          BY <5>2, <5>3, <3>1, <3>3, <2>4, <2>6
      <4> QED
        BY <4>1, <4>2
    <3> QED
      BY <3>2, <3>3
  <2>11. b[n] + Len(seqs[n]) = Len(g[n])
    BY <2>3, <2>6 DEF y
  <2>12. IsFlat(seqs, n, g[n], b)
    BY <2>7, <2>8, <2>9, <2>10, <2>11 DEF IsFlat
  <2> QED
    BY <2>3, <2>12
<1> HIDE DEF Good
<1>7. ASSUME T # {} PROVE FALSE
  <2>1. PICK n \in T : \A m \in T : n <= m
    <3>1. T \in SUBSET Nat
      OBVIOUS
    <3> HIDE DEF T
    <3> QED
      BY <1>7, <3>1, LeastNumber
  <2>2. n \in 1 .. N /\ ~ Good(n)
    BY <2>1
  <2>3. n # 1
    BY <2>2, <1>5
  <2>a. n - 1 \in 1 .. N /\ ~ (n <= n - 1)
    BY <2>2, <2>3
  <2>4. ~ (n - 1 \in T)
    BY <2>1, <2>a
  <2>5. Good(n - 1)
    BY <2>4, <2>a
  <2> QED
    BY <2>2, <2>3, <2>5, <1>6
<1>8. Good(N)
  <2>1. N \in 1 .. N
    OBVIOUS
  <2> QED
    BY <1>7, <2>1
<1> QED
  BY <1>4, <1>8 DEF Good

(* Three lists.                                                            *)
LEMMA FlattenThree ==
  ASSUME NEW S, NEW seqs \in [1 .. 3 -> Seq(S)]
  PROVE  LET q == FlattenSeq(seqs)
             x == Len(seqs[1])
             y == Len(seqs[2])
             z == Len(seqs[3])
         IN  /\ x \in Nat /\ y \in Nat /\ z \in Nat
             /\ q \in Seq(S) /\ Len(q) = (x + y) + z
             /\ \A m \in 1 .. x : q[m] = seqs[1][m]
             /\ \A m \in 1 .. y : q[x + m] = seqs[2][m]
             /\ \A m \in 1 .. z : q[(x + y) + m] = seqs[3][m]
<1> DEFINE s1 == seqs[1]
           s2 == seqs[2]
           s3 == seqs[3]
<1>1. s1 \in Seq(S) /\ s2 \in Seq(S) /\ s3 \in Seq(S)
  OBVIOUS
<1>2. FlattenSeq(seqs) = (s1 \o s2) \o s3
  <2> DEFINE N == 3
  <2>1. N \in Nat \ {0} /\ seqs \in [1 .. N -> Seq(S)]
    OBVIOUS
  <2> HIDE DEF N
  <2>2. PICK g : /\ FlattenSeq(seqs) = g[N] /\ g[1] = seqs[1]
                 /\ \A i \in 1 .. N : i # 1 => g[i] = g[i - 1] \o seqs[i]
    BY <2>1, FlattenStep
  <2>3. 2 \in 1 .. N /\ 3 \in 1 .. N /\ 2 # 1 /\ 3 # 1 /\ 2 - 1 = 1 /\ 3 - 1 = 2 /\ N = 3
    BY DEF N
  <2>4. g[2] = g[1] \o seqs[2] /\ g[3] = g[2] \o seqs[3]
    BY <2>2, <2>3
  <2> QED
    BY <2>2, <2>3, <2>4
<1> HIDE DEF s1, s2, s3
<1> DEFINE x == Len(s1)
           y == Len(s2)
           z == Len(s3)
           r == s1 \o s2
           q == r \o s3
<1>3. x \in Nat /\ y \in Nat /\ z \in Nat
  BY <1>1
<1>4. r \in Seq(S) /\ Len(r) = x + y
      /\ \A i \in 1 .. x + y : r[i] = IF i <= x THEN s1[i] ELSE s2[i - x]
  BY <1>1, ConcatProperties
<1>5. q \in Seq(S) /\ Len(q) = Len(r) + z
      /\ \A i \in 1 .. Len(r) + z : q[i] = IF i <= Len(r) THEN r[i] ELSE s3[i - Len(r)]
  <2>1. r \in Seq(S) /\ s3 \in Seq(S)
    BY <1>1, <1>4
  <2> HIDE DEF r
  <2> QED
    BY ONLY <2>1, ConcatProperties
<1> HIDE DEF x, y, z, r, q
<1>6. ASSUME NEW m \in 1 .. x PROVE q[m] = s1[m]
  BY <1>3, <1>4, <1>5
<1>7. ASSUME NEW m \in 1 .. y PROVE q[x + m] = s2[m]
  <2>1. x + m \in 1 .. x + y /\ ~ (x + m <= x) /\ (x + m) - x = m
    BY <1>3
  <2>2. x + m \in 1 .. Len(r) + z /\ x + m <= Len(r)
    BY <1>3, <1>4, <2>1
  <2> QED
    BY <1>4, <1>5, <2>1, <2>2
<1>8. ASSUME NEW m \in 1 .. z PROVE q[(x + y) + m] = s3[m]
  <2> DEFINE l == x + y
  <2>1. l \in Nat /\ Len(r) = l
    BY <1>3, <1>4
  <2> HIDE DEF l
  <2>2. l + m \in 1 .. l + z /\ ~ (l + m <= l) /\ (l + m) - l = m
    BY <1>3, <2>1
  <2>3. q[l + m] = s3[m]
    BY <1>5, <2>1, <2>2
  <2> QED
    BY <2>3 DEF l
<1> QED
  BY <1>2, <1>3, <1>4, <1>5, <1>6, <1>7, <1>8 DEF x, y, z, q, r, s1, s2, s3

-----------------------------------------------------------------------------
(* What a list of steps may look like.                                     *)

Fields == {"lo", "hi"}

(* Contents of a register.                                                 *)
Values == [Fields -> Nat]

Fits(r, v) == \A f \in Fields : v[f] \in 0 .. Width[r][f]

(* The registers of which only the lower field is ever written, and the    *)
(* upper field that prepare leaves in them.                                *)
SetupRegs == {"PL_CFG", "OSC_TRIM", "EFUSE_REG_SW"}
SetupHi(r) == IF r = "OSC_TRIM" THEN 2 ELSE 1

(* The registers that a write of a constant or of a variable is for.       *)
Followed == {r \in Regs : r # "LUM_REG" /\ r # "PVT_DATA"}

ReadSteps == [op : {"read"}, from : Seq(SUBSET Panel), reg : Regs, slot : Panel,
              miss : Values, skip : Nat]
WritesOf(F) == [op : {"write"}, to : SUBSET Panel, reg : Regs, slot : Panel,
                set : {F}, val : [F -> Nat]]
WriteSteps == WritesOf({"lo"}) \cup WritesOf({"hi"}) \cup WritesOf(Fields)
LumSteps == [op : {"lum"}, to : SUBSET Panel, reg : {"LUM_REG"}, slot : {"R"}, val : Nat]
SensorSteps == [op : {"sensor"}, slot : Panel]

(* A default or a constant is no wider than its field, a write keeps the   *)
(* upper field of a register of SetupRegs, and the frame rate and the      *)
(* sensors are written in all panels at once.                              *)
StepOK(s) ==
  /\ s.op = "read" =>
       /\ s.from # << >> /\ \A k \in 1 .. Len(s.from) : s.from[k] # {}
       /\ Fits(s.reg, s.miss)
  /\ s.op \in {"write", "lum"} => s.to # {}
  /\ s.op = "write" =>
       /\ s.reg \in Followed
       /\ \A f \in s.set : s.val[f] <= Width[s.reg][f]
       /\ s.reg \in SetupRegs => s.set = {"lo"}
       /\ s.reg \in {"PL_CFG", "PVT_CTL"} => s.to = All

GoodSteps == {s \in ReadSteps \cup WriteSteps \cup LumSteps \cup SensorSteps : StepOK(s)}

-----------------------------------------------------------------------------
(* The inductive invariant.                                                *)

(* A write that takes one field from a variable of the handler.            *)
Back(s) == s.op = "write" /\ s.set # Fields

(* The steps after s that the handler may leave out.                       *)
SkipOf(s) == CASE s.op = "read" -> s.skip [] s.op = "sensor" -> 1 [] OTHER -> 0

(* From step a on nothing comes between write k and its variable: no other *)
(* read into the variable, no other write of the register.                 *)
Clear(q, k, a) ==
  \A m \in a .. k - 1 :
    /\ ~ (q[m].op = "read" /\ q[m].slot = q[k].slot)
    /\ ~ (q[m].op = "write" /\ q[m].reg = q[k].reg /\ q[m].to \cap q[k].to # {})

(* Step j reads what write k puts back: the panel's own register, or the   *)
(* upper field that all panels have and that also the default has.         *)
Feeds(q, j, k) ==
  /\ q[j].op = "read" /\ q[j].slot = q[k].slot /\ q[j].reg = q[k].reg
  /\ Clear(q, k, j + 1)
  /\ IF q[k].reg \in SetupRegs
     THEN q[j].miss.hi = SetupHi(q[k].reg) \/ k <= j + q[j].skip
     ELSE \E p \in Panel : q[j].from = << {p} >> /\ q[k].to = {p}

(* The variable has been read: it fits the register, and what write k puts *)
(* back is still what the register holds.                                  *)
Held(q, k, g, R, ok) ==
  LET v == g[q[k].slot] IN
  /\ Clear(q, k, 1)
  /\ Fits(q[k].reg, v)
  /\ IF q[k].reg \in SetupRegs
     THEN v.hi = SetupHi(q[k].reg)
     ELSE ok => \A p \in q[k].to : R[p][q[k].reg] = v

(* q: what a handler has to take yet; g: its variables; R: the registers;  *)
(* ok: no transfer has failed.                                             *)
BacksOK(q, g, R, ok) ==
  \A k \in 1 .. Len(q) :
    Back(q[k]) => \/ \E j \in 1 .. k - 1 : Feeds(q, j, k)
                  \/ Held(q, k, g, R, ok)

(* A handler that leaves steps out puts nothing back after them.           *)
NoSkipOver(q) ==
  \A m, k \in 1 .. Len(q) :
    m < k /\ Back(q[k]) /\ SkipOf(q[m]) # 0 => k <= m + SkipOf(q[m])

(* The sensors are on, or about to be, until the last one has been read,   *)
(* and the handler has all panels until then.                              *)
SensorOK(q, g, R, ok) ==
  ok => \A k \in 1 .. Len(q) :
          q[k].op = "sensor" =>
            /\ IF k = 1
               THEN g[q[1].slot].lo = 3
               ELSE /\ q[k - 1].op = "read" /\ q[k - 1].reg = "PVT_CTL"
                    /\ q[k - 1].slot = q[k].slot
                    /\ q[k - 1].from = << {q[k].slot} >>
            /\ \/ \A p \in Panel : R[p]["PVT_CTL"].lo = 3
               \/ q[1].op = "write" /\ q[1].reg = "PVT_CTL" /\ q[1].set = Fields /\ q[1].to = All
            /\ \A m \in 1 .. k - 1 :
                 q[m].op = "write" /\ q[m].reg = "PVT_CTL" => q[m].set = Fields /\ q[m].val["lo"] = 3
            /\ \E m \in k + 1 .. Len(q) : q[m].op = "write" /\ q[m].to = All

JobOK(q, g, R, ok) ==
  BacksOK(q, g, R, ok) /\ NoSkipOver(q) /\ SensorOK(q, g, R, ok)

StateOK ==
  /\ plan \in Scenarios
  /\ regs \in [Panel -> [Regs -> Values]]
  /\ \A p \in Panel, r \in Regs : Fits(r, regs[p][r])
  /\ ptr \in [Panel -> Regs]
  /\ faults \in 0 .. plan.faults
  /\ job \in [Threads -> Seq(GoodSteps)]
  /\ sent \in [Threads -> BOOLEAN]
  /\ got \in [Threads -> [Panel -> Values]]

SentIsRead == \A t \in Threads : sent[t] => At(t, "read")

(* No two threads are at work on the same panel.                           *)
Apart == \A t, u \in Threads : t # u => PanelsOf(job[t]) \cap PanelsOf(job[u]) = {}

JobsOK == \A t \in Threads : JobOK(job[t], got[t], regs, faults = 0)

(* Between the two transfers of a read the panel's pointer stays at the    *)
(* register that the handler asks for, as users keep apart.                *)
ReadsOwnRegister ==
  \A t \in Threads :
    sent[t] => \A p \in Head(Head(job[t]).from) : ptr[p] = Head(job[t]).reg

AttrInv == StateOK /\ SentIsRead /\ Apart /\ ReadsOwnRegister /\ SetupSurvives /\ JobsOK

(* Step s sets field f of register r of panel p.                           *)
Setter(s, p, r, f) == s.op = "write" /\ p \in s.to /\ s.reg = r /\ f \in s.set

-----------------------------------------------------------------------------
(* The step lists' elements.                                               *)

(* The contents that Reg makes.                                            *)
LEMMA RegIsValue ==
  ASSUME NEW a \in Nat, NEW b \in Nat
  PROVE  Reg(a, b) \in Values /\ Reg(a, b).lo = a /\ Reg(a, b).hi = b
         /\ Reg(a, b)["lo"] = a /\ Reg(a, b)["hi"] = b
BY DEF Reg, Values, Fields

(* The upper and lower field of every register.                            *)
LEMMA Widths ==
  /\ Regs = {"PL_CUR", "LUM_REG", "PL_CFG", "IMG_FLIP", "IMG_OFFSET", "EFUSE_REG_SW",
             "OSC_TRIM", "DMR_CFG", "DMR_REMAP_VAL", "DSC_CFG", "DMR_SEG_TH", "PVT_CTL",
             "CFG_VID_TX_DELAY", "PVT_DATA"}
  /\ \A r \in Regs : Width[r] \in Values
  /\ Width["PL_CUR"] = Reg(255, 0) /\ Width["LUM_REG"] = Reg(16383, 0)
  /\ Width["PL_CFG"] = Reg(7, 1) /\ Width["IMG_FLIP"] = Reg(1, 1)
  /\ Width["IMG_OFFSET"] = Reg(31, 31) /\ Width["EFUSE_REG_SW"] = Reg(1, 1)
  /\ Width["OSC_TRIM"] = Reg(255, 255) /\ Width["DMR_CFG"] = Reg(255, 1)
  /\ Width["DMR_REMAP_VAL"] = Reg(2047, 0) /\ Width["DSC_CFG"] = Reg(511, 1)
  /\ Width["DMR_SEG_TH"] = Reg(1023, 0) /\ Width["PVT_CTL"] = Reg(3, 0)
  /\ Width["CFG_VID_TX_DELAY"] = Reg(1186, 0) /\ Width["PVT_DATA"] = Reg(0, 0)
<1>1. /\ Regs = {"PL_CUR", "LUM_REG", "PL_CFG", "IMG_FLIP", "IMG_OFFSET", "EFUSE_REG_SW",
             "OSC_TRIM", "DMR_CFG", "DMR_REMAP_VAL", "DSC_CFG", "DMR_SEG_TH", "PVT_CTL",
             "CFG_VID_TX_DELAY", "PVT_DATA"}
  BY DEF Regs, Width
<1>2. /\ Width["PL_CUR"] = Reg(255, 0) /\ Width["LUM_REG"] = Reg(16383, 0)
  /\ Width["PL_CFG"] = Reg(7, 1) /\ Width["IMG_FLIP"] = Reg(1, 1)
  /\ Width["IMG_OFFSET"] = Reg(31, 31) /\ Width["EFUSE_REG_SW"] = Reg(1, 1)
  /\ Width["OSC_TRIM"] = Reg(255, 255) /\ Width["DMR_CFG"] = Reg(255, 1)
  /\ Width["DMR_REMAP_VAL"] = Reg(2047, 0) /\ Width["DSC_CFG"] = Reg(511, 1)
  /\ Width["DMR_SEG_TH"] = Reg(1023, 0) /\ Width["PVT_CTL"] = Reg(3, 0)
  /\ Width["CFG_VID_TX_DELAY"] = Reg(1186, 0) /\ Width["PVT_DATA"] = Reg(0, 0)
  BY DEF Width
<1>3. \A r \in Regs : Width[r] \in Values
  BY <1>1, <1>2, RegIsValue
<1> QED
  BY <1>1, <1>2, <1>3

(* 0 fits every register.                                                  *)
LEMMA ZeroFits ==
  ASSUME NEW r \in Regs
  PROVE  Reg(0, 0) \in Values /\ Fits(r, Reg(0, 0))
<1>1. Reg(0, 0) \in Values
  BY RegIsValue
<1>2. \A f \in Fields : Reg(0, 0)[f] = 0
  BY DEF Reg, Fields
<1>3. \A f \in Fields : Width[r][f] \in Nat
  BY Widths DEF Values
<1> QED
  BY <1>1, <1>2, <1>3 DEF Fits

(* What a step is, by its operation.                                       *)
LEMMA StepFacts ==
  ASSUME NEW s \in GoodSteps
  PROVE  /\ s.op \in {"read", "write", "lum", "sensor"}
         /\ StepOK(s)
         /\ s.op = "read" => /\ s.from \in Seq(SUBSET Panel) /\ s.reg \in Regs /\ s.slot \in Panel
                             /\ s.miss \in Values /\ s.skip \in Nat
                             /\ s \in ReadSteps
         /\ s.op = "write" => /\ s.to \in SUBSET Panel /\ s.reg \in Regs /\ s.slot \in Panel
                              /\ s.set \in {{"lo"}, {"hi"}, Fields} /\ s.val \in [s.set -> Nat]
         /\ s.op = "lum" => /\ s.to \in SUBSET Panel /\ s.reg = "LUM_REG" /\ s.slot = "R"
                            /\ s.val \in Nat
         /\ s.op = "sensor" => s.slot \in Panel
<1>1. s \in ReadSteps \/ s \in WritesOf({"lo"}) \/ s \in WritesOf({"hi"}) \/ s \in WritesOf(Fields)
      \/ s \in LumSteps \/ s \in SensorSteps
  BY DEF GoodSteps, WriteSteps
<1>2. StepOK(s)
  BY DEF GoodSteps
<1>3. CASE s \in ReadSteps
  <2>1. s.op = "read"
    BY <1>3 DEF ReadSteps
  <2> QED
    BY <1>2, <1>3, <2>1 DEF ReadSteps
<1>4. ASSUME NEW F \in {{"lo"}, {"hi"}, Fields}, s \in WritesOf(F)
      PROVE  /\ s.op = "write" /\ s.to \in SUBSET Panel /\ s.reg \in Regs /\ s.slot \in Panel
             /\ s.set \in {{"lo"}, {"hi"}, Fields} /\ s.val \in [s.set -> Nat]
  BY <1>4 DEF WritesOf
<1>5. CASE s \in LumSteps
  <2>1. s.op = "lum"
    BY <1>5 DEF LumSteps
  <2> QED
    BY <1>2, <1>5, <2>1 DEF LumSteps
<1>6. CASE s \in SensorSteps
  <2>1. s.op = "sensor"
    BY <1>6 DEF SensorSteps
  <2> QED
    BY <1>2, <1>6, <2>1 DEF SensorSteps
<1>7. CASE s.op = "write" /\ s.to \in SUBSET Panel /\ s.reg \in Regs /\ s.slot \in Panel
             /\ s.set \in {{"lo"}, {"hi"}, Fields} /\ s.val \in [s.set -> Nat]
  BY <1>2, <1>7
<1> QED
  BY <1>1, <1>3, <1>4, <1>5, <1>6, <1>7

(* Read makes a step as it should be.                                      *)
LEMMA ReadGood ==
  ASSUME NEW from \in Seq(SUBSET Panel), from # << >>,
         \A k \in 1 .. Len(from) : from[k] # {},
         NEW reg \in Regs, NEW slot \in Panel, NEW miss \in Values, Fits(reg, miss)
  PROVE  Read(from, reg, slot, miss) \in GoodSteps
<1>1. Read(from, reg, slot, miss) \in ReadSteps
  BY DEF Read, ReadSteps
<1>2. StepOK(Read(from, reg, slot, miss))
  BY DEF Read, StepOK
<1> QED
  BY <1>1, <1>2 DEF GoodSteps

(* ReadOrSkip makes a step as it should be.                                *)
LEMMA ReadOrSkipGood ==
  ASSUME NEW from \in Seq(SUBSET Panel), from # << >>,
         \A k \in 1 .. Len(from) : from[k] # {},
         NEW reg \in Regs, NEW slot \in Panel, NEW n \in Nat
  PROVE  ReadOrSkip(from, reg, slot, n) \in GoodSteps
<1>1. Reg(0, 0) \in Values /\ Fits(reg, Reg(0, 0))
  BY ZeroFits
<1>2. ReadOrSkip(from, reg, slot, n) \in ReadSteps
  BY <1>1 DEF ReadOrSkip, ReadSteps
<1>3. StepOK(ReadOrSkip(from, reg, slot, n))
  BY <1>1 DEF ReadOrSkip, StepOK
<1> QED
  BY <1>2, <1>3 DEF GoodSteps

(* WriteBack does, if the value fits and the panels are the right ones.    *)
LEMMA WriteBackGood ==
  ASSUME NEW to \in SUBSET Panel, to # {}, NEW reg \in Followed, NEW slot \in Panel,
         NEW f \in Fields, NEW v \in 0 .. Width[reg][f],
         reg \in SetupRegs => f = "lo", reg \in {"PL_CFG", "PVT_CTL"} => to = All
  PROVE  WriteBack(to, reg, slot, f, v) \in GoodSteps
<1> DEFINE s == WriteBack(to, reg, slot, f, v)
<1>1. v \in Nat /\ v <= Width[reg][f]
  BY Widths DEF Values, Followed
<1>2. s \in WritesOf({f})
  BY <1>1 DEF WriteBack, WritesOf, Followed
<1>3. StepOK(s)
  BY <1>1 DEF WriteBack, StepOK
<1> QED
  BY <1>2, <1>3 DEF GoodSteps, WriteSteps, Fields

(* WriteReg does, if the value fits and nothing of prepare's is in the     *)
(* register.                                                               *)
LEMMA WriteRegGood ==
  ASSUME NEW to \in SUBSET Panel, to # {}, NEW reg \in Followed, NEW c \in Values, Fits(reg, c),
         ~ (reg \in SetupRegs), reg = "PVT_CTL" => to = All
  PROVE  WriteReg(to, reg, c) \in GoodSteps
<1> DEFINE s == WriteReg(to, reg, c)
<1>1. s \in WritesOf(Fields)
  BY DEF WriteReg, WritesOf, Fields, Values, Panel, Followed
<1>2. StepOK(s)
  <2>1. \A f \in Fields : c[f] <= Width[reg][f]
    BY Widths DEF Fits, Values, Followed
  <2> QED
    BY <2>1 DEF WriteReg, StepOK, Fields, SetupRegs
<1> QED
  BY <1>1, <1>2 DEF GoodSteps, WriteSteps

(* WriteLum does.                                                          *)
LEMMA WriteLumGood ==
  ASSUME NEW to \in SUBSET Panel, to # {}, NEW v \in Nat
  PROVE  WriteLum(to, "R", v) \in GoodSteps
<1>1. WriteLum(to, "R", v) \in LumSteps /\ StepOK(WriteLum(to, "R", v))
  BY DEF WriteLum, LumSteps, StepOK
<1> QED
  BY <1>1 DEF GoodSteps

(* Sensor does.                                                            *)
LEMMA SensorGood ==
  ASSUME NEW p \in Panel
  PROVE  Sensor(p) \in GoodSteps
<1>1. Sensor(p) \in SensorSteps /\ StepOK(Sensor(p))
  BY DEF Sensor, SensorSteps, StepOK
<1> QED
  BY <1>1 DEF GoodSteps

-----------------------------------------------------------------------------
(* A handler goes on.                                                      *)

(* The list without its head and the n steps after it.                     *)
RestOf(q, n) == SubSeq(q, 2 + n, Len(q))

(* The rest's length and its elements.                                     *)
LEMMA RestFacts ==
  ASSUME NEW q \in Seq(GoodSteps), q # << >>, NEW n \in Nat
  PROVE  LET rest == RestOf(q, n) IN
         /\ Len(q) \in Nat \ {0}
         /\ rest \in Seq(GoodSteps)
         /\ Len(rest) = IF 2 + n <= Len(q) THEN Len(q) - (1 + n) ELSE 0
         /\ \A i \in 1 .. Len(rest) : rest[i] = q[i + 1 + n] /\ i + 1 + n \in 1 .. Len(q)
<1> DEFINE rest == RestOf(q, n)
           len == Len(q)
<1>1. len \in Nat \ {0}
  BY EmptySeq
<1>2. \A i \in 2 + n .. len : q[i] \in GoodSteps
  BY <1>1, LenProperties
<1> HIDE DEF len
<1>3. /\ SubSeq(q, 2 + n, len) \in Seq(GoodSteps)
      /\ Len(SubSeq(q, 2 + n, len)) = IF 2 + n <= len THEN len - (2 + n) + 1 ELSE 0
      /\ \A i \in 1 .. len - (2 + n) + 1 : SubSeq(q, 2 + n, len)[i] = q[(2 + n) + i - 1]
  BY <1>1, <1>2, SubSeqProperties
<1>4. ASSUME NEW i \in 1 .. Len(SubSeq(q, 2 + n, len))
      PROVE  SubSeq(q, 2 + n, len)[i] = q[i + 1 + n] /\ i + 1 + n \in 1 .. len
  <2>1. 2 + n <= len /\ i \in 1 .. len - (2 + n) + 1 /\ (2 + n) + i - 1 = i + 1 + n
    BY <1>1, <1>3
  <2> QED
    BY <1>1, <1>3, <2>1
<1>5. Len(SubSeq(q, 2 + n, len)) = IF 2 + n <= len THEN len - (1 + n) ELSE 0
  BY <1>1, <1>3
<1> QED
  BY <1>1, <1>3, <1>4, <1>5 DEF len, RestOf

(* The head of a list that is not empty is its first element.              *)
LEMMA HeadIsFirst ==
  ASSUME NEW q \in Seq(GoodSteps), q # << >>
  PROVE  /\ Head(q) = q[1] /\ q[1] \in GoodSteps /\ 1 \in 1 .. Len(q) /\ Len(q) \in Nat \ {0}
         /\ \A k \in 1 .. Len(q) : q[k] \in GoodSteps
<1>1. Len(q) \in Nat \ {0}
  BY EmptySeq
<1>2. \A k \in 1 .. Len(q) : q[k] \in GoodSteps
  BY <1>1, LenProperties
<1> QED
  BY <1>1, <1>2

(* rest is q without its first d steps, as far as step k of rest.          *)
Shifted(q, rest, k, d) == \A i \in 1 .. k : rest[i] = q[i + d]

(* Nothing comes between a write and its variable in the rest either.      *)
LEMMA ClearOfRest ==
  ASSUME NEW q, NEW rest, NEW k \in Nat, NEW d \in Nat, Shifted(q, rest, k, d), k >= 1,
         NEW a \in Nat, a >= 1, NEW c, NEW e, c = k + d, e = a + d,
         Clear(q, c, e)
  PROVE  Clear(rest, k, a)
<1> SUFFICES ASSUME NEW m \in a .. k - 1
             PROVE  /\ ~ (rest[m].op = "read" /\ rest[m].slot = rest[k].slot)
                    /\ ~ (rest[m].op = "write" /\ rest[m].reg = rest[k].reg
                          /\ rest[m].to \cap rest[k].to # {})
  BY DEF Clear
<1>1. m + d \in e .. c - 1 /\ m \in 1 .. k /\ k \in 1 .. k /\ k + d = c
  OBVIOUS
<1>2. rest[m] = q[m + d] /\ rest[k] = q[c]
  BY <1>1 DEF Shifted
<1> QED
  BY <1>1, <1>2 DEF Clear

(* Step s takes the variables g and the registers R to h and Q; good: no   *)
(* transfer has failed, this one included; n: the steps it leaves out.     *)
VarsAfter(s, n, g, h, Q, good) ==
  /\ \A v \in Panel : ~ (s.op = "read" /\ s.slot = v) => h[v] = g[v]
  /\ s.op = "read" =>
       /\ Fits(s.reg, h[s.slot])
       /\ s.reg \in SetupRegs =>
            h[s.slot].hi = SetupHi(s.reg) \/ (h[s.slot] = s.miss /\ n = s.skip)
       /\ good => \A p \in Panel : s.from = << {p} >> => h[s.slot] = Q[p][s.reg]

RegsAfter(s, R, Q, good) ==
  /\ \A p \in Panel, r \in Regs :
       ~ (s.op \in {"write", "lum"} /\ s.reg = r /\ p \in s.to) => Q[p][r] = R[p][r]
  /\ good /\ s.op = "write" => \A p \in s.to, f \in s.set : Q[p][s.reg][f] = s.val[f]

(* A step is taken: what is put back later is still to be read, or held.   *)
LEMMA BacksAfterHead ==
  ASSUME NEW q \in Seq(GoodSteps), q # << >>, NEW n \in Nat,
         NEW g, NEW h, NEW R, NEW Q, NEW ok \in BOOLEAN, NEW good \in BOOLEAN,
         BacksOK(q, g, R, ok), NoSkipOver(q),
         n = 0 \/ n = SkipOf(q[1]),
         good => ok,
         VarsAfter(q[1], n, g, h, Q, good), RegsAfter(q[1], R, Q, good)
  PROVE  LET rest == RestOf(q, n) IN BacksOK(rest, h, Q, good) /\ NoSkipOver(rest)
<1>h. /\ \A v \in Panel : ~ (q[1].op = "read" /\ q[1].slot = v) => h[v] = g[v]
      /\ q[1].op = "read" =>
           /\ Fits(q[1].reg, h[q[1].slot])
           /\ q[1].reg \in SetupRegs => \/ h[q[1].slot].hi = SetupHi(q[1].reg)
                                        \/ h[q[1].slot] = q[1].miss /\ n = q[1].skip
           /\ good => \A p \in Panel : q[1].from = << {p} >> => h[q[1].slot] = Q[p][q[1].reg]
  BY DEF VarsAfter
<1>r. good => \A p \in Panel, r \in Followed :
        ~ (q[1].op = "write" /\ q[1].reg = r /\ p \in q[1].to) => Q[p][r] = R[p][r]
  <2>1. q[1] \in GoodSteps
    BY HeadIsFirst
  <2>2. q[1].op = "lum" => q[1].reg = "LUM_REG"
    BY <2>1, StepFacts
  <2> QED
    BY <2>2 DEF RegsAfter, Followed
<1> USE <1>h, <1>r
<1> DEFINE rest == RestOf(q, n)
           len == Len(q)
           m == Len(rest)
<1>1. /\ len \in Nat \ {0} /\ m \in Nat /\ rest \in Seq(GoodSteps)
      /\ \A i \in 1 .. m : rest[i] = q[i + 1 + n] /\ i + 1 + n \in 1 .. len
  BY RestFacts
<1>2. \A k \in 1 .. len : q[k] \in GoodSteps
  BY <1>1, LenProperties
<1> HIDE DEF rest, len, m
<1>3. NoSkipOver(rest)
  <2> SUFFICES ASSUME NEW i \in 1 .. m, NEW k \in 1 .. m,
                      i < k, Back(rest[k]), SkipOf(rest[i]) # 0
               PROVE  k <= i + SkipOf(rest[i])
    BY DEF NoSkipOver, m
  <2>1. /\ rest[i] = q[i + 1 + n] /\ i + 1 + n \in 1 .. len
        /\ rest[k] = q[k + 1 + n] /\ k + 1 + n \in 1 .. len /\ i + 1 + n < k + 1 + n
    BY <1>1
  <2>2. k + 1 + n <= (i + 1 + n) + SkipOf(q[i + 1 + n])
    BY <2>1 DEF NoSkipOver, len
  <2>3. SkipOf(q[i + 1 + n]) \in Nat
    BY <2>1, <1>2, StepFacts DEF SkipOf
  <2> QED
    BY <2>1, <2>2, <2>3
<1>4. ASSUME NEW k \in 1 .. m, Back(rest[k])
      PROVE  (\E j \in 1 .. k - 1 : Feeds(rest, j, k)) \/ Held(rest, k, h, Q, good)
  <2> DEFINE c == k + 1 + n
  <2>1. rest[k] = q[c] /\ c \in 1 .. len /\ c > 1 /\ Back(q[c]) /\ c - 1 = k + n
    BY <1>1, <1>4
  <2>2. \A i \in 1 .. k : rest[i] = q[i + 1 + n]
    BY <1>1
  <2> HIDE DEF c
  <2>3. n = 0
    <3>1. CASE SkipOf(q[1]) # 0
      <4>1. 1 \in 1 .. len /\ c <= 1 + SkipOf(q[1])
        BY <2>1, <3>1, <1>1 DEF NoSkipOver, len
      <4>2. SkipOf(q[1]) \in Nat
        BY <4>1, <1>2, StepFacts DEF SkipOf
      <4> QED
        BY <4>1, <4>2 DEF c
    <3> QED
      BY <3>1
  <2>4. q[c] \in GoodSteps /\ q[c].op = "write" /\ q[c].reg \in Followed /\ q[c].slot \in Panel
        /\ q[c].to \in SUBSET Panel
    BY <2>1, <1>2, StepFacts DEF Back, StepOK
  <2>5. q[1] \in GoodSteps
    BY <1>1, <1>2
  <2>8. c = k + 1 + n /\ 1 + 1 + n = 2 /\ k \in Nat /\ k >= 1
    BY <2>3 DEF c
  <2>9. k \in Nat /\ k >= 1 /\ Shifted(q, rest, k, 1) /\ c = k + 1
    BY <2>2, <2>3, <2>8 DEF Shifted
  <2>6. CASE Held(q, c, g, R, ok)
    <3>1. 1 \in 1 .. c - 1 /\ Clear(q, c, 1)
      BY <2>1, <2>6 DEF Held
    <3>2. /\ ~ (q[1].op = "read" /\ q[1].slot = q[c].slot)
          /\ ~ (q[1].op = "write" /\ q[1].reg = q[c].reg /\ q[1].to \cap q[c].to # {})
      BY <3>1 DEF Clear
    <3>3. h[q[c].slot] = g[q[c].slot]
      BY <3>2, <2>4
    <3>4. Clear(q, c, 2)
      BY <3>1 DEF Clear
    <3>5. Clear(rest, k, 1)
      <4>1. 2 = 1 + 1 /\ 1 \in Nat /\ 1 >= 1
        OBVIOUS
      <4> QED
        BY ONLY <2>9, <3>4, <4>1, ClearOfRest
    <3>6. ASSUME good, NEW p \in q[c].to PROVE Q[p][q[c].reg] = R[p][q[c].reg]
      BY <3>2, <3>6, <2>4
    <3> QED
      BY <3>3, <3>5, <3>6, <2>1, <2>6 DEF Held
  <2>7. CASE \E j \in 1 .. c - 1 : Feeds(q, j, c)
    <3>1. PICK j \in 1 .. c - 1 : Feeds(q, j, c)
      BY <2>7
    <3>2. CASE j = 1
      <4>1. /\ q[1].op = "read" /\ q[1].slot = q[c].slot /\ q[1].reg = q[c].reg /\ Clear(q, c, 2)
            /\ IF q[c].reg \in SetupRegs
               THEN q[1].miss.hi = SetupHi(q[c].reg) \/ c <= 1 + q[1].skip
               ELSE \E p \in Panel : q[1].from = << {p} >> /\ q[c].to = {p}
        BY <3>1, <3>2 DEF Feeds
      <4>2. Clear(rest, k, 1)
        <5>1. 2 = 1 + 1 /\ 1 \in Nat /\ 1 >= 1
          OBVIOUS
        <5>2. Clear(q, c, 2)
          BY <4>1
        <5> QED
          BY ONLY <2>9, <5>1, <5>2, ClearOfRest
      <4>3. Fits(q[c].reg, h[q[c].slot])
        BY <4>1
      <4>4. CASE q[c].reg \in SetupRegs
        <5>1. CASE h[q[1].slot].hi = SetupHi(q[1].reg)
          BY <4>1, <4>2, <4>3, <4>4, <5>1, <2>1 DEF Held
        <5>2. CASE h[q[1].slot] = q[1].miss /\ q[1].skip = 0
          <6>1. q[1].miss.hi = SetupHi(q[c].reg)
            BY <4>1, <4>4, <5>2, <2>1
          <6> QED
            BY <4>1, <4>2, <4>3, <4>4, <5>2, <6>1, <2>1 DEF Held
        <5> QED
          BY <5>1, <5>2, <4>1, <4>4, <2>3
      <4>5. CASE ~ (q[c].reg \in SetupRegs)
        <5>1. PICK p \in Panel : q[1].from = << {p} >> /\ q[c].to = {p}
          BY <4>1, <4>5
        <5>2. good => \A x \in q[c].to : Q[x][q[c].reg] = h[q[c].slot]
          BY <5>1, <4>1
        <5> QED
          BY <4>2, <4>3, <4>5, <5>2, <2>1 DEF Held
      <4> QED
        BY <4>4, <4>5
    <3>3. CASE j # 1
      <4> DEFINE i == j - 1
      <4>0. i \in 1 .. k - 1 /\ j = i + 1 + n /\ i + 1 >= 1 /\ i + 1 \in Nat /\ i \in 1 .. k
        BY <3>3, <2>3, <2>8
      <4>1. i \in 1 .. k - 1 /\ rest[i] = q[j] /\ j = i + 1 + n /\ i + 1 >= 1 /\ i + 1 \in Nat
        BY <4>0, <2>2
      <4>2. Clear(q, c, j + 1) /\ j + 1 \in Nat
        BY <3>1, <4>1, <2>8 DEF Feeds
      <4>3. Clear(rest, k, i + 1)
        <5> DEFINE x == i + 1
                   y == j + 1
        <5>1. x \in Nat /\ x >= 1 /\ y \in Nat /\ y = x + 1 /\ Clear(q, c, y)
          BY <4>1, <4>2, <2>3
        <5> HIDE DEF x, y
        <5>2. Clear(rest, k, x)
          BY <2>9, <5>1, ClearOfRest
        <5> QED
          BY <5>2 DEF x
      <4>4. c <= j + q[j].skip => k <= i + q[j].skip
        <5>a. j \in 1 .. len
          BY <2>1, <1>1
        <5>1. q[j].op = "read" /\ q[j] \in GoodSteps
          BY <3>1, <5>a, <1>2 DEF Feeds
        <5>2. q[j].skip \in Nat
          BY <5>1, StepFacts
        <5> QED
          BY <4>1, <5>2 DEF c
      <4>5. Feeds(rest, i, k)
        <5> HIDE DEF i
        <5> QED
          BY <3>1, <4>1, <4>3, <4>4, <2>1 DEF Feeds
      <4> QED
        BY <4>1, <4>5
    <3> QED
      BY <3>2, <3>3
  <2> QED
    BY <2>1, <2>6, <2>7 DEF BacksOK, len
<1>5. BacksOK(rest, h, Q, good)
  BY <1>4 DEF BacksOK, m
<1> QED
  BY <1>3, <1>5 DEF rest

(* A step is taken and nothing has failed: the sensors stay on until the   *)
(* last one has been read.                                                 *)
LEMMA SensorAfterHead ==
  ASSUME NEW q \in Seq(GoodSteps), q # << >>, NEW n \in Nat,
         NEW g, NEW h, NEW R, NEW Q, NEW ok \in BOOLEAN, NEW good \in BOOLEAN,
         SensorOK(q, g, R, ok), good => ok /\ n = 0,
         VarsAfter(q[1], n, g, h, Q, good), RegsAfter(q[1], R, Q, good)
  PROVE  SensorOK(RestOf(q, n), h, Q, good)
<1>h. /\ \A p \in Panel : ~ (q[1].op = "write" /\ q[1].reg = "PVT_CTL" /\ p \in q[1].to)
                            => Q[p]["PVT_CTL"] = R[p]["PVT_CTL"]
      /\ good /\ q[1].op = "write" =>
           \A p \in q[1].to, f \in q[1].set : Q[p][q[1].reg][f] = q[1].val[f]
      /\ good /\ q[1].op = "read" =>
           \A p \in Panel : q[1].from = << {p} >> => h[q[1].slot] = Q[p][q[1].reg]
  <2>1. q[1] \in GoodSteps /\ (q[1].op = "lum" => q[1].reg = "LUM_REG")
    BY HeadIsFirst, StepFacts
  <2>2. "PVT_CTL" \in Regs
    BY Widths
  <2> QED
    BY <2>1, <2>2 DEF VarsAfter, RegsAfter
<1> USE <1>h
<1> DEFINE rest == RestOf(q, n)
           len == Len(q)
           x == Len(rest)
<1>b. len \in Nat \ {0}
  BY HeadIsFirst
<1>1. /\ x = IF 2 + n <= len THEN len - (1 + n) ELSE 0
      /\ \A i \in 1 .. x : rest[i] = q[i + 1 + n] /\ i + 1 + n \in 1 .. len
  BY RestFacts
<1>a. q[1] \in GoodSteps /\ \A k \in 1 .. len : q[k] \in GoodSteps
  BY HeadIsFirst
<1> HIDE DEF rest, len, x
<1>c. x \in Nat
  BY <1>b, <1>1
<1> SUFFICES ASSUME good, NEW k \in 1 .. x, rest[k].op = "sensor"
             PROVE
            /\ IF k = 1
               THEN h[rest[1].slot].lo = 3
               ELSE /\ rest[k - 1].op = "read" /\ rest[k - 1].reg = "PVT_CTL"
                    /\ rest[k - 1].slot = rest[k].slot
                    /\ rest[k - 1].from = << {rest[k].slot} >>
            /\ \A p \in Panel : Q[p]["PVT_CTL"].lo = 3
            /\ \A m \in 1 .. k - 1 :
                 rest[m].op = "write" /\ rest[m].reg = "PVT_CTL" => rest[m].set = Fields /\ rest[m].val["lo"] = 3
            /\ \E m \in k + 1 .. x : rest[m].op = "write" /\ rest[m].to = All
  BY DEF SensorOK, rest, x
<1>2. \A i \in 1 .. x : rest[i] = q[i + 1] /\ i + 1 \in 1 .. len
  BY <1>1
<1> DEFINE c == k + 1
<1>3. c \in 1 .. len /\ q[c].op = "sensor" /\ c # 1 /\ rest[k] = q[c] /\ c - 1 = k
  BY <1>2
<1>4. /\ q[k].op = "read" /\ q[k].reg = "PVT_CTL"
      /\ q[k].slot = q[c].slot
      /\ q[k].from = << {q[c].slot} >>
  <2>1. /\ q[c - 1].op = "read" /\ q[c - 1].reg = "PVT_CTL"
        /\ q[c - 1].slot = q[c].slot
        /\ q[c - 1].from = << {q[c].slot} >>
    <3> HIDE DEF c
    <3> QED
      BY <1>3 DEF SensorOK, len
  <2> QED
    BY <2>1
<1>5. /\ \/ \A p \in Panel : R[p]["PVT_CTL"].lo = 3
         \/ q[1].op = "write" /\ q[1].reg = "PVT_CTL" /\ q[1].set = Fields /\ q[1].to = All
      /\ \A m \in 1 .. c - 1 :
           q[m].op = "write" /\ q[m].reg = "PVT_CTL" => q[m].set = Fields /\ q[m].val["lo"] = 3
  BY <1>3 DEF SensorOK, len
<1>6. PICK m \in c + 1 .. len : q[m].op = "write" /\ q[m].to = All
  BY <1>3 DEF SensorOK, len
<1>7. \A p \in Panel : Q[p]["PVT_CTL"].lo = 3
  <2>1. CASE q[1].op = "write" /\ q[1].reg = "PVT_CTL"
    <3>1. q[1].set = Fields /\ q[1].val["lo"] = 3
      BY <1>3, <1>5, <2>1
    <3>2. q[1].to = All
      BY <1>a, <2>1, StepFacts DEF StepOK
    <3>3. ASSUME NEW p \in Panel PROVE Q[p]["PVT_CTL"]["lo"] = 3
      BY <2>1, <3>1, <3>2 DEF All, Fields
    <3> QED
      BY <3>3
  <2>2. CASE ~ (q[1].op = "write" /\ q[1].reg = "PVT_CTL")
    BY <1>5, <2>2
  <2> QED
    BY <2>1, <2>2
<1>8. IF k = 1
      THEN h[rest[1].slot].lo = 3
      ELSE /\ rest[k - 1].op = "read" /\ rest[k - 1].reg = "PVT_CTL"
           /\ rest[k - 1].slot = rest[k].slot
           /\ rest[k - 1].from = << {rest[k].slot} >>
  <2>1. CASE k = 1
    <3>1. q[c].slot \in Panel
      BY <1>3, <1>a, StepFacts
    <3>2. h[q[1].slot] = Q[q[c].slot]["PVT_CTL"]
      BY <1>4, <2>1, <3>1
    <3> QED
      BY <1>3, <1>4, <1>7, <2>1, <3>1, <3>2
  <2>2. CASE k # 1
    <3>1. k - 1 \in 1 .. x /\ (k - 1) + 1 = k
      BY <2>2, <1>c
    <3>2. rest[k - 1] = q[k]
      BY <3>1, <1>2
    <3> QED
      BY <1>3, <1>4, <2>2, <3>2
  <2> QED
    BY <2>1, <2>2
<1>9. ASSUME NEW i \in 1 .. k - 1, rest[i].op = "write", rest[i].reg = "PVT_CTL"
      PROVE  rest[i].set = Fields /\ rest[i].val["lo"] = 3
  <2>1. i \in 1 .. x /\ i + 1 \in 1 .. c - 1
    BY <1>c
  <2> QED
    BY <1>2, <1>5, <1>9, <2>1
<1>10. \E i \in k + 1 .. x : rest[i].op = "write" /\ rest[i].to = All
  <2>1. m - 1 \in k + 1 .. x /\ m - 1 \in 1 .. x /\ (m - 1) + 1 = m
    BY <1>1, <1>b, <1>c
  <2>2. rest[m - 1] = q[m]
    BY <1>2, <2>1
  <2> QED
    BY <1>6, <2>1, <2>2
<1> QED
  BY <1>7, <1>8, <1>9, <1>10

(* The panels of a list are those of its steps.                            *)
LEMMA PanelsOfSteps ==
  ASSUME NEW q \in Seq(GoodSteps)
  PROVE  /\ \A k \in 1 .. Len(q) : q[k].op \in {"write", "lum"} => q[k].to \subseteq PanelsOf(q)
         /\ \A k \in 1 .. Len(q) : q[k].op = "read" =>
              \A j \in 1 .. Len(q[k].from) : q[k].from[j] \subseteq PanelsOf(q)
         /\ \A p \in PanelsOf(q) : \E k \in 1 .. Len(q) :
              \/ q[k].op \in {"write", "lum"} /\ p \in q[k].to
              \/ q[k].op = "read" /\ \E j \in 1 .. Len(q[k].from) : p \in q[k].from[j]
<1> DEFINE P(s) == CASE s.op = "read" -> UNION {s.from[k] : k \in DOMAIN s.from}
                     [] s.op = "sensor" -> {}
                     [] OTHER -> s.to
<1>1. DOMAIN q = 1 .. Len(q) /\ \A k \in 1 .. Len(q) : q[k] \in GoodSteps
  BY LenProperties
<1>2. PanelsOf(q) = UNION {P(q[k]) : k \in 1 .. Len(q)}
  BY <1>1 DEF PanelsOf
<1>3. ASSUME NEW s \in GoodSteps
      PROVE  /\ s.op \in {"write", "lum"} => P(s) = s.to
             /\ s.op = "sensor" => P(s) = {}
             /\ s.op = "read" => /\ \A j \in 1 .. Len(s.from) : s.from[j] \subseteq P(s)
                                 /\ \A p \in P(s) : \E j \in 1 .. Len(s.from) : p \in s.from[j]
  <2>1. s.op \in {"write", "lum"} => P(s) = s.to
    OBVIOUS
  <2>2. s.op = "sensor" => P(s) = {}
    OBVIOUS
  <2>3. CASE s.op = "read"
    <3>1. s.from \in Seq(SUBSET Panel)
      BY <2>3, StepFacts
    <3>2. DOMAIN s.from = 1 .. Len(s.from)
      BY <3>1, LenProperties
    <3>3. P(s) = UNION {s.from[k] : k \in 1 .. Len(s.from)}
      BY <2>3, <3>2
    <3> HIDE DEF P
    <3> QED
      BY <2>3, <3>3
  <2> QED
    BY <2>1, <2>2, <2>3
<1>4. \A k \in 1 .. Len(q) : q[k].op \in {"read", "write", "lum", "sensor"}
  BY <1>1, StepFacts
<1> HIDE DEF P
<1>5. \A k \in 1 .. Len(q) : P(q[k]) \subseteq PanelsOf(q)
  BY <1>2
<1>6. ASSUME NEW p \in PanelsOf(q)
      PROVE  \E k \in 1 .. Len(q) :
              \/ q[k].op \in {"write", "lum"} /\ p \in q[k].to
              \/ q[k].op = "read" /\ \E j \in 1 .. Len(q[k].from) : p \in q[k].from[j]
  <2>1. PICK k \in 1 .. Len(q) : p \in P(q[k])
    BY <1>2
  <2> QED
    BY <1>1, <1>3, <1>4, <2>1
<1> QED
  BY <1>1, <1>3, <1>5, <1>6

(* A list that is left has no new panels.                                  *)
LEMMA PanelsOfRest ==
  ASSUME NEW q \in Seq(GoodSteps), q # << >>, NEW n \in Nat
  PROVE  PanelsOf(RestOf(q, n)) \subseteq PanelsOf(q)
<1> DEFINE rest == RestOf(q, n)
<1>1. /\ rest \in Seq(GoodSteps)
      /\ \A i \in 1 .. Len(rest) : rest[i] = q[i + 1 + n] /\ i + 1 + n \in 1 .. Len(q)
  BY RestFacts
<1> HIDE DEF rest
<1>2. ASSUME NEW p \in PanelsOf(rest) PROVE p \in PanelsOf(q)
  <2>1. PICK k \in 1 .. Len(rest) :
              \/ rest[k].op \in {"write", "lum"} /\ p \in rest[k].to
              \/ rest[k].op = "read" /\ \E j \in 1 .. Len(rest[k].from) : p \in rest[k].from[j]
    BY <1>1, PanelsOfSteps
  <2>2. k + 1 + n \in 1 .. Len(q) /\ rest[k] = q[k + 1 + n]
    BY <1>1
  <2> QED
    BY <2>1, <2>2, PanelsOfSteps
<1> QED
  BY <1>2 DEF rest

(* Another thread's step: it leaves the panels of q alone, and the         *)
(* sensors unless q has no panels.                                         *)
LEMMA JobFrame ==
  ASSUME NEW q \in Seq(GoodSteps), NEW g, NEW R, NEW Q, NEW ok \in BOOLEAN, NEW good \in BOOLEAN,
         JobOK(q, g, R, ok), good => ok,
         good => \A p \in PanelsOf(q) : Q[p] = R[p],
         good => \/ PanelsOf(q) = {}
                 \/ \A p \in Panel : Q[p]["PVT_CTL"] = R[p]["PVT_CTL"]
  PROVE  JobOK(q, g, Q, good)
<1>1. \A k \in 1 .. Len(q) : q[k] \in GoodSteps
  BY LenProperties
<1>2. \A k \in 1 .. Len(q) : q[k].op \in {"write", "lum"} => q[k].to \subseteq PanelsOf(q)
  BY PanelsOfSteps
<1>3. ASSUME NEW k \in 1 .. Len(q), Back(q[k]), Held(q, k, g, R, ok)
      PROVE  Held(q, k, g, Q, good)
  <2>1. q[k].to \subseteq PanelsOf(q)
    BY <1>2, <1>3 DEF Back
  <2>2. good => \A p \in q[k].to : Q[p] = R[p]
    BY <2>1
  <2> QED
    BY <1>3, <2>2 DEF Held
<1>4. BacksOK(q, g, Q, good)
  BY <1>3 DEF BacksOK, JobOK
<1>5. SensorOK(q, g, Q, good)
  <2> SUFFICES ASSUME good, NEW k \in 1 .. Len(q), q[k].op = "sensor"
               PROVE
            /\ IF k = 1
               THEN g[q[1].slot].lo = 3
               ELSE /\ q[k - 1].op = "read" /\ q[k - 1].reg = "PVT_CTL"
                    /\ q[k - 1].slot = q[k].slot
                    /\ q[k - 1].from = << {q[k].slot} >>
            /\ \/ \A p \in Panel : Q[p]["PVT_CTL"].lo = 3
               \/ q[1].op = "write" /\ q[1].reg = "PVT_CTL" /\ q[1].set = Fields /\ q[1].to = All
            /\ \A m \in 1 .. k - 1 :
                 q[m].op = "write" /\ q[m].reg = "PVT_CTL" => q[m].set = Fields /\ q[m].val["lo"] = 3
            /\ \E m \in k + 1 .. Len(q) : q[m].op = "write" /\ q[m].to = All
    BY DEF SensorOK
  <2>1. PICK m \in k + 1 .. Len(q) : q[m].op = "write" /\ q[m].to = All
    BY DEF JobOK, SensorOK
  <2>2. m \in 1 .. Len(q)
    OBVIOUS
  <2>3. "R" \in PanelsOf(q)
    BY <1>2, <2>1, <2>2 DEF All, Panel
  <2>4. \A p \in Panel : Q[p]["PVT_CTL"] = R[p]["PVT_CTL"]
    BY <2>3
  <2> QED
    BY <2>4 DEF JobOK, SensorOK
<1> QED
  BY <1>4, <1>5 DEF JobOK

(* A list without steps promises nothing.                                  *)
LEMMA EmptyJobOK ==
  ASSUME NEW g, NEW R, NEW ok
  PROVE  JobOK(<< >>, g, R, ok)
<1>1. 1 .. Len(<< >>) = {}
  BY EmptySeq
<1> QED
  BY <1>1 DEF JobOK, BacksOK, NoSkipOver, SensorOK

(* A list is about panels only.                                            *)
LEMMA PanelsArePanels ==
  ASSUME NEW q \in Seq(GoodSteps)
  PROVE  PanelsOf(q) \subseteq Panel
<1>1. ASSUME NEW p \in PanelsOf(q) PROVE p \in Panel
  <2>1. PICK k \in 1 .. Len(q) :
              \/ q[k].op \in {"write", "lum"} /\ p \in q[k].to
              \/ q[k].op = "read" /\ \E j \in 1 .. Len(q[k].from) : p \in q[k].from[j]
    BY PanelsOfSteps
  <2>2. q[k] \in GoodSteps
    BY LenProperties
  <2>3. CASE q[k].op \in {"write", "lum"} /\ p \in q[k].to
    BY <2>2, <2>3, StepFacts
  <2>4. CASE q[k].op = "read" /\ \E j \in 1 .. Len(q[k].from) : p \in q[k].from[j]
    <3>1. PICK j \in 1 .. Len(q[k].from) : p \in q[k].from[j]
      BY <2>4
    <3>2. q[k].from \in Seq(SUBSET Panel)
      BY <2>2, <2>4, StepFacts
    <3>3. q[k].from[j] \in SUBSET Panel
      BY <3>2, ElementOfSeq
    <3> QED
      BY <3>1, <3>3
  <2> QED
    BY <2>1, <2>3, <2>4
<1> QED
  BY <1>1

(* A read that is under way is of panels that the thread is at work on.    *)
LEMMA SentPanels ==
  ASSUME StateOK, SentIsRead, NEW u \in Threads, sent[u]
  PROVE  /\ job[u] \in Seq(GoodSteps) /\ job[u] # << >> /\ Head(job[u]) = job[u][1]
         /\ job[u][1].op = "read" /\ job[u][1] \in GoodSteps
         /\ Head(job[u][1].from) = job[u][1].from[1]
         /\ job[u][1].from[1] \subseteq PanelsOf(job[u])
         /\ job[u][1].from[1] \subseteq Panel
<1>1. job[u] \in Seq(GoodSteps) /\ job[u] # << >> /\ Head(job[u]).op = "read"
  BY DEF StateOK, SentIsRead, At
<1>2. Head(job[u]) = job[u][1] /\ job[u][1] \in GoodSteps /\ 1 \in 1 .. Len(job[u])
  BY <1>1, HeadIsFirst
<1>3. /\ job[u][1].from \in Seq(SUBSET Panel) /\ job[u][1].from # << >>
  BY <1>1, <1>2, StepFacts DEF StepOK
<1>4. /\ 1 \in 1 .. Len(job[u][1].from) /\ Head(job[u][1].from) = job[u][1].from[1]
      /\ job[u][1].from[1] \in SUBSET Panel
  <2> DEFINE f == job[u][1].from
  <2>1. f \in Seq(SUBSET Panel) /\ f # << >>
    BY <1>3
  <2> HIDE DEF f
  <2>2. Len(f) \in Nat \ {0}
    BY <2>1, EmptySeq
  <2>3. 1 \in 1 .. Len(f) /\ f[1] \in SUBSET Panel /\ Head(f) = f[1]
    BY <2>1, <2>2, ElementOfSeq
  <2> QED
    BY <2>3 DEF f
<1>5. job[u][1].from[1] \subseteq PanelsOf(job[u])
  BY <1>1, <1>2, <1>4, PanelsOfSteps
<1> QED
  BY <1>1, <1>2, <1>4, <1>5

(* A step is taken: what JobOK promises of the rest.                       *)
LEMMA JobAfterHead ==
  ASSUME NEW q \in Seq(GoodSteps), q # << >>, NEW n \in Nat,
         NEW g, NEW h, NEW R, NEW Q, NEW ok \in BOOLEAN, NEW good \in BOOLEAN,
         JobOK(q, g, R, ok), n = 0 \/ n = SkipOf(q[1]), good => ok /\ n = 0,
         VarsAfter(q[1], n, g, h, Q, good), RegsAfter(q[1], R, Q, good)
  PROVE  JobOK(RestOf(q, n), h, Q, good)
<1>1. /\ BacksOK(q, g, R, ok) /\ NoSkipOver(q) /\ SensorOK(q, g, R, ok)
  BY DEF JobOK
<1>2. good => ok
  OBVIOUS
<1>3. BacksOK(RestOf(q, n), h, Q, good) /\ NoSkipOver(RestOf(q, n))
  BY <1>1, <1>2, BacksAfterHead
<1>4. SensorOK(RestOf(q, n), h, Q, good)
  BY <1>1, SensorAfterHead
<1> QED
  BY <1>3, <1>4 DEF JobOK

(* A thread takes the head step of its list and leaves out the next n.     *)
LEMMA ContinueKeeps ==
  ASSUME AttrInv, NEW t \in Threads, job[t] # << >>, NEW n \in Nat,
         NEW vals \in [Panel -> Values], Continue(t, n, vals),
         plan' = plan, faults' \in 0 .. plan.faults, faults' = 0 => faults = 0 /\ n = 0,
         regs' \in [Panel -> [Regs -> Values]],
         \A p \in Panel, r \in Regs : Fits(r, regs'[p][r]),
         ptr' \in [Panel -> Regs], SetupSurvives',
         n = 0 \/ n = SkipOf(job[t][1]),
         \A p \in Panel : ~ (p \in PanelsOf(job[t])) => regs'[p] = regs[p] /\ ptr'[p] = ptr[p],
         VarsAfter(job[t][1], n, got[t], vals, regs', faults' = 0),
         RegsAfter(job[t][1], regs, regs', faults' = 0)
  PROVE  AttrInv'
<1> DEFINE q == job[t]
           rest == RestOf(q, n)
           ok == faults = 0
           good == faults' = 0
<1>1. /\ q \in Seq(GoodSteps) /\ q # << >> /\ JobOK(q, got[t], regs, ok)
      /\ q[1] \in GoodSteps /\ 1 \in 1 .. Len(q)
  BY HeadIsFirst DEF AttrInv, StateOK, JobsOK
<1>2. rest \in Seq(GoodSteps) /\ PanelsOf(rest) \subseteq PanelsOf(q)
  BY <1>1, RestFacts, PanelsOfRest
<1>3. /\ job' = [job EXCEPT ![t] = rest]
      /\ sent' = [sent EXCEPT ![t] = FALSE]
      /\ got' = [got EXCEPT ![t] = IF rest = << >> THEN Blank ELSE vals]
  BY DEF Continue, RestOf
<1>4. job'[t] = rest /\ sent'[t] = FALSE /\ got'[t] = IF rest = << >> THEN Blank ELSE vals
  BY <1>3 DEF AttrInv, StateOK
<1>5. \A u \in Threads : u # t => job'[u] = job[u] /\ sent'[u] = sent[u] /\ got'[u] = got[u]
  BY <1>3 DEF AttrInv, StateOK
<1>6. Blank \in [Panel -> Values]
  BY RegIsValue DEF Blank
<1>7. StateOK'
  <2>1. job' \in [Threads -> Seq(GoodSteps)]
    BY <1>2, <1>3 DEF AttrInv, StateOK
  <2>2. sent' \in [Threads -> BOOLEAN]
    BY <1>3 DEF AttrInv, StateOK
  <2>3. got' \in [Threads -> [Panel -> Values]]
    BY <1>3, <1>6 DEF AttrInv, StateOK
  <2>4. plan' \in Scenarios /\ faults' \in 0 .. plan'.faults
    BY DEF AttrInv, StateOK
  <2> QED
    BY <2>1, <2>2, <2>3, <2>4 DEF StateOK
<1>8. SentIsRead'
  <2> SUFFICES ASSUME NEW u \in Threads, sent'[u] PROVE At(u, "read")'
    BY DEF SentIsRead
  <2>1. u # t
    BY <1>4
  <2>2. At(u, "read") /\ job'[u] = job[u]
    BY <1>5, <2>1 DEF AttrInv, SentIsRead
  <2> QED
    BY <2>2 DEF At
<1>9. \A u \in Threads : PanelsOf(job'[u]) \subseteq PanelsOf(job[u])
  BY <1>2, <1>4, <1>5
<1>10. Apart'
  BY <1>9 DEF Apart, AttrInv
<1>11. ReadsOwnRegister'
  <2> SUFFICES ASSUME NEW u \in Threads, sent'[u], NEW p \in Head(Head(job'[u]).from)
               PROVE  ptr'[p] = Head(job'[u]).reg
    BY DEF ReadsOwnRegister
  <2>1. u # t
    BY <1>4
  <2>2. job'[u] = job[u] /\ sent[u]
    BY <1>5, <2>1
  <2>3. ptr[p] = Head(job[u]).reg
    BY <2>2 DEF AttrInv, ReadsOwnRegister
  <2>4. p \in PanelsOf(job[u]) /\ p \in Panel
    <3>1. StateOK /\ SentIsRead
      BY DEF AttrInv
    <3>2. p \in Head(Head(job[u]).from)
      BY <2>2
    <3> QED
      BY <2>2, <3>1, <3>2, SentPanels
  <2>5. ~ (p \in PanelsOf(job[t]))
    BY <2>1, <2>4 DEF AttrInv, Apart
  <2> QED
    BY <2>2, <2>3, <2>4, <2>5
<1>12. JobOK(rest, got'[t], regs', good)
  <2>1. CASE rest = << >>
    <3>1. JobOK(<< >>, got'[t], regs', good)
      BY EmptyJobOK
    <3> HIDE DEF rest, good
    <3> QED
      BY <2>1, <3>1
  <2>2. CASE rest # << >>
    <3>1. got'[t] = vals
      BY <1>4, <2>2
    <3>2. ok \in BOOLEAN /\ good \in BOOLEAN /\ (good => ok /\ n = 0)
      OBVIOUS
    <3>3. /\ n = 0 \/ n = SkipOf(q[1])
          /\ VarsAfter(q[1], n, got[t], vals, regs', good) /\ RegsAfter(q[1], regs, regs', good)
      OBVIOUS
    <3>6. JobOK(q, got[t], regs, ok)
      BY <1>1
    <3> HIDE DEF q, ok, good
    <3>7. JobOK(RestOf(q, n), vals, regs', good)
      BY ONLY <1>1, <3>2, <3>3, <3>6, JobAfterHead, n \in Nat
    <3> QED
      BY <3>1, <3>7
  <2> QED
    BY <2>1, <2>2
<1>13. ASSUME NEW u \in Threads, u # t
       PROVE  JobOK(job[u], got[u], regs', good)
  <2>1. job[u] \in Seq(GoodSteps) /\ JobOK(job[u], got[u], regs, ok)
    BY DEF AttrInv, StateOK, JobsOK
  <2>2. \A p \in PanelsOf(job[u]) : p \in Panel
    BY <2>1, PanelsArePanels
  <2>3. \A p \in PanelsOf(job[u]) : regs'[p] = regs[p]
    BY <1>13, <2>2 DEF AttrInv, Apart
  <2>4. \/ PanelsOf(job[u]) = {}
        \/ \A p \in Panel, r \in {"PL_CFG", "PVT_CTL"} : regs'[p][r] = regs[p][r]
    <3> SUFFICES ASSUME NEW p \in Panel, NEW r \in {"PL_CFG", "PVT_CTL"}, regs'[p][r] # regs[p][r]
                 PROVE  PanelsOf(job[u]) = {}
      OBVIOUS
    <3>1. q[1].op \in {"write", "lum"} /\ q[1].reg = r
      BY Widths DEF RegsAfter
    <3>2. q[1].op = "write"
      BY <3>1, <1>1, StepFacts
    <3>3. q[1].to = All
      BY <3>1, <3>2, <1>1, StepFacts DEF StepOK
    <3>4. All \subseteq PanelsOf(job[t])
      BY <3>2, <3>3, <1>1, PanelsOfSteps
    <3> QED
      BY <3>4, <2>2, <1>13 DEF All, AttrInv, Apart
  <2> HIDE DEF q
  <2>5. ok \in BOOLEAN /\ good \in BOOLEAN /\ (good => ok)
    OBVIOUS
  <2> HIDE DEF ok, good
  <2> QED
    BY <2>1, <2>3, <2>4, <2>5, JobFrame
<1>14. JobsOK'
  <2> SUFFICES ASSUME NEW u \in Threads PROVE JobOK(job'[u], got'[u], regs', faults' = 0)
    BY DEF JobsOK
  <2> QED
    BY <1>4, <1>5, <1>12, <1>13
<1> QED
  BY <1>7, <1>8, <1>10, <1>11, <1>14 DEF AttrInv

-----------------------------------------------------------------------------
(* The actions keep the invariant.                                         *)

(* The bounds of the scenario.                                             *)
LEMMA PlanFacts ==
  ASSUME StateOK
  PROVE  plan.faults \in Nat /\ plan.pairs \in Nat \ {0} /\ plan.attrs \subseteq AttrNames
BY AttrsAssumption DEF StateOK

(* A number that is limited is at most the limit.                          *)
LEMMA AtMostFacts ==
  ASSUME NEW v \in Nat, NEW top \in Nat
  PROVE  AtMost(v, top) \in 0 .. top
BY DEF AtMost

(* A luminance limit has room in the register.                             *)
LEMMA MaxLumFacts ==
  ASSUME NEW i
  PROVE  MaxLum(i) \in 0 .. 8300 /\ MaxLum(i) \in Nat
BY DEF MaxLum

(* What luminance_store writes has room in the register.                   *)
LEMMA LumFits ==
  ASSUME NEW v \in Nat, NEW i
  PROVE  Reg(AtMost(v, MaxLum(i)), 0) \in Values /\ Fits("LUM_REG", Reg(AtMost(v, MaxLum(i)), 0))
<1>1. PICK top \in 0 .. 8300 : top = MaxLum(i)
  BY MaxLumFacts
<1>2. PICK a \in 0 .. top : a = AtMost(v, top)
  <2>1. top \in Nat
    OBVIOUS
  <2> QED
    BY <2>1, AtMostFacts
<1>3. a \in Nat /\ a \in 0 .. 16383
  <2>1. top \in Nat /\ top <= 8300
    OBVIOUS
  <2>2. a \in Nat /\ a <= top
    BY <2>1
  <2>3. a <= 16383
    BY ONLY <2>1, <2>2
  <2> QED
    BY ONLY <2>2, <2>3
<1>4. /\ Reg(a, 0) \in Values /\ Reg(a, 0)["lo"] = a /\ Reg(a, 0)["hi"] = 0
      /\ Width["LUM_REG"]["lo"] = 16383 /\ Width["LUM_REG"]["hi"] = 0
  BY <1>3, RegIsValue, Widths
<1>5. ASSUME NEW f \in Fields PROVE Reg(a, 0)[f] \in 0 .. Width["LUM_REG"][f]
  <2>1. CASE f = "lo"
    <3>1. Reg(a, 0)[f] = a /\ Width["LUM_REG"][f] = 16383
      BY <2>1, <1>4
    <3> DEFINE x == Reg(a, 0)[f]
               w == Width["LUM_REG"][f]
    <3>2. x = a /\ w = 16383
      BY <3>1
    <3> HIDE DEF x, w
    <3>3. a \in 0 .. w
      BY <1>3, <3>2
    <3>4. x \in 0 .. w
      BY ONLY <3>2, <3>3
    <3> QED
      BY <3>4 DEF x, w
  <2>2. CASE f = "hi"
    <3>1. Reg(a, 0)[f] = 0 /\ Width["LUM_REG"][f] = 0
      BY <2>2, <1>4
    <3> QED
      BY <3>1
  <2> QED
    BY <2>1, <2>2 DEF Fields
<1> QED
  BY <1>1, <1>2, <1>4, <1>5 DEF Fits

(* SetupSurvives, register by register.                                    *)
SetupIn(R) == \A p \in Panel, r \in SetupRegs : R[p][r].hi = SetupHi(r)

(* SetupSurvives, for any registers.                                       *)
LEMMA SetupIsIn == (SetupSurvives <=> SetupIn(regs)) /\ (SetupSurvives' <=> SetupIn(regs'))
<1>1. ASSUME NEW R
      PROVE  SetupIn(R) <=> \A p \in Panel : R[p].PL_CFG.hi = 1 /\ R[p].OSC_TRIM.hi = 2
                                               /\ R[p].EFUSE_REG_SW.hi = 1
  BY DEF SetupIn, SetupRegs, SetupHi
<1> QED
  BY <1>1 DEF SetupSurvives

(* What a thread that is at its step has in hand.                          *)
LEMMA AtFacts ==
  ASSUME AttrInv, NEW t \in Threads, job[t] # << >>
  PROVE  /\ job[t] \in Seq(GoodSteps) /\ Head(job[t]) = job[t][1] /\ job[t][1] \in GoodSteps
         /\ 1 \in 1 .. Len(job[t]) /\ Len(job[t]) \in Nat \ {0}
         /\ got[t] \in [Panel -> Values]
         /\ JobOK(job[t], got[t], regs, faults = 0)
         /\ job[t][1].op \in {"write", "lum"} => job[t][1].to \subseteq PanelsOf(job[t])
<1>1. job[t] \in Seq(GoodSteps) /\ got[t] \in [Panel -> Values]
      /\ JobOK(job[t], got[t], regs, faults = 0)
  BY DEF AttrInv, StateOK, JobsOK
<1> QED
  BY <1>1, HeadIsFirst, PanelsOfSteps

(* A read gets its value: the handler now holds what the panel holds.      *)
LEMMA FetchKeeps ==
  ASSUME AttrInv, NEW t \in Threads, Fetch(t)
  PROVE  AttrInv'
<1> DEFINE s == job[t][1]
<1>1. job[t] # << >> /\ Head(job[t]).op = "read" /\ sent[t]
  BY DEF Fetch, At
<1>2. /\ Head(job[t]) = s /\ s \in GoodSteps /\ s.op = "read" /\ got[t] \in [Panel -> Values]
      /\ s.slot \in Panel /\ s.reg \in Regs
  BY <1>1, AtFacts, StepFacts
<1>3. Head(s.from) = s.from[1] /\ s.from[1] \subseteq Panel
  BY <1>1, SentPanels DEF AttrInv
<1>4. PICK p \in Head(s.from) : Continue(t, 0, [got[t] EXCEPT ![s.slot] = Fetched(p, s.reg)])
  BY <1>2 DEF Fetch
<1>5. p \in Panel /\ ptr[p] = s.reg
  BY <1>1, <1>2, <1>3, <1>4 DEF AttrInv, ReadsOwnRegister
<1> DEFINE vals == [got[t] EXCEPT ![s.slot] = regs[p][s.reg]]
<1>6. /\ regs \in [Panel -> [Regs -> Values]] /\ \A x \in Panel, r \in Regs : Fits(r, regs[x][r])
      /\ ptr \in [Panel -> Regs] /\ faults \in 0 .. plan.faults /\ SetupIn(regs)
  BY SetupIsIn DEF AttrInv, StateOK
<1>7. Continue(t, 0, vals) /\ vals \in [Panel -> Values]
  <2>1. Fetched(p, s.reg) = regs[p][s.reg]
    BY <1>5 DEF Fetched
  <2> QED
    BY <1>2, <1>4, <1>5, <1>6, <2>1
<1>8. UNCHANGED <<plan, regs, ptr, faults>>
  BY DEF Fetch
<1>9. vals[s.slot] = regs[p][s.reg] /\ \A v \in Panel : s.slot # v => vals[v] = got[t][v]
  BY <1>2
<1>10. VarsAfter(s, 0, got[t], vals, regs', faults' = 0)
  <2>1. s.reg \in SetupRegs => vals[s.slot].hi = SetupHi(s.reg)
    BY <1>5, <1>6, <1>9 DEF SetupIn
  <2>2. ASSUME NEW x \in Panel, s.from = << {x} >> PROVE vals[s.slot] = regs'[x][s.reg]
    <3>1. p = x
      BY <2>2, <1>3, <1>4
    <3> QED
      BY <3>1, <1>8, <1>9
  <2>3. Fits(s.reg, vals[s.slot])
    BY <1>2, <1>5, <1>6, <1>9
  <2> HIDE DEF s, vals
  <2> QED
    BY <1>2, <1>9, <2>1, <2>2, <2>3 DEF VarsAfter
<1>11. RegsAfter(s, regs, regs', faults' = 0)
  BY <1>2, <1>8 DEF RegsAfter
<1>12. SetupSurvives'
  BY <1>8 DEF AttrInv, SetupSurvives
<1>13. ptr' = ptr /\ regs' = regs /\ faults' = faults /\ plan' = plan
  BY <1>8
<1> HIDE DEF vals
<1> QED
  BY <1>1, <1>6, <1>7, <1>10, <1>11, <1>12, <1>13, ContinueKeeps

(* A handler looks whether its sensor is on.                               *)
LEMMA AskSensorKeeps ==
  ASSUME AttrInv, NEW t \in Threads, AskSensor(t)
  PROVE  AttrInv'
<1> DEFINE s == job[t][1]
           n == IF got[t][s.slot].lo = 3 THEN 0 ELSE 1
<1>1. job[t] # << >> /\ Head(job[t]).op = "sensor"
  BY DEF AskSensor, At
<1>2. /\ Head(job[t]) = s /\ s \in GoodSteps /\ s.op = "sensor" /\ got[t] \in [Panel -> Values]
      /\ 1 \in 1 .. Len(job[t]) /\ JobOK(job[t], got[t], regs, faults = 0)
  BY <1>1, AtFacts
<1>3. Continue(t, n, got[t]) /\ n \in Nat
  BY <1>2 DEF AskSensor
<1>4. plan' = plan /\ regs' = regs /\ ptr' = ptr /\ faults' = faults
  BY DEF AskSensor
<1>5. faults = 0 => n = 0
  BY <1>2 DEF JobOK, SensorOK
<1>6. n = 0 \/ n = SkipOf(s)
  BY <1>2 DEF SkipOf
<1>7. VarsAfter(s, n, got[t], got[t], regs', faults' = 0) /\ RegsAfter(s, regs, regs', faults' = 0)
  BY <1>2, <1>4 DEF VarsAfter, RegsAfter
<1>8. SetupSurvives'
  BY <1>4 DEF AttrInv, SetupSurvives
<1>9. /\ regs \in [Panel -> [Regs -> Values]] /\ \A x \in Panel, r \in Regs : Fits(r, regs[x][r])
      /\ ptr \in [Panel -> Regs] /\ faults \in 0 .. plan.faults
  BY DEF AttrInv, StateOK
<1> HIDE DEF n
<1> QED
  BY <1>1, <1>2, <1>3, <1>4, <1>5, <1>6, <1>7, <1>8, <1>9, ContinueKeeps

(* A write, or a write that fails.                                         *)
LEMMA WritingKeeps ==
  ASSUME AttrInv, NEW t \in Threads, job[t] # << >>, job[t][1].op \in {"write", "lum"},
         NEW val \in Values, Fits(job[t][1].reg, val),
         job[t][1].op = "write" => \A f \in job[t][1].set : val[f] = job[t][1].val[f],
         job[t][1].reg \in SetupRegs => val.hi = SetupHi(job[t][1].reg),
         \/ WriteRegs(job[t][1].to, job[t][1].reg, val) /\ faults' = faults
         \/ Fault /\ regs' = regs /\ ptr' = ptr,
         Continue(t, 0, got[t]), plan' = plan
  PROVE  AttrInv'
<1> DEFINE s == job[t][1]
<1>1. /\ s \in GoodSteps /\ s.op \in {"write", "lum"} /\ got[t] \in [Panel -> Values]
      /\ s.to \subseteq PanelsOf(job[t])
  BY AtFacts
<1>2. s.reg \in Regs /\ s.to \in SUBSET Panel
  BY <1>1, StepFacts, Widths
<1>3. StateOK /\ SetupIn(regs)
  BY SetupIsIn DEF AttrInv
<1>4. VarsAfter(s, 0, got[t], got[t], regs', faults' = 0)
  BY <1>1 DEF VarsAfter
<1>5. 0 \in Nat /\ job[t] # << >> /\ val \in Values /\ Fits(s.reg, val)
  OBVIOUS
<1>6. CASE WriteRegs(s.to, s.reg, val) /\ faults' = faults
  <2> HIDE DEF s
  <2>1. /\ regs' \in [Panel -> [Regs -> Values]]
        /\ \A p \in Panel, r \in Regs : Fits(r, regs'[p][r])
        /\ ptr' \in [Panel -> Regs]
        /\ \A p \in Panel : ~ (p \in s.to) => regs'[p] = regs[p] /\ ptr'[p] = ptr[p]
        /\ \A p \in Panel, r \in Regs : ~ (s.reg = r /\ p \in s.to) => regs'[p][r] = regs[p][r]
        /\ \A p \in s.to : regs'[p][s.reg] = val
    <3> DEFINE to == s.to
               reg == s.reg
    <3>1. /\ StateOK /\ to \in SUBSET Panel /\ reg \in Regs /\ val \in Values /\ Fits(reg, val)
          /\ WriteRegs(to, reg, val)
      BY ONLY <1>2, <1>3, <1>5, <1>6
    <3> HIDE DEF to, reg
    <3>2. /\ regs' = [p \in Panel |-> IF p \in to THEN [regs[p] EXCEPT ![reg] = val] ELSE regs[p]]
          /\ ptr' = [p \in Panel |-> IF p \in to THEN reg ELSE ptr[p]]
      BY ONLY <3>1 DEF WriteRegs
    <3>3. regs \in [Panel -> [Regs -> Values]] /\ ptr \in [Panel -> Regs]
          /\ \A p \in Panel, r \in Regs : Fits(r, regs[p][r])
      BY ONLY <3>1 DEF StateOK
    <3>4. /\ \A p \in Panel : ~ (p \in to) => regs'[p] = regs[p] /\ ptr'[p] = ptr[p]
          /\ \A p \in Panel, r \in Regs : ~ (reg = r /\ p \in to) => regs'[p][r] = regs[p][r]
          /\ \A p \in to : regs'[p][reg] = val
      BY ONLY <3>1, <3>2, <3>3
    <3>5. regs' \in [Panel -> [Regs -> Values]] /\ ptr' \in [Panel -> Regs]
      BY ONLY <3>1, <3>2, <3>3
    <3>6. \A p \in Panel, r \in Regs : Fits(r, regs'[p][r])
      <4> SUFFICES ASSUME NEW p \in Panel, NEW r \in Regs PROVE Fits(r, regs'[p][r])
        OBVIOUS
      <4>1. CASE reg = r /\ p \in to
        BY ONLY <3>1, <3>4, <4>1
      <4>2. CASE ~ (reg = r /\ p \in to)
        BY <3>3, <3>4, <4>2
      <4> QED
        BY <4>1, <4>2
    <3> QED
      BY <3>4, <3>5, <3>6 DEF to, reg
  <2>2. RegsAfter(s, regs, regs', faults' = 0)
    <3>1. \A p \in Panel, r \in Regs :
            ~ (s.op \in {"write", "lum"} /\ s.reg = r /\ p \in s.to) => regs'[p][r] = regs[p][r]
      BY <1>1, <2>1
    <3>2. s.op = "write" => \A p \in s.to, f \in s.set : regs'[p][s.reg][f] = s.val[f]
      BY <2>1 DEF s
    <3> QED
      BY <3>1, <3>2 DEF RegsAfter
  <2>3. SetupIn(regs')
    <3> SUFFICES ASSUME NEW p \in Panel, NEW r \in SetupRegs PROVE regs'[p][r].hi = SetupHi(r)
      BY DEF SetupIn
    <3>1. r \in Regs
      BY Widths DEF SetupRegs
    <3>2. CASE s.reg = r /\ p \in s.to
      BY <2>1, <3>2 DEF s
    <3>3. CASE ~ (s.reg = r /\ p \in s.to)
      BY <1>3, <2>1, <3>1, <3>3 DEF SetupIn
    <3> QED
      BY <3>2, <3>3
  <2>4. SetupSurvives'
    BY <2>3, SetupIsIn
  <2>5. faults' \in 0 .. plan.faults /\ (faults' = 0 => faults = 0)
    BY <1>3, <1>6 DEF StateOK
  <2>6. \A p \in Panel : ~ (p \in PanelsOf(job[t])) => regs'[p] = regs[p] /\ ptr'[p] = ptr[p]
    BY <1>1, <2>1
  <2> QED
    BY <1>1, <1>4, <1>5, <2>1, <2>2, <2>4, <2>5, <2>6, ContinueKeeps DEF s
<1>7. CASE Fault /\ regs' = regs /\ ptr' = ptr
  <2>1. faults' \in 0 .. plan.faults /\ faults' # 0
    BY <1>3, <1>7, PlanFacts DEF Fault, StateOK
  <2>2. RegsAfter(s, regs, regs', faults' = 0)
    BY <1>7, <2>1 DEF RegsAfter
  <2>3. SetupSurvives'
    BY <1>3, <1>7, SetupIsIn
  <2>4. /\ regs \in [Panel -> [Regs -> Values]] /\ \A x \in Panel, r \in Regs : Fits(r, regs[x][r])
        /\ ptr \in [Panel -> Regs]
    BY <1>3 DEF StateOK
  <2> QED
    BY <1>1, <1>4, <1>5, <1>7, <2>1, <2>2, <2>3, <2>4, ContinueKeeps
<1> QED
  BY <1>6, <1>7

(* A write changes what the handler was asked to change.                   *)
LEMMA WriteKeeps ==
  ASSUME AttrInv, NEW t \in Threads, Write(t)
  PROVE  AttrInv'
<1> DEFINE s == job[t][1]
           val == [f \in {"lo", "hi"} |-> IF f \in s.set THEN s.val[f] ELSE got[t][s.slot][f]]
<1>1. job[t] # << >> /\ Head(job[t]).op = "write"
  BY DEF Write, At
<1>2. /\ Head(job[t]) = s /\ s \in GoodSteps /\ s.op = "write" /\ got[t] \in [Panel -> Values]
      /\ 1 \in 1 .. Len(job[t]) /\ JobOK(job[t], got[t], regs, faults = 0)
  BY <1>1, AtFacts
<1>3. /\ s.reg \in Followed /\ s.slot \in Panel /\ s.set \in {{"lo"}, {"hi"}, Fields}
      /\ s.val \in [s.set -> Nat] /\ \A f \in s.set : s.val[f] <= Width[s.reg][f]
      /\ s.reg \in SetupRegs => s.set = {"lo"}
  BY <1>2, StepFacts DEF StepOK
<1>4. s.set # Fields => Fits(s.reg, got[t][s.slot])
                        /\ (s.reg \in SetupRegs => got[t][s.slot].hi = SetupHi(s.reg))
  <2>1. 1 .. 1 - 1 = {}
    OBVIOUS
  <2>2. s.set # Fields => Held(job[t], 1, got[t], regs, faults = 0)
    BY <1>2, <2>1 DEF JobOK, BacksOK, Back
  <2> QED
    BY <2>2 DEF Held
<1>5. got[t][s.slot] \in Values
  BY <1>2, <1>3
<1>6. ASSUME NEW f \in Fields
      PROVE  val[f] \in 0 .. Width[s.reg][f] /\ (f \in s.set => val[f] = s.val[f])
  <2>1. val[f] = IF f \in s.set THEN s.val[f] ELSE got[t][s.slot][f]
    BY DEF Fields
  <2>2. Width[s.reg][f] \in Nat
    BY <1>3, Widths DEF Followed, Values
  <2>3. CASE f \in s.set
    <3> DEFINE x == s.val[f]
               w == Width[s.reg][f]
    <3>1. x \in Nat /\ x <= w /\ w \in Nat
      BY <1>3, <2>2, <2>3
    <3>2. val[f] = x
      BY <2>1, <2>3
    <3> HIDE DEF x, w
    <3>3. x \in 0 .. w
      BY ONLY <3>1
    <3> HIDE DEF val, s
    <3> QED
      BY <3>2, <3>3 DEF x, w
  <2>4. CASE ~ (f \in s.set)
    <3>1. s.set # Fields
      BY <2>4
    <3>2. got[t][s.slot][f] \in 0 .. Width[s.reg][f]
      BY <3>1, <1>4 DEF Fits
    <3> QED
      BY <2>1, <2>4, <3>2
  <2> QED
    BY <2>3, <2>4
<1>7. val \in Values
  <2>1. \A f \in Fields : Width[s.reg][f] \in Nat
    BY <1>3, Widths DEF Followed, Values
  <2>2. \A f \in Fields : val[f] \in Nat
    BY <1>6, <2>1
  <2>3. val = [f \in Fields |-> val[f]]
    BY DEF Fields
  <2> HIDE DEF val
  <2> QED
    BY <2>2, <2>3 DEF Values
<1>8. s.reg \in SetupRegs => val.hi = SetupHi(s.reg)
  <2> SUFFICES ASSUME s.reg \in SetupRegs PROVE val["hi"] = SetupHi(s.reg)
    OBVIOUS
  <2>1. s.set = {"lo"} /\ s.set # Fields
    BY <1>3 DEF Fields
  <2>2. got[t][s.slot]["hi"] = SetupHi(s.reg)
    BY <1>4, <2>1
  <2> QED
    BY <2>1, <2>2
<1>9. /\ \/ WriteRegs(s.to, s.reg, val) /\ faults' = faults
         \/ Fault /\ regs' = regs /\ ptr' = ptr
      /\ Continue(t, 0, got[t]) /\ plan' = plan
  BY <1>2 DEF Write
<1>10. s.op \in {"write", "lum"} /\ Fits(s.reg, val)
       /\ (s.op = "write" => \A f \in s.set : val[f] = s.val[f])
  <2>1. \A f \in s.set : f \in Fields
    BY <1>3 DEF Fields
  <2> HIDE DEF val, s
  <2> QED
    BY <1>2, <1>6, <2>1 DEF Fits
<1> HIDE DEF val
<1> QED
  BY <1>1, <1>7, <1>8, <1>9, <1>10, WritingKeeps

(* A luminance is written: no handler holds one.                           *)
LEMMA WriteLuminanceKeeps ==
  ASSUME AttrInv, NEW t \in Threads, WriteLuminance(t)
  PROVE  AttrInv'
<1> DEFINE s == job[t][1]
           val == Reg(AtMost(s.val, MaxLum(got[t][s.slot].lo)), 0)
<1>1. job[t] # << >> /\ Head(job[t]).op = "lum"
  BY DEF WriteLuminance, At
<1>2. Head(job[t]) = s /\ s \in GoodSteps /\ s.op = "lum" /\ s.reg = "LUM_REG" /\ s.val \in Nat
  BY <1>1, AtFacts, StepFacts
<1>5. val \in Values /\ Fits(s.reg, val)
  <2> DEFINE v == s.val
             i == got[t][s.slot].lo
  <2>1. v \in Nat
    BY <1>2
  <2> HIDE DEF v, i
  <2>2. Reg(AtMost(v, MaxLum(i)), 0) \in Values /\ Fits("LUM_REG", Reg(AtMost(v, MaxLum(i)), 0))
    BY ONLY <2>1, LumFits
  <2> QED
    BY <1>2, <2>2 DEF v, i
<1>6. /\ \/ WriteRegs(s.to, s.reg, val) /\ faults' = faults
         \/ Fault /\ regs' = regs /\ ptr' = ptr
      /\ Continue(t, 0, got[t]) /\ plan' = plan
  BY <1>2 DEF WriteLuminance
<1>7. s.op \in {"write", "lum"} /\ s.op # "write" /\ ~ (s.reg \in SetupRegs)
  BY <1>2 DEF SetupRegs
<1> HIDE DEF val
<1> QED
  BY <1>1, <1>5, <1>6, <1>7, WritingKeeps

(* An address goes out: the pointers of the other threads' panels stay.    *)
LEMMA SendAddressKeeps ==
  ASSUME AttrInv, NEW t \in Threads, SendAddress(t)
  PROVE  AttrInv'
<1> DEFINE s == job[t][1]
<1>1. job[t] # << >> /\ Head(job[t]).op = "read" /\ ~ sent[t]
  BY DEF SendAddress, At
<1>2. /\ Head(job[t]) = s /\ s \in GoodSteps /\ s.op = "read" /\ s.reg \in Regs
      /\ s.from \in Seq(SUBSET Panel) /\ s.from # << >> /\ job[t] \in Seq(GoodSteps)
      /\ 1 \in 1 .. Len(job[t])
  BY <1>1, AtFacts, StepFacts DEF StepOK
<1>3. Head(s.from) = s.from[1] /\ 1 \in 1 .. Len(s.from)
  <2> DEFINE f == s.from
  <2>1. f \in Seq(SUBSET Panel) /\ f # << >>
    BY <1>2
  <2> HIDE DEF f
  <2>2. Len(f) \in Nat \ {0}
    BY <2>1, EmptySeq
  <2>3. Head(f) = f[1] /\ 1 \in 1 .. Len(f)
    BY <2>1, <2>2
  <2> QED
    BY <2>3 DEF f
<1>4. s.from[1] \subseteq PanelsOf(job[t])
  BY <1>2, <1>3, PanelsOfSteps
<1>5. /\ ptr' = [p \in Panel |-> IF p \in Head(s.from) THEN s.reg ELSE ptr[p]]
      /\ sent' = [sent EXCEPT ![t] = TRUE]
      /\ plan' = plan /\ regs' = regs /\ faults' = faults /\ job' = job /\ got' = got
  BY <1>2 DEF SendAddress
<1>6. StateOK'
  BY <1>2, <1>5 DEF AttrInv, StateOK
<1>7. SentIsRead'
  <2> SUFFICES ASSUME NEW u \in Threads, sent'[u] PROVE At(u, "read")'
    BY DEF SentIsRead
  <2>1. job[u] # << >> /\ Head(job[u]).op = "read"
    BY <1>1, <1>5 DEF AttrInv, SentIsRead, At, StateOK
  <2> QED
    BY <1>5, <2>1 DEF At
<1>8. ReadsOwnRegister'
  <2> SUFFICES ASSUME NEW u \in Threads, sent'[u], NEW p \in Head(Head(job'[u]).from)
               PROVE  ptr'[p] = Head(job'[u]).reg
    BY DEF ReadsOwnRegister
  <2>1. CASE u = t
    <3>1. p \in Head(s.from) /\ p \in Panel
      <4>1. p \in Head(s.from)
        BY <1>2, <1>5, <2>1
      <4> QED
        BY <1>2, <1>3, <1>4, <4>1, PanelsArePanels
    <3> QED
      BY <1>2, <1>5, <2>1, <3>1
  <2>2. CASE u # t
    <3>1. sent[u] /\ p \in Head(Head(job[u]).from)
      BY <1>5, <2>2 DEF AttrInv, StateOK
    <3>2. StateOK /\ SentIsRead
      BY DEF AttrInv
    <3>3. p \in PanelsOf(job[u]) /\ p \in Panel
      BY <3>1, <3>2, SentPanels
    <3>4. ~ (p \in Head(s.from))
      BY <1>3, <1>4, <2>2, <3>3 DEF AttrInv, Apart
    <3>5. ptr[p] = Head(job[u]).reg
      BY <3>1 DEF AttrInv, ReadsOwnRegister
    <3> QED
      BY <1>5, <3>3, <3>4, <3>5
  <2> QED
    BY <2>1, <2>2
<1>9. Apart' /\ SetupSurvives' /\ JobsOK'
  BY <1>5 DEF AttrInv, Apart, SetupSurvives, JobsOK
<1> QED
  BY <1>6, <1>7, <1>8, <1>9 DEF AttrInv

(* A handler that tries its other address is left with a list like before. *)
LEMMA RetryKeeps ==
  ASSUME NEW q \in Seq(GoodSteps), q # << >>, q[1].op = "read", Len(q[1].from) > 1,
         NEW g, NEW R, NEW ok \in BOOLEAN, JobOK(q, g, R, ok)
  PROVE  LET n == << [q[1] EXCEPT !.from = Tail(@)] >> \o Tail(q) IN
         n \in Seq(GoodSteps) /\ PanelsOf(n) \subseteq PanelsOf(q) /\ JobOK(n, g, R, FALSE)
<1> DEFINE s == q[1]
           r == [s EXCEPT !.from = Tail(@)]
           n == << r >> \o Tail(q)
           f == s.from
<1>1. s \in GoodSteps /\ Len(q) \in Nat \ {0} /\ \A k \in 1 .. Len(q) : q[k] \in GoodSteps
  BY HeadIsFirst
<1>2. /\ s \in ReadSteps /\ f \in Seq(SUBSET Panel) /\ Len(f) > 1
      /\ \A k \in 1 .. Len(f) : f[k] # {}
      /\ Fits(s.reg, s.miss) /\ s.op = "read"
  BY <1>1, StepFacts DEF StepOK
<1>3. /\ Tail(f) \in Seq(SUBSET Panel) /\ Len(Tail(f)) = Len(f) - 1 /\ Len(f) \in Nat
      /\ \A k \in 1 .. Len(Tail(f)) : Tail(f)[k] = f[k + 1] /\ k + 1 \in 1 .. Len(f)
  <2> HIDE DEF f
  <2>1. Len(f) \in Nat /\ f # << >>
    BY <1>2, EmptySeq
  <2>2. /\ Tail(f) \in Seq(SUBSET Panel) /\ Len(Tail(f)) = Len(f) - 1
        /\ \A k \in 1 .. Len(Tail(f)) : Tail(f)[k] = f[k + 1]
    BY <1>2, <2>1, HeadTailProperties
  <2>3. \A k \in 1 .. Len(f) - 1 : k + 1 \in 1 .. Len(f)
    BY <2>1
  <2> QED
    BY <2>1, <2>2, <2>3
<1>4. Tail(f) # << >>
  <2> HIDE DEF f
  <2>1. Len(Tail(f)) # 0
    BY <1>2, <1>3
  <2> QED
    BY <2>1, EmptySeq
<1>5. /\ r.op = "read" /\ r.from = Tail(f) /\ r.reg = s.reg /\ r.slot = s.slot
      /\ r.miss = s.miss /\ r.skip = s.skip /\ r \in ReadSteps
  BY <1>2, <1>3 DEF ReadSteps
<1>6. r \in GoodSteps
  <2>1. \A k \in 1 .. Len(r.from) : r.from[k] # {}
    BY <1>2, <1>3, <1>5
  <2>2. StepOK(r)
    BY <1>2, <1>4, <1>5, <2>1 DEF StepOK
  <2> QED
    BY <1>5, <2>2 DEF GoodSteps
<1>7. /\ n \in Seq(GoodSteps) /\ Len(n) = Len(q) /\ n[1] = r
      /\ \A k \in 2 .. Len(q) : n[k] = q[k]
  <2> HIDE DEF r
  <2>1. << r >> \in Seq(GoodSteps) /\ Len(<< r >>) = 1 /\ << r >>[1] = r
    BY <1>6
  <2>2. /\ Tail(q) \in Seq(GoodSteps) /\ Len(Tail(q)) = Len(q) - 1
        /\ \A k \in 1 .. Len(Tail(q)) : Tail(q)[k] = q[k + 1]
    BY HeadTailProperties
  <2>3. /\ n \in Seq(GoodSteps) /\ Len(n) = 1 + Len(Tail(q))
        /\ \A k \in 1 .. 1 + Len(Tail(q)) : n[k] = IF k <= 1 THEN << r >>[k] ELSE Tail(q)[k - 1]
    BY <2>1, <2>2, ConcatProperties
  <2> HIDE DEF n
  <2> DEFINE len == Len(q)
             tail == Tail(q)
  <2>4. /\ len \in Nat \ {0} /\ Len(tail) = len - 1 /\ \A k \in 1 .. len - 1 : tail[k] = q[k + 1]
        /\ Len(n) = 1 + Len(tail)
        /\ \A k \in 1 .. 1 + Len(tail) : n[k] = IF k <= 1 THEN << r >>[k] ELSE tail[k - 1]
    BY <1>1, <2>2, <2>3
  <2> HIDE DEF len, tail
  <2>5. Len(n) = len /\ n[1] = r
    BY <2>1, <2>4
  <2>6. ASSUME NEW k \in 2 .. len PROVE n[k] = q[k]
    <3>1. k - 1 \in 1 .. len - 1 /\ ~ (k <= 1) /\ k \in 1 .. 1 + Len(tail) /\ (k - 1) + 1 = k
      BY <2>4
    <3> QED
      BY <2>4, <3>1
  <2> QED
    BY <2>3, <2>5, <2>6 DEF len
<1>8. \A k \in 1 .. Len(q) : /\ n[k].op = q[k].op /\ SkipOf(n[k]) = SkipOf(q[k])
                             /\ k # 1 => n[k] = q[k]
  <2> SUFFICES ASSUME NEW k \in 1 .. Len(q)
               PROVE  n[k].op = q[k].op /\ SkipOf(n[k]) = SkipOf(q[k]) /\ (k # 1 => n[k] = q[k])
    OBVIOUS
  <2> HIDE DEF n, r
  <2>1. CASE k = 1
    BY <2>1, <1>2, <1>5, <1>7 DEF SkipOf
  <2>2. CASE k # 1
    <3>1. k \in 2 .. Len(q)
      BY <2>2, <1>1
    <3> QED
      BY <1>7, <2>2, <3>1
  <2> QED
    BY <2>1, <2>2
<1> HIDE DEF n, r
<1>9. NoSkipOver(n)
  <2> SUFFICES ASSUME NEW m \in 1 .. Len(q), NEW k \in 1 .. Len(q),
                      m < k, Back(n[k]), SkipOf(n[m]) # 0
               PROVE  k <= m + SkipOf(n[m])
    BY <1>7 DEF NoSkipOver
  <2>1. k # 1 /\ n[k] = q[k]
    BY <1>8
  <2> QED
    BY <1>8, <2>1 DEF JobOK, NoSkipOver
<1>10. ASSUME NEW k \in 1 .. Len(q), NEW a \in Nat, a >= 1, k # 1, Clear(q, k, a)
       PROVE  Clear(n, k, a)
  <2> SUFFICES ASSUME NEW m \in a .. k - 1
               PROVE  /\ ~ (n[m].op = "read" /\ n[m].slot = n[k].slot)
                      /\ ~ (n[m].op = "write" /\ n[m].reg = n[k].reg /\ n[m].to \cap n[k].to # {})
    BY DEF Clear
  <2>1. m \in 1 .. Len(q) /\ n[k] = q[k]
    BY <1>8, <1>10
  <2>2. /\ ~ (q[m].op = "read" /\ q[m].slot = q[k].slot)
        /\ ~ (q[m].op = "write" /\ q[m].reg = q[k].reg /\ q[m].to \cap q[k].to # {})
    BY <1>10 DEF Clear
  <2>3. CASE m = 1
    BY <1>2, <1>5, <1>7, <2>1, <2>2, <2>3
  <2>4. CASE m # 1
    BY <1>8, <2>1, <2>2, <2>4
  <2> QED
    BY <2>3, <2>4
<1>11. BacksOK(n, g, R, FALSE)
  <2> SUFFICES ASSUME NEW k \in 1 .. Len(q), Back(n[k])
               PROVE  (\E j \in 1 .. k - 1 : Feeds(n, j, k)) \/ Held(n, k, g, R, FALSE)
    BY <1>7 DEF BacksOK
  <2>1. k # 1 /\ n[k] = q[k] /\ Back(q[k])
    BY <1>2, <1>8 DEF Back
  <2>2. CASE Held(q, k, g, R, ok)
    <3>1. Clear(n, k, 1)
      BY <1>10, <2>1, <2>2 DEF Held
    <3> QED
      BY <2>1, <2>2, <3>1 DEF Held
  <2>3. CASE \E j \in 1 .. k - 1 : Feeds(q, j, k)
    <3>1. PICK j \in 1 .. k - 1 : Feeds(q, j, k)
      BY <2>3
    <3>2. j \in 1 .. Len(q) /\ j + 1 \in Nat /\ j + 1 >= 1
      OBVIOUS
    <3>3. Clear(q, k, j + 1)
      BY <3>1 DEF Feeds
    <3>4. Clear(n, k, j + 1)
      <4> DEFINE a == j + 1
      <4>1. a \in Nat /\ a >= 1 /\ Clear(q, k, a)
        BY <3>2, <3>3
      <4> HIDE DEF a
      <4>2. Clear(n, k, a)
        BY <1>10, <2>1, <4>1
      <4> QED
        BY <4>2 DEF a
    <3>5. CASE j # 1
      BY <1>8, <2>1, <3>1, <3>2, <3>4, <3>5 DEF Feeds
    <3>6. CASE j = 1
      <4>1. q[k].reg \in SetupRegs
        <5>1. ASSUME NEW p \in Panel, s.from = << {p} >> PROVE FALSE
          BY <1>2, <5>1
        <5> QED
          BY <3>1, <3>6, <5>1 DEF Feeds
      <4> QED
        BY <1>2, <1>5, <1>7, <2>1, <3>1, <3>4, <3>6, <4>1 DEF Feeds
    <3> QED
      BY <3>5, <3>6
  <2> QED
    BY <2>1, <2>2, <2>3 DEF JobOK, BacksOK
<1>12. PanelsOf(n) \subseteq PanelsOf(q)
  <2> SUFFICES ASSUME NEW p \in PanelsOf(n) PROVE p \in PanelsOf(q)
    OBVIOUS
  <2>1. PICK k \in 1 .. Len(q) :
              \/ n[k].op \in {"write", "lum"} /\ p \in n[k].to
              \/ n[k].op = "read" /\ \E j \in 1 .. Len(n[k].from) : p \in n[k].from[j]
    BY <1>7, PanelsOfSteps
  <2>2. CASE k # 1
    <3>1. n[k] = q[k]
      BY <1>8, <2>2
    <3> QED
      BY <2>1, <3>1, PanelsOfSteps
  <2>3. CASE k = 1
    <3>1. n[k] = r /\ r.op = "read" /\ r.from = Tail(f)
      BY <1>5, <1>7, <2>3
    <3>2. PICK j \in 1 .. Len(Tail(f)) : p \in Tail(f)[j]
      BY <2>1, <3>1
    <3>3. j + 1 \in 1 .. Len(s.from) /\ p \in s.from[j + 1]
      BY <1>3, <3>2
    <3>4. 1 \in 1 .. Len(q) /\ q[1].op = "read"
      BY <1>1
    <3> QED
      BY <3>3, <3>4, PanelsOfSteps
  <2> QED
    BY <2>2, <2>3
<1>13. JobOK(n, g, R, FALSE)
  BY <1>9, <1>11 DEF JobOK, SensorOK
<1> QED
  BY <1>7, <1>12, <1>13 DEF n, r

(* A retry leaves everything else as it is; then no thread counts on what  *)
(* it holds, for a transfer has failed.                                    *)
LEMMA ReadFailsKeeps ==
  ASSUME AttrInv, NEW t \in Threads, ReadFails(t)
  PROVE  AttrInv'
<1> DEFINE s == job[t][1]
<1>1. job[t] # << >> /\ Head(job[t]).op = "read" /\ Fault
  BY DEF ReadFails, At
<1>2. /\ Head(job[t]) = s /\ s \in GoodSteps /\ s.op = "read" /\ got[t] \in [Panel -> Values]
      /\ s.slot \in Panel /\ s.reg \in Regs /\ s.skip \in Nat /\ s.miss \in Values
      /\ Fits(s.reg, s.miss) /\ job[t] \in Seq(GoodSteps)
      /\ JobOK(job[t], got[t], regs, faults = 0)
  BY <1>1, AtFacts, StepFacts DEF StepOK
<1>3. faults' \in 0 .. plan.faults /\ faults' # 0
  BY <1>1, PlanFacts DEF Fault, AttrInv, StateOK
<1>4. plan' = plan /\ regs' = regs /\ ptr' = ptr
  BY DEF ReadFails
<1>5. SetupSurvives'
  BY <1>4 DEF AttrInv, SetupSurvives
<1>6. CASE Len(s.from) > 1
  <2> DEFINE n == << [s EXCEPT !.from = Tail(@)] >> \o Tail(job[t])
  <2>1. /\ job' = [job EXCEPT ![t] = n] /\ sent' = [sent EXCEPT ![t] = FALSE] /\ got' = got
    BY <1>2, <1>6 DEF ReadFails
  <2>2. n \in Seq(GoodSteps) /\ PanelsOf(n) \subseteq PanelsOf(job[t])
        /\ JobOK(n, got[t], regs, FALSE)
    <3> DEFINE q == job[t]
               g == got[t]
               ok == faults = 0
    <3>1. /\ q \in Seq(GoodSteps) /\ q # << >> /\ q[1].op = "read" /\ Len(q[1].from) > 1
          /\ ok \in BOOLEAN /\ JobOK(q, g, regs, ok)
      BY <1>1, <1>2, <1>6
    <3> HIDE DEF q, g, ok
    <3>2. LET m == << [q[1] EXCEPT !.from = Tail(@)] >> \o Tail(q) IN
          m \in Seq(GoodSteps) /\ PanelsOf(m) \subseteq PanelsOf(q) /\ JobOK(m, g, regs, FALSE)
      BY ONLY <3>1, RetryKeeps
    <3> QED
      BY <3>2 DEF q, g
  <2> HIDE DEF n
  <2>3. /\ job'[t] = n /\ sent'[t] = FALSE
        /\ \A u \in Threads : u # t => job'[u] = job[u] /\ sent'[u] = sent[u]
    BY <2>1 DEF AttrInv, StateOK
  <2>4. StateOK'
    <3>1. job' \in [Threads -> Seq(GoodSteps)]
      BY <2>1, <2>2 DEF AttrInv, StateOK
    <3>2. sent' \in [Threads -> BOOLEAN]
      BY <2>1 DEF AttrInv, StateOK
    <3> QED
      BY <1>3, <1>4, <2>1, <3>1, <3>2 DEF AttrInv, StateOK
  <2>5. SentIsRead'
    <3> SUFFICES ASSUME NEW u \in Threads, sent'[u] PROVE At(u, "read")'
      BY DEF SentIsRead
    <3>1. u # t /\ job'[u] = job[u] /\ sent[u]
      BY <2>3
    <3>2. At(u, "read")
      BY <3>1 DEF AttrInv, SentIsRead
    <3> QED
      BY <3>1, <3>2 DEF At
  <2>6. Apart'
    <3>1. \A u \in Threads : PanelsOf(job'[u]) \subseteq PanelsOf(job[u])
      BY <2>2, <2>3
    <3> QED
      BY <3>1 DEF Apart, AttrInv
  <2>7. ReadsOwnRegister'
    <3> SUFFICES ASSUME NEW u \in Threads, sent'[u], NEW p \in Head(Head(job'[u]).from)
                 PROVE  ptr'[p] = Head(job'[u]).reg
      BY DEF ReadsOwnRegister
    <3>1. u # t /\ job'[u] = job[u] /\ sent[u]
      BY <2>3
    <3> QED
      BY <3>1, <1>4 DEF AttrInv, ReadsOwnRegister
  <2>8. JobsOK'
    <3> SUFFICES ASSUME NEW u \in Threads PROVE JobOK(job'[u], got'[u], regs', faults' = 0)
      BY DEF JobsOK
    <3>1. (faults' = 0) = FALSE
      BY <1>3
    <3>2. CASE u = t
      BY <1>4, <2>1, <2>2, <2>3, <3>1, <3>2
    <3>3. CASE u # t
      <4> DEFINE ok == faults = 0
      <4>1. job[u] \in Seq(GoodSteps) /\ JobOK(job[u], got[u], regs, ok) /\ ok \in BOOLEAN
        BY DEF AttrInv, StateOK, JobsOK
      <4> HIDE DEF ok
      <4>2. JobOK(job[u], got[u], regs, FALSE)
        BY ONLY <4>1, JobFrame
      <4> QED
        BY <1>4, <2>1, <2>3, <3>1, <3>3, <4>2
    <3> QED
      BY <3>2, <3>3
  <2> QED
    BY <1>5, <2>4, <2>5, <2>6, <2>7, <2>8 DEF AttrInv
<1>7. CASE ~ (Len(s.from) > 1)
  <2> DEFINE vals == [got[t] EXCEPT ![s.slot] = s.miss]
  <2>1. Continue(t, s.skip, vals)
    BY <1>2, <1>7 DEF ReadFails
  <2>2. /\ vals \in [Panel -> Values] /\ vals[s.slot] = s.miss
        /\ \A v \in Panel : s.slot # v => vals[v] = got[t][v]
    BY <1>2
  <2> HIDE DEF vals
  <2>3. SkipOf(s) = s.skip
    BY <1>2 DEF SkipOf
  <2>4. VarsAfter(s, s.skip, got[t], vals, regs', faults' = 0)
    BY <1>2, <1>3, <2>2 DEF VarsAfter
  <2>5. RegsAfter(s, regs, regs', faults' = 0)
    BY <1>3, <1>4 DEF RegsAfter
  <2>6. /\ regs \in [Panel -> [Regs -> Values]] /\ \A x \in Panel, r \in Regs : Fits(r, regs[x][r])
        /\ ptr \in [Panel -> Regs]
    BY DEF AttrInv, StateOK
  <2> QED
    BY <1>1, <1>2, <1>3, <1>4, <1>5, <2>1, <2>2, <2>3, <2>4, <2>5, <2>6, ContinueKeeps
<1> QED
  BY <1>6, <1>7

(* What prepare leaves fits its fields.                                    *)
LEMMA BootedFits ==
  ASSUME NEW p \in Panel
  PROVE  Booted(p) \in [Regs -> Values] /\ \A r \in Regs : Fits(r, Booted(p)[r])
<1>1. ASSUME NEW r \in Regs PROVE Booted(p)[r] \in Values /\ Fits(r, Booted(p)[r])
  <2>1. ASSUME NEW a \in Nat, NEW b \in Nat, a <= Width[r].lo, b <= Width[r].hi
        PROVE  Reg(a, b) \in Values /\ Fits(r, Reg(a, b))
    <3>1. Width[r].lo \in Nat /\ Width[r].hi \in Nat
      BY Widths DEF Values, Fields
    <3>2. a \in 0 .. Width[r]["lo"] /\ b \in 0 .. Width[r]["hi"]
      BY <2>1, <3>1
    <3> QED
      BY <3>2, RegIsValue DEF Fits, Fields
  <2>2. /\ r \in {"PL_CUR", "LUM_REG", "PL_CFG", "IMG_FLIP", "IMG_OFFSET", "EFUSE_REG_SW",
             "OSC_TRIM", "DMR_CFG", "DMR_REMAP_VAL", "DSC_CFG", "DMR_SEG_TH", "PVT_CTL",
             "CFG_VID_TX_DELAY", "PVT_DATA"}
        /\ r = "PL_CUR" => Width[r].lo = 255 /\ Width[r].hi = 0
        /\ r = "LUM_REG" => Width[r].lo = 16383 /\ Width[r].hi = 0
        /\ r = "PL_CFG" => Width[r].lo = 7 /\ Width[r].hi = 1
        /\ r = "IMG_FLIP" => Width[r].lo = 1 /\ Width[r].hi = 1
        /\ r = "IMG_OFFSET" => Width[r].lo = 31 /\ Width[r].hi = 31
        /\ r = "EFUSE_REG_SW" => Width[r].lo = 1 /\ Width[r].hi = 1
        /\ r = "OSC_TRIM" => Width[r].lo = 255 /\ Width[r].hi = 255
        /\ r = "DMR_CFG" => Width[r].lo = 255 /\ Width[r].hi = 1
        /\ r = "DMR_REMAP_VAL" => Width[r].lo = 2047 /\ Width[r].hi = 0
        /\ r = "DSC_CFG" => Width[r].lo = 511 /\ Width[r].hi = 1
        /\ r = "CFG_VID_TX_DELAY" => Width[r].lo = 1186 /\ Width[r].hi = 0
    BY Widths DEF Reg
  <2>3. CASE r \in {"DMR_SEG_TH", "PVT_CTL", "PVT_DATA"}
    <3>1. Booted(p)[r] = Reg(0, 0)
      BY <2>3 DEF Booted
    <3> QED
      BY <3>1, ZeroFits
  <2>4. CASE ~ (r \in {"DMR_SEG_TH", "PVT_CTL", "PVT_DATA"})
    <3>1. /\ r = "PL_CUR" => Booted(p)[r] = Reg(34, 0)
          /\ r = "LUM_REG" => Booted(p)[r] = Reg(5000, 0)
          /\ r = "PL_CFG" => Booted(p)[r] = Reg(0, 1)
          /\ r = "IMG_FLIP" => Booted(p)[r] = Reg(IF p = "G" THEN 0 ELSE 1, 1)
          /\ r = "IMG_OFFSET" => Booted(p)[r] = Reg(6, 10)
          /\ r = "EFUSE_REG_SW" => Booted(p)[r] = Reg(1, 1)
          /\ r = "OSC_TRIM" => Booted(p)[r] = Reg(16, 2)
          /\ r = "DMR_CFG" => Booted(p)[r] = Reg(1, 0)
          /\ r = "DMR_REMAP_VAL" => Booted(p)[r] = Reg(1023, 0)
          /\ r = "DSC_CFG" => Booted(p)[r] = Reg(256, 1)
          /\ r = "CFG_VID_TX_DELAY" => Booted(p)[r] = Reg(1186, 0)
      BY DEF Booted
    <3>2. CASE r = "PL_CUR"
      BY <2>1, <2>2, <3>1, <3>2
    <3>3. CASE r = "LUM_REG"
      BY <2>1, <2>2, <3>1, <3>3
    <3>4. CASE r = "PL_CFG"
      BY <2>1, <2>2, <3>1, <3>4
    <3>5. CASE r = "IMG_FLIP"
      BY <2>1, <2>2, <3>1, <3>5
    <3>6. CASE r = "IMG_OFFSET"
      BY <2>1, <2>2, <3>1, <3>6
    <3>7. CASE r = "EFUSE_REG_SW"
      BY <2>1, <2>2, <3>1, <3>7
    <3>8. CASE r = "OSC_TRIM"
      BY <2>1, <2>2, <3>1, <3>8
    <3>9. CASE r = "DMR_CFG"
      BY <2>1, <2>2, <3>1, <3>9
    <3>10. CASE r = "DMR_REMAP_VAL"
      BY <2>1, <2>2, <3>1, <3>10
    <3>11. CASE r = "DSC_CFG"
      BY <2>1, <2>2, <3>1, <3>11
    <3>12. CASE r = "CFG_VID_TX_DELAY"
      BY <2>1, <2>2, <3>1, <3>12
    <3> QED
      BY <2>2, <2>4, <3>2, <3>3, <3>4, <3>5, <3>6, <3>7, <3>8, <3>9, <3>10, <3>11, <3>12
  <2> QED
    BY <2>3, <2>4
<1>2. Booted(p) = [r \in Regs |-> Booted(p)[r]]
  BY DEF Booted
<1> QED
  BY <1>1, <1>2

(* After prepare no handler is at work and the registers are as booted.    *)
LEMMA InitKeeps ==
  ASSUME Init
  PROVE  AttrInv
<1>1. /\ regs \in [Panel -> [Regs -> Values]] /\ \A p \in Panel, r \in Regs : Fits(r, regs[p][r])
  BY BootedFits DEF Init
<1>2. ptr \in [Panel -> Regs]
  BY Widths DEF Init
<1>3. << >> \in Seq(GoodSteps)
  OBVIOUS
<1>4. Blank \in [Panel -> Values]
  BY RegIsValue DEF Blank
<1>5. StateOK
  BY <1>1, <1>2, <1>3, <1>4, AttrsAssumption DEF Init, StateOK
<1>6. SentIsRead /\ ReadsOwnRegister
  BY DEF Init, SentIsRead, ReadsOwnRegister
<1>7. Apart
  BY PanelsOfSteps DEF Init, Apart, PanelsOf
<1>8. SetupSurvives
  <2>1. \A p \in Panel : /\ Booted(p)["PL_CFG"] = Reg(0, 1) /\ Booted(p)["OSC_TRIM"] = Reg(16, 2)
                         /\ Booted(p)["EFUSE_REG_SW"] = Reg(1, 1)
    BY Widths DEF Booted
  <2> QED
    BY <2>1, RegIsValue DEF Init, SetupSurvives
<1>9. JobsOK
  BY EmptyJobOK DEF Init, JobsOK
<1> QED
  BY <1>5, <1>6, <1>7, <1>8, <1>9 DEF AttrInv

-----------------------------------------------------------------------------
(* What the handlers' lists look like.                                     *)

(* Step k writes back what the step before it has read.                    *)
Adjacent(q, k) ==
  /\ k > 1
  /\ q[k - 1].op = "read" /\ q[k - 1].slot = q[k].slot /\ q[k - 1].reg = q[k].reg
  /\ IF q[k].reg \in SetupRegs
     THEN q[k - 1].miss.hi = SetupHi(q[k].reg)
     ELSE \E p \in Panel : q[k - 1].from = << {p} >> /\ q[k].to = {p}

(* Reads and writes only, nothing left out, and every write-back right     *)
(* behind its read.                                                        *)
Simple(q) ==
  /\ q \in Seq(GoodSteps)
  /\ \A k \in 1 .. Len(q) :
       /\ q[k].op \in {"read", "write"}
       /\ SkipOf(q[k]) = 0
       /\ Back(q[k]) => Adjacent(q, k)

(* The read before a write feeds it.                                       *)
LEMMA AdjacentFeeds ==
  ASSUME NEW q, NEW k \in Nat, Adjacent(q, k)
  PROVE  \E j \in 1 .. k - 1 : Feeds(q, j, k)
<1> DEFINE j == k - 1
<1>1. j \in 1 .. k - 1 /\ (j + 1) .. (k - 1) = {} /\ j = k - 1
  BY DEF Adjacent
<1> HIDE DEF j
<1>2. Clear(q, k, j + 1)
  BY <1>1 DEF Clear
<1>3. Feeds(q, j, k)
  BY <1>1, <1>2 DEF Feeds, Adjacent
<1> QED
  BY <1>1, <1>3

(* A simple list is as the invariant asks for.                             *)
LEMMA SimpleJob ==
  ASSUME NEW q, Simple(q), NEW g, NEW R, NEW ok
  PROVE  q \in Seq(GoodSteps) /\ JobOK(q, g, R, ok)
<1>1. BacksOK(q, g, R, ok)
  BY AdjacentFeeds DEF Simple, BacksOK
<1>2. NoSkipOver(q)
  BY DEF Simple, NoSkipOver
<1>3. SensorOK(q, g, R, ok)
  BY DEF Simple, SensorOK
<1> QED
  BY <1>1, <1>2, <1>3 DEF JobOK, Simple

(* Simple lists one after the other are a simple list.                     *)
LEMMA FlatSimple ==
  ASSUME NEW N \in Nat \ {0}, NEW seqs \in [1 .. N -> Seq(GoodSteps)],
         \A i \in 1 .. N : Simple(seqs[i])
  PROVE  Simple(FlattenSeq(seqs))
<1>1. PICK b : IsFlat(seqs, N, FlattenSeq(seqs), b)
  BY FlattenIsFlat
<1>2. FlattenSeq(seqs) \in Seq(GoodSteps)
  BY FlattenIsFlat
<1> DEFINE q == FlattenSeq(seqs)
<1>3. ASSUME NEW k \in 1 .. Len(q)
      PROVE  /\ q[k].op \in {"read", "write"} /\ SkipOf(q[k]) = 0
             /\ Back(q[k]) => Adjacent(q, k)
  <2>0. PICK i \in 1 .. N : \E m \in 1 .. Len(seqs[i]) : k = b[i] + m
    BY <1>1 DEF IsFlat
  <2>1. PICK m \in 1 .. Len(seqs[i]) : k = b[i] + m
    BY <2>0
  <2>2. /\ q[k] = seqs[i][m] /\ b[i] \in Nat
        /\ \A x \in 1 .. Len(seqs[i]) : q[b[i] + x] = seqs[i][x]
    BY <1>1, <2>1 DEF IsFlat
  <2>3. seqs[i][m].op \in {"read", "write"} /\ SkipOf(seqs[i][m]) = 0
        /\ (Back(seqs[i][m]) => Adjacent(seqs[i], m))
    BY <2>1 DEF Simple
  <2> HIDE DEF q
  <2>4. ASSUME Adjacent(seqs[i], m) PROVE Adjacent(q, k)
    <3>1. m > 1 /\ m - 1 \in 1 .. Len(seqs[i]) /\ b[i] + (m - 1) = k - 1 /\ k > 1
      <4>1. m > 1
        BY <2>4 DEF Adjacent
      <4>2. PICK x \in Nat : x = b[i]
        BY <2>2
      <4>3. PICK l \in Nat : l = Len(seqs[i])
        OBVIOUS
      <4>4. m - 1 \in 1 .. l /\ x + (m - 1) = k - 1 /\ k > 1
        BY ONLY <2>1, <4>1, <4>2, <4>3, m \in 1 .. Len(seqs[i])
      <4> QED
        BY <4>1, <4>2, <4>3, <4>4
    <3>2. q[k - 1] = seqs[i][m - 1]
      BY <2>2, <3>1
    <3> QED
      BY <2>2, <2>4, <3>1, <3>2 DEF Adjacent
  <2> QED
    BY <2>2, <2>3, <2>4
<1> QED
  BY <1>2, <1>3 DEF Simple

(* Field f of register r of panel p: nothing sets it; v is the last value  *)
(* that it is set to.                                                      *)
NoSet(q, p, r, f) == \A k \in 1 .. Len(q) : ~ Setter(q[k], p, r, f)
LastSet(q, p, r, f, v) ==
  \E k \in 1 .. Len(q) : /\ Setter(q[k], p, r, f) /\ q[k].val[f] = v
                         /\ \A m \in k + 1 .. Len(q) : ~ Setter(q[m], p, r, f)

(* Lists one after the other: the last one that sets a field decides.      *)
LEMMA FlatSets ==
  ASSUME NEW N \in Nat \ {0}, NEW seqs \in [1 .. N -> Seq(GoodSteps)], NEW p, NEW r, NEW f
  PROVE  /\ NoSet(FlattenSeq(seqs), p, r, f) => \A i \in 1 .. N : NoSet(seqs[i], p, r, f)
         /\ \A v : LastSet(FlattenSeq(seqs), p, r, f, v) =>
              \E i \in 1 .. N : /\ LastSet(seqs[i], p, r, f, v)
                                /\ \A j \in i + 1 .. N : NoSet(seqs[j], p, r, f)
<1> DEFINE q == FlattenSeq(seqs)
<1>1. PICK b : IsFlat(seqs, N, q, b)
  BY FlattenIsFlat
<1>2. /\ b \in [1 .. N -> Nat]
      /\ \A i \in 1 .. N : \A m \in 1 .. Len(seqs[i]) :
           b[i] + m \in 1 .. Len(q) /\ q[b[i] + m] = seqs[i][m]
      /\ \A k \in 1 .. Len(q) : \E i \in 1 .. N : \E m \in 1 .. Len(seqs[i]) : k = b[i] + m
      /\ \A i \in 1 .. N : \A j \in 1 .. N : i < j => b[i] + Len(seqs[i]) <= b[j]
  BY <1>1 DEF IsFlat
<1>3. \A i \in 1 .. N : Len(seqs[i]) \in Nat
  OBVIOUS
<1> HIDE DEF q
<1>4. ASSUME NoSet(q, p, r, f), NEW i \in 1 .. N PROVE NoSet(seqs[i], p, r, f)
  BY <1>2, <1>4 DEF NoSet
<1>5. ASSUME NEW v, LastSet(q, p, r, f, v)
      PROVE  \E i \in 1 .. N : /\ LastSet(seqs[i], p, r, f, v)
                               /\ \A j \in i + 1 .. N : NoSet(seqs[j], p, r, f)
  <2>1. PICK k \in 1 .. Len(q) : /\ Setter(q[k], p, r, f) /\ q[k].val[f] = v
                                 /\ \A m \in k + 1 .. Len(q) : ~ Setter(q[m], p, r, f)
    BY <1>5 DEF LastSet
  <2>0. PICK i \in 1 .. N : \E m \in 1 .. Len(seqs[i]) : k = b[i] + m
    BY <1>2
  <2>2. PICK m \in 1 .. Len(seqs[i]) : k = b[i] + m
    BY <2>0
  <2>3. q[k] = seqs[i][m] /\ b[i] \in Nat
    BY <1>2, <2>2
  <2>4. ASSUME NEW x \in m + 1 .. Len(seqs[i]) PROVE ~ Setter(seqs[i][x], p, r, f)
    <3>1. x \in 1 .. Len(seqs[i])
      BY <1>3
    <3>2. q[b[i] + x] = seqs[i][x] /\ b[i] + x \in 1 .. Len(q)
      BY <1>2, <3>1
    <3>3. b[i] + x \in k + 1 .. Len(q)
      BY <2>2, <2>3, <3>2
    <3> QED
      BY <2>1, <3>2, <3>3
  <2>5. LastSet(seqs[i], p, r, f, v)
    BY <2>1, <2>3, <2>4 DEF LastSet
  <2>6. ASSUME NEW j \in i + 1 .. N PROVE NoSet(seqs[j], p, r, f)
    <3>1. j \in 1 .. N /\ i < j /\ b[j] \in Nat
      <4>1. j \in 1 .. N /\ i < j
        OBVIOUS
      <4> QED
        BY <1>2, <4>1
    <3>2. ASSUME NEW x \in 1 .. Len(seqs[j]) PROVE ~ Setter(seqs[j][x], p, r, f)
      <4>1. b[i] + Len(seqs[i]) <= b[j] /\ q[b[j] + x] = seqs[j][x] /\ b[j] + x \in 1 .. Len(q)
        BY <1>2, <3>1
      <4>2. b[j] + x \in k + 1 .. Len(q)
        <5>1. PICK y \in Nat : y = b[j]
          BY <3>1
        <5>2. PICK z \in Nat : z = b[i]
          BY <2>3
        <5>3. PICK l \in Nat : l = Len(seqs[i])
          BY <1>3
        <5>4. PICK c \in Nat : c = y + x
          OBVIOUS
        <5>5. c \in 1 .. Len(q)
          BY ONLY <4>1, <5>1, <5>4
        <5>6. z + l <= y /\ k = z + m /\ m <= l /\ x >= 1 /\ x \in Nat /\ m \in Nat
          BY <2>2, <4>1, <5>1, <5>2, <5>3
        <5>7. c >= k + 1
          BY ONLY <5>4, <5>6, c \in Nat, y \in Nat, z \in Nat, l \in Nat
        <5>8. c \in k + 1 .. Len(q)
          BY ONLY <5>5, <5>7, k \in 1 .. Len(q)
        <5> QED
          BY ONLY <5>1, <5>4, <5>8
      <4> QED
        BY <2>1, <4>1, <4>2
    <3> QED
      BY <3>2 DEF NoSet
  <2> QED
    BY <2>5, <2>6
<1> QED
  BY <1>4, <1>5 DEF q

(* The list's last step is w and is its only write.                        *)
LEMMA OneWrite ==
  ASSUME NEW q, NEW n \in Nat \ {0}, Len(q) = n, NEW w, q[n] = w,
         \A k \in 1 .. n - 1 : q[k].op # "write", NEW p, NEW r, NEW f
  PROVE  /\ NoSet(q, p, r, f) => ~ Setter(w, p, r, f)
         /\ \A v : LastSet(q, p, r, f, v) => Setter(w, p, r, f) /\ v = w.val[f]
<1>1. n \in 1 .. Len(q) /\ \A k \in 1 .. Len(q) : k # n => k \in 1 .. n - 1
  OBVIOUS
<1>2. ASSUME NEW k \in 1 .. Len(q), Setter(q[k], p, r, f) PROVE k = n
  BY <1>1, <1>2 DEF Setter
<1> QED
  BY <1>1, <1>2 DEF NoSet, LastSet

(* A list that sets, in the panels of to, the fields F of register reg to  *)
(* their values in c and nothing else.                                     *)
SetsOnly(q, p, to, reg, F, c) ==
  \A r, f : /\ NoSet(q, p, r, f) => ~ (p \in to /\ r = reg /\ f \in F)
            /\ \A v : LastSet(q, p, r, f, v) => p \in to /\ r = reg /\ f \in F /\ v = c[f]

(* The fields set and their values, for panel p, are those of effect E;    *)
(* fields without room do not count.                                       *)
Answers(q, p, E) ==
  \A r \in Followed, f \in Fields :
    Width[r][f] # 0 =>
      /\ NoSet(q, p, r, f) => \A e \in E : ~ (e[1] = r /\ e[2] = f)
      /\ \A v : LastSet(q, p, r, f, v) => \E e \in E : e[1] = r /\ e[2] = f /\ e[3] = v

Matches(E, p, to, reg, F, c) ==
  /\ p \in to => \A f \in F : Width[reg][f] # 0 => \E e \in E : e[1] = reg /\ e[2] = f /\ e[3] = c[f]
  /\ \A e \in E : p \in to /\ e[1] = reg /\ e[2] \in F

(* Setting what the effect names answers the request.                      *)
LEMMA MatchAnswers ==
  ASSUME NEW q, NEW p, NEW to, NEW reg, NEW F, NEW c, NEW E,
         SetsOnly(q, p, to, reg, F, c), Matches(E, p, to, reg, F, c)
  PROVE  Answers(q, p, E)
BY DEF SetsOnly, Matches, Answers

(* The effect of one pair of an argument.                                  *)
PairEffect(attr, pair, p) ==
  CASE p \in pair.to -> Effect(attr, p, pair.val)
    [] pair.to = Delay -> {<<"CFG_VID_TX_DELAY", "lo", AtMost(pair.val, 255)>>}
    [] OTHER -> {}

(* The effect of a whole argument: of each pair what no later pair         *)
(* overrides.                                                              *)
LEMMA FinalEffectIs ==
  ASSUME NEW attr, NEW N \in Nat \ {0}, NEW S, NEW pairs \in [1 .. N -> S], NEW p, NEW e
  PROVE  e \in FinalEffect(attr, pairs, p) <=>
           \E i \in 1 .. N : /\ e \in PairEffect(attr, pairs[i], p)
                             /\ \A j \in i + 1 .. N : \A d \in PairEffect(attr, pairs[j], p) :
                                  ~ (d[1] = e[1] /\ d[2] = e[2])
<1>1. Len(pairs) = N /\ DOMAIN pairs = 1 .. N
  OBVIOUS
<1>2. FinalEffect(attr, pairs, p) =
        UNION {{x \in PairEffect(attr, pairs[i], p) :
                  \A j \in i + 1 .. N : \A d \in PairEffect(attr, pairs[j], p) :
                    <<d[1], d[2]>> # <<x[1], x[2]>>} : i \in 1 .. N}
  BY <1>1 DEF FinalEffect, PairEffect
<1> QED
  BY <1>2

(* Pair by pair is as the whole argument says.                             *)
LEMMA FlatAnswers ==
  ASSUME NEW attr, NEW N \in Nat \ {0}, NEW S, NEW pairs \in [1 .. N -> S], NEW p,
         NEW seqs \in [1 .. N -> Seq(GoodSteps)],
         \A i \in 1 .. N : Answers(seqs[i], p, PairEffect(attr, pairs[i], p))
  PROVE  Answers(FlattenSeq(seqs), p, FinalEffect(attr, pairs, p))
<1> DEFINE q == FlattenSeq(seqs)
           E == FinalEffect(attr, pairs, p)
<1> SUFFICES ASSUME NEW r \in Followed, NEW f \in Fields, Width[r][f] # 0
             PROVE  /\ NoSet(q, p, r, f) => \A e \in E : ~ (e[1] = r /\ e[2] = f)
                    /\ \A v : LastSet(q, p, r, f, v) => \E e \in E : e[1] = r /\ e[2] = f /\ e[3] = v
  BY DEF Answers
<1>1. /\ NoSet(q, p, r, f) => \A i \in 1 .. N : NoSet(seqs[i], p, r, f)
      /\ \A v : LastSet(q, p, r, f, v) =>
           \E i \in 1 .. N : /\ LastSet(seqs[i], p, r, f, v)
                             /\ \A j \in i + 1 .. N : NoSet(seqs[j], p, r, f)
  BY FlatSets
<1>2. \A i \in 1 .. N :
        /\ NoSet(seqs[i], p, r, f) =>
             \A e \in PairEffect(attr, pairs[i], p) : ~ (e[1] = r /\ e[2] = f)
        /\ \A v : LastSet(seqs[i], p, r, f, v) =>
             \E e \in PairEffect(attr, pairs[i], p) : e[1] = r /\ e[2] = f /\ e[3] = v
  BY DEF Answers
<1>3. \A e : e \in E <=>
           \E i \in 1 .. N : /\ e \in PairEffect(attr, pairs[i], p)
                             /\ \A j \in i + 1 .. N : \A d \in PairEffect(attr, pairs[j], p) :
                                  ~ (d[1] = e[1] /\ d[2] = e[2])
  BY FinalEffectIs
<1> HIDE DEF q, E
<1>4. ASSUME NoSet(q, p, r, f), NEW e \in E PROVE ~ (e[1] = r /\ e[2] = f)
  BY <1>1, <1>2, <1>3, <1>4
<1>5. ASSUME NEW v, LastSet(q, p, r, f, v)
      PROVE  \E e \in E : e[1] = r /\ e[2] = f /\ e[3] = v
  <2>1. PICK i \in 1 .. N : /\ LastSet(seqs[i], p, r, f, v)
                            /\ \A j \in i + 1 .. N : NoSet(seqs[j], p, r, f)
    BY <1>1, <1>5
  <2>2. PICK e \in PairEffect(attr, pairs[i], p) : e[1] = r /\ e[2] = f /\ e[3] = v
    BY <1>2, <2>1
  <2>3. ASSUME NEW j \in i + 1 .. N, NEW d \in PairEffect(attr, pairs[j], p)
        PROVE  ~ (d[1] = e[1] /\ d[2] = e[2])
    <3>1. j \in 1 .. N /\ NoSet(seqs[j], p, r, f)
      BY <2>1
    <3>2. ~ (d[1] = r /\ d[2] = f)
      BY <1>2, <3>1
    <3> QED
      BY <2>2, <3>2
  <2>4. e \in E
    <3>1. e \in PairEffect(attr, pairs[i], p)
      BY <2>2
    <3>2. \A j \in i + 1 .. N : \A d \in PairEffect(attr, pairs[j], p) :
            ~ (d[1] = e[1] /\ d[2] = e[2])
      BY <2>3
    <3> QED
      BY <1>3, <3>1, <3>2
  <2> QED
    BY <2>2, <2>4
<1> QED
  BY <1>4, <1>5

(* What every handler's list is: steps as they should be, in an order that *)
(* the invariant asks for, with the effect that was asked for.             *)
HandlerOK(attr, pairs, q) ==
  /\ q \in Seq(GoodSteps)
  /\ \A g, R, ok : JobOK(q, g, R, ok)
  /\ \A p \in Panel : Answers(q, p, FinalEffect(attr, pairs, p))

(* One simple list for each pair makes a handler.                          *)
LEMMA PerPairOK ==
  ASSUME NEW attr, NEW N \in Nat \ {0}, NEW S, NEW pairs \in [1 .. N -> S],
         NEW seqs \in [1 .. N -> Seq(GoodSteps)],
         \A i \in 1 .. N : /\ Simple(seqs[i])
                           /\ \A p \in Panel : Answers(seqs[i], p, PairEffect(attr, pairs[i], p))
  PROVE  HandlerOK(attr, pairs, FlattenSeq(seqs))
<1>1. Simple(FlattenSeq(seqs))
  BY FlatSimple
<1>2. \A p \in Panel : Answers(FlattenSeq(seqs), p, FinalEffect(attr, pairs, p))
  BY FlatAnswers
<1> HIDE DEF HandlerOK
<1> QED
  BY <1>1, <1>2, SimpleJob DEF HandlerOK

(* A simple list that does no more than that.                              *)
SimpleSets(q, to, reg, F, c) == Simple(q) /\ \A p \in Panel : SetsOnly(q, p, to, reg, F, c)

(* The value v for one field.                                              *)
OneField(f, v) == [x \in {f} |-> v]

(* Step s reads what a write to register reg of panels to may put back.    *)
ReadFor(s, to, reg) ==
  IF reg \in SetupRegs THEN s.miss.hi = SetupHi(reg)
  ELSE \E p \in Panel : s.from = << {p} >> /\ to = {p}

ThenWrite(s, to, reg, slot, f, v) == << s, WriteBack(to, reg, slot, f, v) >>

(* One pair's list: a constant is written to a register.                   *)
LEMMA WriteBlock ==
  ASSUME NEW to \in SUBSET Panel, to # {}, NEW reg \in Followed, NEW c \in Values, Fits(reg, c),
         ~ (reg \in SetupRegs), reg = "PVT_CTL" => to = All
  PROVE  SimpleSets(<< WriteReg(to, reg, c) >>, to, reg, Fields, c)
<1> DEFINE w == WriteReg(to, reg, c)
           q == << w >>
<1>1. w \in GoodSteps
  BY WriteRegGood
<1>2. /\ w.op = "write" /\ w.to = to /\ w.reg = reg /\ w.set = Fields /\ w.val = c
  BY DEF WriteReg, Fields
<1> HIDE DEF w
<1>3. q \in Seq(GoodSteps) /\ Len(q) = 1 /\ q[1] = w /\ 1 .. 1 - 1 = {}
  BY <1>1
<1> HIDE DEF q
<1>4. Simple(q)
  BY <1>2, <1>3 DEF Simple, SkipOf, Back
<1>5. ASSUME NEW p, NEW r, NEW f
      PROVE  /\ NoSet(q, p, r, f) => ~ Setter(w, p, r, f)
             /\ \A v : LastSet(q, p, r, f, v) => Setter(w, p, r, f) /\ v = w.val[f]
  <2> DEFINE n == 1
  <2>1. n \in Nat \ {0} /\ Len(q) = n /\ q[n] = w /\ \A k \in 1 .. n - 1 : q[k].op # "write"
    BY <1>3
  <2> HIDE DEF n
  <2> QED
    BY <2>1, OneWrite
<1>6. \A p : SetsOnly(q, p, to, reg, Fields, c)
  BY <1>2, <1>5 DEF SetsOnly, Setter
<1> QED
  BY <1>4, <1>6 DEF q, w, SimpleSets

(* A register is read and a field of it is changed.                        *)
LEMMA ReadWriteBlock ==
  ASSUME NEW s \in GoodSteps, s.op = "read", s.skip = 0,
         NEW to \in SUBSET Panel, to # {}, NEW reg \in Followed, NEW slot \in Panel,
         NEW f \in Fields, NEW v \in 0 .. Width[reg][f],
         reg \in SetupRegs => f = "lo", reg \in {"PL_CFG", "PVT_CTL"} => to = All,
         s.slot = slot, s.reg = reg,
         ReadFor(s, to, reg)
  PROVE  SimpleSets(ThenWrite(s, to, reg, slot, f, v), to, reg, {f}, OneField(f, v))
<1> DEFINE w == WriteBack(to, reg, slot, f, v)
           q == << s, w >>
<1>1. w \in GoodSteps
  BY WriteBackGood
<1>2. /\ w.op = "write" /\ w.to = to /\ w.reg = reg /\ w.set = {f} /\ w.val = [x \in {f} |-> v]
      /\ w.slot = slot
  BY DEF WriteBack
<1> HIDE DEF w
<1>3. q \in Seq(GoodSteps) /\ Len(q) = 2 /\ q[1] = s /\ q[2] = w
  BY <1>1
<1> HIDE DEF q
<1>4. Adjacent(q, 2)
  BY <1>2, <1>3 DEF Adjacent, ReadFor
<1>5. Simple(q)
  <2> SUFFICES ASSUME NEW k \in 1 .. 2
               PROVE  /\ q[k].op \in {"read", "write"} /\ SkipOf(q[k]) = 0
                      /\ Back(q[k]) => Adjacent(q, k)
    BY <1>3 DEF Simple
  <2>1. CASE k = 1
    BY <1>3, <2>1 DEF SkipOf, Back
  <2>2. CASE k = 2
    BY <1>2, <1>3, <1>4, <2>2 DEF SkipOf
  <2> QED
    BY <2>1, <2>2
<1>6. ASSUME NEW p, NEW r, NEW x
      PROVE  /\ NoSet(q, p, r, x) => ~ Setter(w, p, r, x)
             /\ \A y : LastSet(q, p, r, x, y) => Setter(w, p, r, x) /\ y = w.val[x]
  <2> DEFINE n == 2
  <2>1. n \in Nat \ {0} /\ Len(q) = n /\ q[n] = w /\ \A k \in 1 .. n - 1 : q[k].op # "write"
    BY <1>3
  <2> HIDE DEF n
  <2> QED
    BY <2>1, OneWrite
<1>7. \A p : SetsOnly(q, p, to, reg, {f}, OneField(f, v))
  BY <1>2, <1>6 DEF SetsOnly, Setter, OneField
<1> QED
  BY <1>5, <1>7 DEF q, w, SimpleSets, ThenWrite

(* The same for each colour, from its own register.                        *)
ReadWriteColours(to, reg, miss, f, v) ==
  PerColour(to, LAMBDA p : << Read(<< {p} >>, reg, "R", miss), WriteBack({p}, reg, "R", f, v) >>)

(* One pair's list: colour by colour a field is read and written back.     *)
LEMMA ColoursBlock ==
  ASSUME NEW to \in SUBSET Panel, NEW reg \in Followed, reg # "PL_CFG", reg # "PVT_CTL",
         ~ (reg \in SetupRegs), NEW miss \in Values, Fits(reg, miss),
         NEW f \in Fields, NEW v \in 0 .. Width[reg][f]
  PROVE  SimpleSets(ReadWriteColours(to, reg, miss, f, v), to, reg, {f}, OneField(f, v))
<1> DEFINE c == << "R", "G", "B" >>
           B(p) == << Read(<< {p} >>, reg, "R", miss), WriteBack({p}, reg, "R", f, v) >>
           seqs == [i \in 1 .. 3 |-> IF c[i] \in to THEN B(c[i]) ELSE << >>]
           val == OneField(f, v)
<1>1. ReadWriteColours(to, reg, miss, f, v) = FlattenSeq(seqs)
  BY DEF ReadWriteColours, PerColour
<1>2. /\ \A i \in 1 .. 3 : c[i] \in Panel
      /\ \A p \in Panel : \E i \in 1 .. 3 : c[i] = p
      /\ \A p \in Panel : c[1] = p \/ c[2] = p \/ c[3] = p
  <2>1. c[1] = "R" /\ c[2] = "G" /\ c[3] = "B"
    OBVIOUS
  <2>2. \A i \in 1 .. 3 : i = 1 \/ i = 2 \/ i = 3
    OBVIOUS
  <2>3. 1 \in 1 .. 3 /\ 2 \in 1 .. 3 /\ 3 \in 1 .. 3
    OBVIOUS
  <2> HIDE DEF c
  <2> QED
    BY <2>1, <2>2, <2>3 DEF Panel
<1>3. ASSUME NEW p \in Panel
      PROVE  SimpleSets(B(p), {p}, reg, {f}, val)
  <2> DEFINE s == Read(<< {p} >>, reg, "R", miss)
             slot == "R"
             to1 == {p}
  <2>1. /\ s.op = "read" /\ s.skip = 0 /\ s.slot = slot /\ s.reg = reg /\ s.from = << {p} >>
    BY DEF Read
  <2>2. << {p} >> \in Seq(SUBSET Panel) /\ << {p} >> # << >> /\ reg \in Regs /\ slot \in Panel
        /\ \A k \in 1 .. Len(<< {p} >>) : << {p} >>[k] # {}
    BY DEF Followed, Panel
  <2>3. s \in GoodSteps
    BY <2>2, ReadGood
  <2> HIDE DEF s
  <2>4. to1 \in SUBSET Panel /\ to1 # {} /\ ReadFor(s, to1, reg)
    BY <2>1 DEF ReadFor
  <2>5. (reg \in SetupRegs => f = "lo") /\ (reg \in {"PL_CFG", "PVT_CTL"} => to1 = All)
    OBVIOUS
  <2> HIDE DEF to1, slot
  <2>6. SimpleSets(ThenWrite(s, to1, reg, slot, f, v), to1, reg, {f}, OneField(f, v))
    BY <2>1, <2>2, <2>3, <2>4, <2>5, ReadWriteBlock
  <2> QED
    BY <2>6 DEF s, to1, slot, ThenWrite
<1> HIDE DEF B, c
<1>4. Simple(<< >>) /\ \A p, r, x, y : ~ LastSet(<< >>, p, r, x, y)
  <2>1. << >> \in Seq(GoodSteps) /\ Len(<< >>) = 0 /\ 1 .. 0 = {}
    OBVIOUS
  <2> QED
    BY <2>1 DEF Simple, LastSet
<1>5. \A i \in 1 .. 3 : seqs[i] \in Seq(GoodSteps) /\ Simple(seqs[i])
  BY <1>2, <1>3, <1>4 DEF Simple, SimpleSets
<1>6. seqs \in [1 .. 3 -> Seq(GoodSteps)] /\ 3 \in Nat \ {0}
  BY <1>5
<1>7. \A i \in 1 .. 3 : seqs[i] = IF c[i] \in to THEN B(c[i]) ELSE << >>
  OBVIOUS
<1> HIDE DEF seqs
<1>8. Simple(FlattenSeq(seqs))
  BY <1>5, <1>6, FlatSimple
<1>9. ASSUME NEW p \in Panel, NEW r, NEW x
      PROVE  /\ NoSet(FlattenSeq(seqs), p, r, x) => ~ (p \in to /\ r = reg /\ x \in {f})
             /\ \A y : LastSet(FlattenSeq(seqs), p, r, x, y) =>
                  p \in to /\ r = reg /\ x \in {f} /\ y = val[x]
  <2>1. /\ NoSet(FlattenSeq(seqs), p, r, x) => \A i \in 1 .. 3 : NoSet(seqs[i], p, r, x)
        /\ \A y : LastSet(FlattenSeq(seqs), p, r, x, y) =>
              \E i \in 1 .. 3 : LastSet(seqs[i], p, r, x, y)
    BY <1>6, FlatSets
  <2>2. ASSUME NEW i \in 1 .. 3, NEW y, LastSet(seqs[i], p, r, x, y)
        PROVE  p \in to /\ r = reg /\ x \in {f} /\ y = val[x]
    <3>1. c[i] \in to /\ seqs[i] = B(c[i])
      BY <1>4, <1>7, <2>2
    <3>2. SetsOnly(B(c[i]), p, {c[i]}, reg, {f}, val)
      BY <1>2, <1>3 DEF SimpleSets
    <3>3. p \in {c[i]} /\ r = reg /\ x \in {f} /\ y = val[x]
      BY <2>2, <3>1, <3>2 DEF SetsOnly
    <3> QED
      BY <3>1, <3>3
  <2>3. ASSUME NoSet(FlattenSeq(seqs), p, r, x), p \in to, r = reg, x \in {f} PROVE FALSE
    <3>1. PICK i \in 1 .. 3 : c[i] = p
      BY <1>2
    <3>2. seqs[i] = B(p) /\ NoSet(B(p), p, r, x)
      BY <1>7, <2>1, <2>3, <3>1
    <3>3. SetsOnly(B(p), p, {p}, reg, {f}, val)
      BY <1>3 DEF SimpleSets
    <3> QED
      BY <2>3, <3>2, <3>3 DEF SetsOnly
  <2> QED
    BY <2>1, <2>2, <2>3
<1>10. \A p \in Panel : SetsOnly(FlattenSeq(seqs), p, to, reg, {f}, val)
  BY <1>9 DEF SetsOnly
<1> QED
  BY <1>1, <1>8, <1>10 DEF SimpleSets

-----------------------------------------------------------------------------
(* The handlers that take their argument pair by pair.                     *)

(* What users may write as one pair.                                       *)
Pairs(attr) == [to : Targets(attr), val : Inputs(attr)]

(* Fields that fit make a register that does.                              *)
LEMMA RegFits ==
  ASSUME NEW r \in Regs, NEW a \in Nat, NEW b \in Nat, a <= Width[r].lo, b <= Width[r].hi
  PROVE  Reg(a, b) \in Values /\ Fits(r, Reg(a, b))
<1>1. Width[r].lo \in Nat /\ Width[r].hi \in Nat
  BY Widths DEF Values, Fields
<1>2. a \in 0 .. Width[r]["lo"] /\ b \in 0 .. Width[r]["hi"]
  BY <1>1
<1> QED
  BY <1>2, RegIsValue DEF Fits, Fields

(* The lengths of the fields of the registers that users write.            *)
LEMMA UserWidths ==
  /\ {"PL_CUR", "IMG_FLIP", "IMG_OFFSET", "OSC_TRIM", "DMR_CFG", "DMR_REMAP_VAL", "DSC_CFG",
      "DMR_SEG_TH", "PVT_CTL", "CFG_VID_TX_DELAY", "PL_CFG", "EFUSE_REG_SW"} \subseteq Followed
  /\ Width["PL_CUR"].lo = 255 /\ Width["PL_CUR"].hi = 0
  /\ Width["IMG_OFFSET"].lo = 31 /\ Width["IMG_OFFSET"].hi = 31
  /\ Width["DMR_REMAP_VAL"].lo = 2047 /\ Width["DMR_REMAP_VAL"].hi = 0
  /\ Width["DSC_CFG"].lo = 511 /\ Width["DSC_CFG"].hi = 1
  /\ Width["DMR_SEG_TH"].lo = 1023 /\ Width["DMR_SEG_TH"].hi = 0
  /\ Width["PVT_CTL"].lo = 3 /\ Width["PVT_CTL"].hi = 0
  /\ Width["CFG_VID_TX_DELAY"].lo = 1186 /\ Width["CFG_VID_TX_DELAY"].hi = 0
  /\ Width["OSC_TRIM"].lo = 255 /\ Width["EFUSE_REG_SW"].lo = 1 /\ Width["PL_CFG"].lo = 7
  /\ Width["IMG_FLIP"].lo = 1 /\ Width["IMG_FLIP"].hi = 1 /\ Width["DMR_CFG"].hi = 1
BY Widths DEF Reg, Followed

(* What is right for one pair.                                             *)
BlockOK(attr, pair, q) ==
  Simple(q) /\ \A p \in Panel : Answers(q, p, PairEffect(attr, pair, p))

(* A list that sets what a pair's effect names is right for the pair.      *)
LEMMA MatchBlock ==
  ASSUME NEW attr, NEW pair, NEW q, NEW to, NEW reg, NEW F, NEW c, SimpleSets(q, to, reg, F, c),
         \A p \in Panel : Matches(PairEffect(attr, pair, p), p, to, reg, F, c)
  PROVE  BlockOK(attr, pair, q)
BY MatchAnswers DEF SimpleSets, BlockOK

(* Targets are not empty, and no colour is the t of current.               *)
LEMMA TargetFacts ==
  /\ \A attr : attr # "current" => \A to \in Targets(attr) : to \in SUBSET Panel /\ to # {}
                                                            /\ to # Delay
  /\ \A to \in Targets("current") : to # Delay => to \in SUBSET Panel /\ to # {}
  /\ \A p \in Panel : ~ (p \in Delay) /\ p \in All
  /\ All \in SUBSET Panel /\ All # {} /\ All # Delay
BY DEF Targets, Switches, Delay, All, Panel

(* A write of one field matches an effect of one field.                    *)
LEMMA OneMatch ==
  ASSUME NEW p, NEW to, NEW reg, NEW f, NEW v, NEW E, E = IF p \in to THEN {<<reg, f, v>>} ELSE {}
  PROVE  Matches(E, p, to, reg, {f}, OneField(f, v))
<1> DEFINE e == <<reg, f, v>>
<1>1. e[1] = reg /\ e[2] = f /\ e[3] = v /\ OneField(f, v)[f] = v
  BY DEF OneField
<1>2. p \in to => E = {e}
  OBVIOUS
<1>3. ~ (p \in to) => E = {}
  OBVIOUS
<1> HIDE DEF e
<1> QED
  BY <1>1, <1>2, <1>3 DEF Matches

(* A write of both fields matches an effect of both.                       *)
LEMMA BothMatch ==
  ASSUME NEW p, NEW to, NEW reg, NEW a, NEW b, NEW E,
         E = IF p \in to THEN {<<reg, "lo", a>>, <<reg, "hi", b>>} ELSE {}
  PROVE  Matches(E, p, to, reg, Fields, Reg(a, b))
<1> DEFINE d == <<reg, "lo", a>>
           e == <<reg, "hi", b>>
<1>1. d[1] = reg /\ d[2] = "lo" /\ d[3] = a /\ e[1] = reg /\ e[2] = "hi" /\ e[3] = b
      /\ Reg(a, b)["lo"] = a /\ Reg(a, b)["hi"] = b
  BY DEF Reg
<1>2. (p \in to => E = {d, e}) /\ (~ (p \in to) => E = {})
  OBVIOUS
<1> HIDE DEF d, e
<1> QED
  BY <1>1, <1>2 DEF Matches, Fields

(* A register without upper field is written.                              *)
LEMMA LowMatch ==
  ASSUME NEW p, NEW to, NEW reg, NEW a, NEW E, Width[reg]["hi"] = 0,
         E = IF p \in to THEN {<<reg, "lo", a>>} ELSE {}
  PROVE  Matches(E, p, to, reg, Fields, Reg(a, 0))
<1> DEFINE e == <<reg, "lo", a>>
<1>1. e[1] = reg /\ e[2] = "lo" /\ e[3] = a /\ Reg(a, 0)["lo"] = a
  BY DEF Reg
<1>2. (p \in to => E = {e}) /\ (~ (p \in to) => E = {})
  OBVIOUS
<1> HIDE DEF e
<1>3. \A f \in Fields : f = "lo" \/ f = "hi"
  BY DEF Fields
<1> QED
  BY <1>1, <1>2, <1>3 DEF Matches, Fields

(* A register with one field only is written.                              *)
LEMMA LowBlock ==
  ASSUME NEW attr, NEW pair, NEW to \in SUBSET Panel, to # {},
         NEW reg \in Followed, ~ (reg \in SetupRegs), reg # "PVT_CTL", Width[reg]["hi"] = 0,
         NEW a \in Nat, a <= Width[reg]["lo"],
         \A p \in Panel : PairEffect(attr, pair, p) = IF p \in to THEN {<<reg, "lo", a>>} ELSE {}
  PROVE  BlockOK(attr, pair, << WriteReg(to, reg, Reg(a, 0)) >>)
<1> DEFINE c == Reg(a, 0)
<1>1. c \in Values /\ Fits(reg, c)
  BY RegFits DEF Followed
<1>2. \A p \in Panel : Matches(PairEffect(attr, pair, p), p, to, reg, Fields, c)
  BY LowMatch
<1> HIDE DEF c
<1>3. SimpleSets(<< WriteReg(to, reg, c) >>, to, reg, Fields, c)
  BY <1>1, WriteBlock
<1>4. BlockOK(attr, pair, << WriteReg(to, reg, c) >>)
  BY <1>2, <1>3, MatchBlock
<1> QED
  BY <1>4 DEF c

(* current_store, for one pair.                                            *)
LEMMA CurrentBlock ==
  ASSUME NEW pair \in Pairs("current")
  PROVE  BlockOK("current", pair,
           << IF pair.to = Delay THEN WriteReg(All, "CFG_VID_TX_DELAY", Reg(AtMost(pair.val, 255), 0))
                                 ELSE WriteReg(pair.to, "PL_CUR", Reg(AtMost(pair.val, 255), 0)) >>)
<1> DEFINE a == AtMost(pair.val, 255)
<1>1. a \in Nat /\ a <= Width["PL_CUR"]["lo"] /\ a <= Width["CFG_VID_TX_DELAY"]["lo"]
  <2>1. pair.val \in Nat
    BY DEF Pairs, Inputs
  <2> QED
    BY <2>1, UserWidths DEF AtMost
<1>2. CASE pair.to = Delay
  <2> DEFINE reg == "CFG_VID_TX_DELAY"
  <2>1. \A p \in Panel : PairEffect("current", pair, p) = IF p \in All THEN {<<reg, "lo", a>>} ELSE {}
    BY <1>2, TargetFacts DEF PairEffect
  <2>2. /\ reg \in Followed /\ ~ (reg \in SetupRegs) /\ reg # "PVT_CTL" /\ Width[reg]["hi"] = 0
        /\ a <= Width[reg]["lo"]
    BY <1>1, UserWidths DEF SetupRegs
  <2> HIDE DEF reg, a
  <2>3. BlockOK("current", pair, << WriteReg(All, reg, Reg(a, 0)) >>)
    BY <1>1, <2>1, <2>2, TargetFacts, LowBlock
  <2> QED
    BY <1>2, <2>3 DEF reg, a
<1>3. CASE pair.to # Delay
  <2> DEFINE reg == "PL_CUR"
             to == pair.to
  <2>1. \A p \in Panel : PairEffect("current", pair, p) = IF p \in to THEN {<<reg, "lo", a>>} ELSE {}
    BY <1>3 DEF PairEffect, Effect
  <2>2. /\ reg \in Followed /\ ~ (reg \in SetupRegs) /\ reg # "PVT_CTL" /\ Width[reg]["hi"] = 0
        /\ a <= Width[reg]["lo"] /\ to \in SUBSET Panel /\ to # {}
    BY <1>1, <1>3, UserWidths, TargetFacts DEF SetupRegs, Pairs
  <2> HIDE DEF reg, a, to
  <2>3. BlockOK("current", pair, << WriteReg(to, reg, Reg(a, 0)) >>)
    BY <1>1, <2>1, <2>2, LowBlock
  <2> QED
    BY <1>3, <2>3 DEF reg, a, to
<1> QED
  BY <1>2, <1>3

(* demura_remap_store, for one pair.                                       *)
LEMMA RemapBlock ==
  ASSUME NEW pair \in Pairs("demura_remap")
  PROVE  BlockOK("demura_remap", pair,
           << WriteReg(pair.to, "DMR_REMAP_VAL", Reg(AtMost(pair.val, 2047), 0)) >>)
<1> DEFINE a == AtMost(pair.val, 2047)
           reg == "DMR_REMAP_VAL"
           to == pair.to
<1>1. pair.val \in Nat /\ to \in SUBSET Panel /\ to # {} /\ to # Delay
  BY TargetFacts DEF Pairs, Inputs
<1>2. a \in Nat /\ a <= Width[reg]["lo"]
  BY <1>1, UserWidths DEF AtMost
<1>3. \A p \in Panel :
        PairEffect("demura_remap", pair, p) = IF p \in to THEN {<<reg, "lo", a>>} ELSE {}
  BY <1>1 DEF PairEffect, Effect
<1>4. reg \in Followed /\ ~ (reg \in SetupRegs) /\ reg # "PVT_CTL" /\ Width[reg]["hi"] = 0
  BY UserWidths DEF SetupRegs
<1> HIDE DEF reg, a, to
<1>5. BlockOK("demura_remap", pair, << WriteReg(to, reg, Reg(a, 0)) >>)
  BY <1>1, <1>2, <1>3, <1>4, LowBlock
<1> QED
  BY <1>5 DEF reg, a, to

(* demura_seg_th_store, for one pair.                                      *)
LEMMA SegThBlock ==
  ASSUME NEW pair \in Pairs("demura_seg_th")
  PROVE  BlockOK("demura_seg_th", pair,
           << WriteReg(pair.to, "DMR_SEG_TH", Reg(AtMost(pair.val, 1023), 0)) >>)
<1> DEFINE a == AtMost(pair.val, 1023)
           reg == "DMR_SEG_TH"
           to == pair.to
<1>1. pair.val \in Nat /\ to \in SUBSET Panel /\ to # {} /\ to # Delay
  BY TargetFacts DEF Pairs, Inputs
<1>2. a \in Nat /\ a <= Width[reg]["lo"]
  BY <1>1, UserWidths DEF AtMost
<1>3. \A p \in Panel :
        PairEffect("demura_seg_th", pair, p) = IF p \in to THEN {<<reg, "lo", a>>} ELSE {}
  BY <1>1 DEF PairEffect, Effect
<1>4. reg \in Followed /\ ~ (reg \in SetupRegs) /\ reg # "PVT_CTL" /\ Width[reg]["hi"] = 0
  BY UserWidths DEF SetupRegs
<1> HIDE DEF reg, a, to
<1>5. BlockOK("demura_seg_th", pair, << WriteReg(to, reg, Reg(a, 0)) >>)
  BY <1>1, <1>2, <1>3, <1>4, LowBlock
<1> QED
  BY <1>5 DEF reg, a, to

(* offset_store, for one pair.                                             *)
LEMMA OffsetBlock ==
  ASSUME NEW pair \in Pairs("offset")
  PROVE  BlockOK("offset", pair,
           IF pair.val.on = 1
           THEN << WriteReg(pair.to, "IMG_OFFSET", Reg(pair.val.v % 32, pair.val.h % 32)) >>
           ELSE << >>)
<1> DEFINE a == pair.val.v % 32
           b == pair.val.h % 32
           c == Reg(a, b)
           reg == "IMG_OFFSET"
           to == pair.to
<1>1. to \in SUBSET Panel /\ to # {} /\ to # Delay
  BY TargetFacts DEF Pairs
<1>2. a \in Nat /\ b \in Nat /\ a <= Width[reg]["lo"] /\ b <= Width[reg]["hi"]
  <2>1. pair.val.v \in Nat /\ pair.val.h \in Nat
    BY DEF Pairs, Inputs
  <2>2. a \in Nat /\ b \in Nat /\ a <= 31 /\ b <= 31
    BY <2>1
  <2> HIDE DEF a, b
  <2> QED
    BY <2>2, UserWidths
<1>3. CASE pair.val.on = 1
  <2>1. \A p \in Panel : PairEffect("offset", pair, p) =
                           IF p \in to THEN {<<reg, "lo", a>>, <<reg, "hi", b>>} ELSE {}
    BY <1>1, <1>3 DEF PairEffect, Effect
  <2>2. /\ reg \in Followed /\ ~ (reg \in SetupRegs) /\ reg # "PVT_CTL"
        /\ reg \in Regs
    BY UserWidths DEF SetupRegs, Followed
  <2> HIDE DEF reg, a, b, to
  <2>3. c \in Values /\ Fits(reg, c)
    BY <1>2, <2>2, RegFits
  <2>4. \A p \in Panel : Matches(PairEffect("offset", pair, p), p, to, reg, Fields, c)
    BY <2>1, BothMatch
  <2> HIDE DEF c
  <2>5. SimpleSets(<< WriteReg(to, reg, c) >>, to, reg, Fields, c)
    BY <1>1, <2>2, <2>3, WriteBlock
  <2>6. BlockOK("offset", pair, << WriteReg(to, reg, c) >>)
    BY <2>4, <2>5, MatchBlock
  <2> QED
    BY <1>3, <2>6 DEF reg, a, b, c, to
<1>4. CASE pair.val.on # 1
  <2>1. \A p \in Panel : PairEffect("offset", pair, p) = {}
    BY <1>1, <1>4 DEF PairEffect, Effect
  <2>2. << >> \in Seq(GoodSteps) /\ 1 .. Len(<< >>) = {}
    OBVIOUS
  <2>3. BlockOK("offset", pair, << >>)
    BY <2>1, <2>2 DEF BlockOK, Simple, Answers, LastSet
  <2> QED
    BY <1>4, <2>3
<1> QED
  BY <1>3, <1>4

(* pl_osc_trim_store, for one pair: one panel's upper byte goes to all of  *)
(* them, which have the same.                                              *)
LEMMA OscTrimBlock ==
  ASSUME NEW to \in SUBSET Panel, to # {}, NEW src \in SUBSET Panel, src # {},
         NEW n \in Nat, NEW attr, NEW pair,
         \A p \in Panel :
           PairEffect(attr, pair, p) = IF p \in to THEN {<<"OSC_TRIM", "lo", n % 256>>} ELSE {}
  PROVE  BlockOK(attr, pair, << Read(<< src >>, "OSC_TRIM", "R", Reg(16, 2)),
                                WriteBack(to, "OSC_TRIM", "R", "lo", n % 256) >>)
<1> DEFINE v == n % 256
           reg == "OSC_TRIM"
           slot == "R"
           f == "lo"
           s == Read(<< src >>, reg, slot, Reg(16, 2))
<1>1. reg \in Followed /\ reg \in Regs /\ slot \in Panel /\ f \in Fields /\ v \in 0 .. Width[reg][f]
  BY UserWidths DEF Followed, Fields, Panel
<1>2. (reg \in SetupRegs => f = "lo") /\ (reg \in {"PL_CFG", "PVT_CTL"} => to = All)
  OBVIOUS
<1>3. \A p \in Panel : PairEffect(attr, pair, p) = IF p \in to THEN {<<reg, f, v>>} ELSE {}
  OBVIOUS
<1>4. s.op = "read" /\ s.skip = 0 /\ s.slot = slot /\ s.reg = reg /\ s.miss = Reg(16, 2)
  BY DEF Read
<1>5. Reg(16, 2).hi = 2 /\ Reg(16, 2) \in Values /\ Fits(reg, Reg(16, 2))
  BY <1>1, RegFits, Widths DEF Reg
<1>6. ReadFor(s, to, reg)
  BY <1>4, <1>5 DEF ReadFor, SetupRegs, SetupHi
<1>7. s \in GoodSteps
  <2> DEFINE from == << src >>
  <2>1. from \in Seq(SUBSET Panel) /\ from # << >> /\ \A k \in 1 .. Len(from) : from[k] # {}
    OBVIOUS
  <2> HIDE DEF reg, from, slot
  <2> QED
    BY <1>1, <1>5, <2>1, ReadGood DEF from
<1> HIDE DEF v, reg, slot, f, s
<1>8. SimpleSets(ThenWrite(s, to, reg, slot, f, v), to, reg, {f}, OneField(f, v))
  BY <1>1, <1>2, <1>4, <1>6, <1>7, ReadWriteBlock
<1>9. \A p \in Panel : Matches(PairEffect(attr, pair, p), p, to, reg, {f}, OneField(f, v))
  BY <1>3, OneMatch
<1>10. BlockOK(attr, pair, ThenWrite(s, to, reg, slot, f, v))
  BY <1>8, <1>9, MatchBlock
<1> QED
  BY <1>10 DEF ThenWrite, v, reg, slot, f, s

(* One field of one register, colour by colour.                            *)
LEMMA OneFieldBlock ==
  ASSUME NEW to \in SUBSET Panel, NEW reg \in Followed, reg # "PL_CFG", reg # "PVT_CTL",
         ~ (reg \in SetupRegs), NEW miss \in Values, Fits(reg, miss),
         NEW f \in Fields, NEW v \in 0 .. Width[reg][f], NEW attr, NEW pair,
         \A p \in Panel : PairEffect(attr, pair, p) = IF p \in to THEN {<<reg, f, v>>} ELSE {}
  PROVE  BlockOK(attr, pair, ReadWriteColours(to, reg, miss, f, v))
<1>1. SimpleSets(ReadWriteColours(to, reg, miss, f, v), to, reg, {f}, OneField(f, v))
  BY ColoursBlock
<1>2. \A p \in Panel : Matches(PairEffect(attr, pair, p), p, to, reg, {f}, OneField(f, v))
  BY OneMatch
<1> QED
  BY <1>1, <1>2, MatchBlock

(* demura_en_store, for one pair.                                          *)
LEMMA DemuraEnBlock ==
  ASSUME NEW pair \in Pairs("demura_en")
  PROVE  BlockOK("demura_en", pair,
           ReadWriteColours(pair.to, "DMR_CFG", Reg(0, 0), "hi", pair.val))
<1> DEFINE reg == "DMR_CFG"
           f == "hi"
           v == pair.val
           to == pair.to
           miss == Reg(0, 0)
<1>1. to \in SUBSET Panel /\ to # Delay
  BY TargetFacts DEF Pairs
<1>2. /\ reg \in Followed /\ reg # "PL_CFG" /\ reg # "PVT_CTL" /\ ~ (reg \in SetupRegs)
      /\ f \in Fields /\ v \in 0 .. Width[reg][f]
  BY UserWidths DEF SetupRegs, Fields, Pairs, Inputs
<1>3. miss \in Values /\ Fits(reg, miss)
  BY <1>2, ZeroFits DEF Followed
<1>4. \A p \in Panel : PairEffect("demura_en", pair, p) = IF p \in to THEN {<<reg, f, v>>} ELSE {}
  BY <1>1 DEF PairEffect, Effect
<1> HIDE DEF reg, f, v, to, miss
<1>5. BlockOK("demura_en", pair, ReadWriteColours(to, reg, miss, f, v))
  BY <1>1, <1>2, <1>3, <1>4, OneFieldBlock
<1> QED
  BY <1>5 DEF reg, f, v, to, miss

(* demura_dsc_store, for one pair.                                         *)
LEMMA DscBlock ==
  ASSUME NEW pair \in Pairs("demura_dsc")
  PROVE  BlockOK("demura_dsc", pair,
           IF pair.val > 511
           THEN << WriteReg(pair.to, "DSC_CFG", Reg(pair.val % 512, (pair.val \div 4096) % 2)) >>
           ELSE ReadWriteColours(pair.to, "DSC_CFG", Reg(256, 0), "lo", pair.val))
<1> DEFINE reg == "DSC_CFG"
           to == pair.to
           n == pair.val
<1>1. to \in SUBSET Panel /\ to # {} /\ to # Delay /\ n \in Nat
  BY TargetFacts DEF Pairs, Inputs
<1>2. reg \in Followed /\ reg # "PL_CFG" /\ reg # "PVT_CTL" /\ ~ (reg \in SetupRegs) /\ reg \in Regs
  BY UserWidths DEF SetupRegs, Followed
<1>a. ASSUME NEW p \in Panel
      PROVE  PairEffect("demura_dsc", pair, p) =
               IF p \in to
               THEN {<<reg, "lo", n % 512>>}
                      \cup IF n > 511 THEN {<<reg, "hi", (n \div 4096) % 2>>} ELSE {}
               ELSE {}
  <2>1. PairEffect("demura_dsc", pair, p) = IF p \in to THEN Effect("demura_dsc", p, n) ELSE {}
    BY <1>1 DEF PairEffect
  <2>2. Effect("demura_dsc", p, n) = {<<reg, "lo", n % 512>>}
                      \cup IF n > 511 THEN {<<reg, "hi", (n \div 4096) % 2>>} ELSE {}
    BY DEF Effect
  <2> QED
    BY <2>1, <2>2
<1>3. CASE n > 511
  <2> DEFINE a == n % 512
             b == (n \div 4096) % 2
             c == Reg(a, b)
  <2>1. a \in Nat /\ b \in Nat /\ a <= 511 /\ b <= 1
    <3>1. n \div 4096 \in Nat
      BY <1>1
    <3> QED
      BY <1>1, <3>1
  <2>2. \A p \in Panel : PairEffect("demura_dsc", pair, p) =
                           IF p \in to THEN {<<reg, "lo", a>>, <<reg, "hi", b>>} ELSE {}
    BY <1>a, <1>3
  <2> HIDE DEF a, b
  <2>3. a <= Width[reg]["lo"] /\ b <= Width[reg]["hi"]
    BY <2>1, UserWidths
  <2> HIDE DEF reg, to
  <2>4. c \in Values /\ Fits(reg, c)
    BY <1>2, <2>1, <2>3, RegFits
  <2>5. \A p \in Panel : Matches(PairEffect("demura_dsc", pair, p), p, to, reg, Fields, c)
    BY <2>2, BothMatch
  <2> HIDE DEF c
  <2>6. SimpleSets(<< WriteReg(to, reg, c) >>, to, reg, Fields, c)
    BY <1>1, <1>2, <2>4, WriteBlock
  <2>7. BlockOK("demura_dsc", pair, << WriteReg(to, reg, c) >>)
    BY <2>5, <2>6, MatchBlock
  <2> QED
    BY <1>3, <2>7 DEF reg, a, b, c, to
<1>4. CASE ~ (n > 511)
  <2> DEFINE f == "lo"
             miss == Reg(256, 0)
  <2>1. n \in 0 .. 511 /\ n % 512 = n
    BY <1>1, <1>4
  <2>2. f \in Fields /\ n \in 0 .. Width[reg][f]
    BY <2>1, UserWidths DEF Fields
  <2>3. \A p \in Panel : PairEffect("demura_dsc", pair, p) = IF p \in to THEN {<<reg, f, n>>} ELSE {}
    BY <1>a, <1>4, <2>1
  <2>4. miss \in Values /\ Fits(reg, miss)
    BY <1>2, UserWidths, RegFits
  <2> HIDE DEF reg, f, n, to, miss
  <2>5. BlockOK("demura_dsc", pair, ReadWriteColours(to, reg, miss, f, n))
    BY <1>1, <1>2, <2>2, <2>3, <2>4, OneFieldBlock
  <2> QED
    BY <1>4, <2>5 DEF reg, f, n, to, miss
<1> QED
  BY <1>3, <1>4
(* The same for a pair as users write it.                                  *)
LEMMA OscTrimPair ==
  ASSUME NEW pair \in Pairs("pl_osc_trim")
  PROVE  /\ pair.to \in SUBSET Panel /\ pair.to # {} /\ pair.val \in Nat
         /\ \A p \in Panel : PairEffect("pl_osc_trim", pair, p) =
              IF p \in pair.to THEN {<<"OSC_TRIM", "lo", pair.val % 256>>} ELSE {}
<1>1. pair.to \in SUBSET Panel /\ pair.to # {} /\ pair.to # Delay /\ pair.val \in Nat
  BY TargetFacts DEF Pairs, Inputs
<1> QED
  BY <1>1 DEF PairEffect, Effect

(* The handlers that go pair by pair, for every list of pairs.             *)
LEMMA PairHandlers ==
  ASSUME NEW N \in Nat \ {0}, NEW pairs
  PROVE  /\ pairs \in [1 .. N -> Pairs("current")] =>
              HandlerOK("current", pairs, CurrentStore(pairs))
         /\ pairs \in [1 .. N -> Pairs("offset")] =>
              HandlerOK("offset", pairs, OffsetStore(pairs))
         /\ pairs \in [1 .. N -> Pairs("pl_osc_trim")] =>
              HandlerOK("pl_osc_trim", pairs, OscTrimStore(pairs))
         /\ pairs \in [1 .. N -> Pairs("demura_en")] =>
              HandlerOK("demura_en", pairs, DemuraEnStore(pairs))
         /\ pairs \in [1 .. N -> Pairs("demura_remap")] =>
              HandlerOK("demura_remap", pairs, DemuraRemapStore(pairs))
         /\ pairs \in [1 .. N -> Pairs("demura_dsc")] =>
              HandlerOK("demura_dsc", pairs, DemuraDscStore(pairs))
         /\ pairs \in [1 .. N -> Pairs("demura_seg_th")] =>
              HandlerOK("demura_seg_th", pairs, DemuraSegThStore(pairs))
<1>1. ASSUME NEW attr, pairs \in [1 .. N -> Pairs(attr)],
             NEW seqs, seqs = [i \in 1 .. N |-> seqs[i]],
             \A i \in 1 .. N : BlockOK(attr, pairs[i], seqs[i])
      PROVE  HandlerOK(attr, pairs, FlattenSeq(seqs))
  <2>1. \A i \in 1 .. N : seqs[i] \in Seq(GoodSteps)
    BY <1>1 DEF BlockOK, Simple
  <2>2. seqs \in [1 .. N -> Seq(GoodSteps)]
    BY <1>1, <2>1
  <2>3. \A i \in 1 .. N : /\ Simple(seqs[i])
                          /\ \A p \in Panel : Answers(seqs[i], p, PairEffect(attr, pairs[i], p))
    BY <1>1 DEF BlockOK
  <2> QED
    BY <1>1, <2>2, <2>3, PerPairOK
<1>2. ASSUME pairs \in [1 .. N -> Pairs("current")]
      PROVE  HandlerOK("current", pairs, CurrentStore(pairs))
  <2> DEFINE B(pair) ==
           << IF pair.to = Delay THEN WriteReg(All, "CFG_VID_TX_DELAY", Reg(AtMost(pair.val, 255), 0))
                                 ELSE WriteReg(pair.to, "PL_CUR", Reg(AtMost(pair.val, 255), 0)) >>
             seqs == [i \in 1 .. N |-> B(pairs[i])]
  <2>1. CurrentStore(pairs) = FlattenSeq(seqs)
    BY <1>2 DEF CurrentStore, PerPair
  <2>2. \A i \in 1 .. N : BlockOK("current", pairs[i], B(pairs[i]))
    BY <1>2, CurrentBlock
  <2> HIDE DEF B
  <2> QED
    BY <1>1, <1>2, <2>1, <2>2
<1>3. ASSUME pairs \in [1 .. N -> Pairs("offset")]
      PROVE  HandlerOK("offset", pairs, OffsetStore(pairs))
  <2> DEFINE B(pair) ==
           IF pair.val.on = 1
           THEN << WriteReg(pair.to, "IMG_OFFSET", Reg(pair.val.v % 32, pair.val.h % 32)) >>
           ELSE << >>
             seqs == [i \in 1 .. N |-> B(pairs[i])]
  <2>1. OffsetStore(pairs) = FlattenSeq(seqs)
    BY <1>3 DEF OffsetStore, PerPair
  <2>2. \A i \in 1 .. N : BlockOK("offset", pairs[i], B(pairs[i]))
    BY <1>3, OffsetBlock
  <2> HIDE DEF B
  <2> QED
    BY <1>1, <1>3, <2>1, <2>2
<1>4. ASSUME pairs \in [1 .. N -> Pairs("pl_osc_trim")]
      PROVE  HandlerOK("pl_osc_trim", pairs, OscTrimStore(pairs))
  <2> DEFINE B(pair) == << Read(<< pair.to >>, "OSC_TRIM", "R", Reg(16, 2)),
                           WriteBack(pair.to, "OSC_TRIM", "R", "lo", pair.val % 256) >>
             seqs == [i \in 1 .. N |-> B(pairs[i])]
  <2>1. OscTrimStore(pairs) = FlattenSeq(seqs)
    BY <1>4 DEF OscTrimStore, PerPair
  <2>2. \A i \in 1 .. N : BlockOK("pl_osc_trim", pairs[i], B(pairs[i]))
    BY <1>4, OscTrimPair, OscTrimBlock
  <2> HIDE DEF B
  <2> QED
    BY <1>1, <1>4, <2>1, <2>2
<1>5. ASSUME pairs \in [1 .. N -> Pairs("demura_en")]
      PROVE  HandlerOK("demura_en", pairs, DemuraEnStore(pairs))
  <2> DEFINE B(pair) == ReadWriteColours(pair.to, "DMR_CFG", Reg(0, 0), "hi", pair.val)
             seqs == [i \in 1 .. N |-> B(pairs[i])]
  <2>1. DemuraEnStore(pairs) = FlattenSeq(seqs)
    BY <1>5 DEF DemuraEnStore, PerPair, ReadWriteColours
  <2>2. \A i \in 1 .. N : BlockOK("demura_en", pairs[i], B(pairs[i]))
    BY <1>5, DemuraEnBlock
  <2> HIDE DEF B
  <2> QED
    BY <1>1, <1>5, <2>1, <2>2
<1>6. ASSUME pairs \in [1 .. N -> Pairs("demura_remap")]
      PROVE  HandlerOK("demura_remap", pairs, DemuraRemapStore(pairs))
  <2> DEFINE B(pair) == << WriteReg(pair.to, "DMR_REMAP_VAL", Reg(AtMost(pair.val, 2047), 0)) >>
             seqs == [i \in 1 .. N |-> B(pairs[i])]
  <2>1. DemuraRemapStore(pairs) = FlattenSeq(seqs)
    BY <1>6 DEF DemuraRemapStore, PerPair
  <2>2. \A i \in 1 .. N : BlockOK("demura_remap", pairs[i], B(pairs[i]))
    BY <1>6, RemapBlock
  <2> HIDE DEF B
  <2> QED
    BY <1>1, <1>6, <2>1, <2>2
<1>7. ASSUME pairs \in [1 .. N -> Pairs("demura_dsc")]
      PROVE  HandlerOK("demura_dsc", pairs, DemuraDscStore(pairs))
  <2> DEFINE B(pair) ==
           IF pair.val > 511
           THEN << WriteReg(pair.to, "DSC_CFG", Reg(pair.val % 512, (pair.val \div 4096) % 2)) >>
           ELSE ReadWriteColours(pair.to, "DSC_CFG", Reg(256, 0), "lo", pair.val)
             seqs == [i \in 1 .. N |-> B(pairs[i])]
  <2>1. DemuraDscStore(pairs) = FlattenSeq(seqs)
    BY <1>7 DEF DemuraDscStore, PerPair, ReadWriteColours
  <2>2. \A i \in 1 .. N : BlockOK("demura_dsc", pairs[i], B(pairs[i]))
    BY <1>7, DscBlock
  <2> HIDE DEF B
  <2> QED
    BY <1>1, <1>7, <2>1, <2>2
<1>8. ASSUME pairs \in [1 .. N -> Pairs("demura_seg_th")]
      PROVE  HandlerOK("demura_seg_th", pairs, DemuraSegThStore(pairs))
  <2> DEFINE B(pair) == << WriteReg(pair.to, "DMR_SEG_TH", Reg(AtMost(pair.val, 1023), 0)) >>
             seqs == [i \in 1 .. N |-> B(pairs[i])]
  <2>1. DemuraSegThStore(pairs) = FlattenSeq(seqs)
    BY <1>8 DEF DemuraSegThStore, PerPair
  <2>2. \A i \in 1 .. N : BlockOK("demura_seg_th", pairs[i], B(pairs[i]))
    BY <1>8, SegThBlock
  <2> HIDE DEF B
  <2> QED
    BY <1>1, <1>8, <2>1, <2>2
<1> QED
  BY <1>2, <1>3, <1>4, <1>5, <1>6, <1>7, <1>8

-----------------------------------------------------------------------------
(* The other handlers.                                                     *)

(* The effect of an argument of one pair is the pair's.                    *)
LEMMA SingleEffect ==
  ASSUME NEW attr, NEW S, NEW pairs \in [1 .. 1 -> S], NEW p
  PROVE  FinalEffect(attr, pairs, p) = PairEffect(attr, pairs[1], p)
<1> DEFINE N == 1
<1>1. N \in Nat \ {0} /\ pairs \in [1 .. N -> S]
  OBVIOUS
<1>2. \A i \in 1 .. N : i = 1 /\ i + 1 .. N = {}
  OBVIOUS
<1>3. 1 \in 1 .. N
  OBVIOUS
<1> HIDE DEF N
<1>4. \A e : e \in FinalEffect(attr, pairs, p) <=>
           \E i \in 1 .. N : /\ e \in PairEffect(attr, pairs[i], p)
                             /\ \A j \in i + 1 .. N : \A d \in PairEffect(attr, pairs[j], p) :
                                  ~ (d[1] = e[1] /\ d[2] = e[2])
  BY <1>1, FinalEffectIs
<1>5. \A e : e \in FinalEffect(attr, pairs, p) <=> e \in PairEffect(attr, pairs[1], p)
  BY <1>2, <1>3, <1>4
<1> QED
  BY <1>5

(* A list that is right for the only pair makes a handler.                 *)
LEMMA SingleBlock ==
  ASSUME NEW attr, NEW S, NEW pairs \in [1 .. 1 -> S], NEW q, BlockOK(attr, pairs[1], q)
  PROVE  HandlerOK(attr, pairs, q)
<1>1. \A p : FinalEffect(attr, pairs, p) = PairEffect(attr, pairs[1], p)
  BY SingleEffect
<1>2. Simple(q) /\ \A p \in Panel : Answers(q, p, PairEffect(attr, pairs[1], p))
  BY DEF BlockOK
<1> QED
  BY <1>1, <1>2, SimpleJob DEF HandlerOK

(* What users write to a switch, or as a number without a colour.          *)
LEMMA ForAll ==
  ASSUME NEW attr, NEW pair \in Pairs(attr), attr \in Switches \/ pair.to = All, NEW p \in Panel
  PROVE  PairEffect(attr, pair, p) = Effect(attr, p, pair.val)
<1>1. pair.to \in Targets(attr)
  BY DEF Pairs
<1>2. attr \in Switches => Targets(attr) = {All}
  BY DEF Targets, Switches
<1>3. p \in All /\ All # Delay
  BY TargetFacts
<1>4. pair.to = All
  BY <1>1, <1>2
<1> QED
  BY <1>3, <1>4 DEF PairEffect

(* pl_osc_trim_store for a plain number.                                   *)
LEMMA OscTrimAllOK ==
  ASSUME NEW pairs \in [1 .. 1 -> Pairs("pl_osc_trim")], pairs[1].to = All
  PROVE  HandlerOK("pl_osc_trim", pairs, OscTrimStoreAll(pairs[1].val))
<1> DEFINE pair == pairs[1]
           src == {"R"}
           n == pair.val
           attr == "pl_osc_trim"
           to == All
<1>1. pair \in Pairs(attr)
  OBVIOUS
<1>2. n \in Nat /\ to \in SUBSET Panel /\ to # {} /\ src \in SUBSET Panel /\ src # {}
  BY <1>1, TargetFacts DEF Pairs, Inputs, Panel
<1>3. \A p \in Panel :
        PairEffect(attr, pair, p) = IF p \in to THEN {<<"OSC_TRIM", "lo", n % 256>>} ELSE {}
  BY <1>1, ForAll, TargetFacts DEF Effect
<1> HIDE DEF pair, src, n, attr, to
<1>4. BlockOK(attr, pair, << Read(<< src >>, "OSC_TRIM", "R", Reg(16, 2)),
                             WriteBack(to, "OSC_TRIM", "R", "lo", n % 256) >>)
  BY <1>2, <1>3, OscTrimBlock
<1>5. BlockOK("pl_osc_trim", pairs[1], OscTrimStoreAll(pairs[1].val))
  BY <1>4 DEF OscTrimStoreAll, pair, src, n, attr, to
<1> QED
  BY <1>5, SingleBlock

(* pl_osc_trim_en_store.                                                   *)
LEMMA OscTrimEnOK ==
  ASSUME NEW pairs \in [1 .. 1 -> Pairs("pl_osc_trim_en")]
  PROVE  HandlerOK("pl_osc_trim_en", pairs, OscTrimEnStore(pairs[1].val))
<1> DEFINE pair == pairs[1]
           v == pair.val
           attr == "pl_osc_trim_en"
           reg == "EFUSE_REG_SW"
           slot == "R"
           f == "lo"
           to == All
           s == Read(<< {"R"}, All >>, reg, slot, Reg(0, 1))
<1>1. pair \in Pairs(attr)
  OBVIOUS
<1>2. reg \in Followed /\ reg \in Regs /\ slot \in Panel /\ f \in Fields /\ v \in 0 .. Width[reg][f]
  BY <1>1, UserWidths DEF Followed, Fields, Panel, Pairs, Inputs
<1>3. (reg \in SetupRegs => f = "lo") /\ (reg \in {"PL_CFG", "PVT_CTL"} => to = All)
      /\ to \in SUBSET Panel /\ to # {}
  BY TargetFacts
<1>4. \A p \in Panel : PairEffect(attr, pair, p) = IF p \in to THEN {<<reg, f, v>>} ELSE {}
  BY <1>1, ForAll, TargetFacts DEF Effect, Switches
<1>5. s.op = "read" /\ s.skip = 0 /\ s.slot = slot /\ s.reg = reg /\ s.miss = Reg(0, 1)
  BY DEF Read
<1>6. Reg(0, 1).hi = 1 /\ Reg(0, 1) \in Values /\ Fits(reg, Reg(0, 1))
  BY <1>2, RegFits, Widths DEF Reg
<1>7. ReadFor(s, to, reg)
  BY <1>5, <1>6 DEF ReadFor, SetupRegs, SetupHi
<1>8. s \in GoodSteps
  <2> DEFINE from == << {"R"}, All >>
  <2>1. from \in Seq(SUBSET Panel) /\ from # << >> /\ \A k \in 1 .. Len(from) : from[k] # {}
    <3>1. {"R"} \in SUBSET Panel /\ {"R"} # {} /\ All \in SUBSET Panel /\ All # {}
      BY TargetFacts DEF Panel
    <3> QED
      BY <3>1
  <2> HIDE DEF reg, from, slot
  <2> QED
    BY <1>2, <1>6, <2>1, ReadGood DEF from
<1> HIDE DEF v, reg, slot, f, s, to, pair, attr
<1>9. SimpleSets(ThenWrite(s, to, reg, slot, f, v), to, reg, {f}, OneField(f, v))
  BY <1>2, <1>3, <1>5, <1>7, <1>8, ReadWriteBlock
<1>10. \A p \in Panel : Matches(PairEffect(attr, pair, p), p, to, reg, {f}, OneField(f, v))
  BY <1>4, OneMatch
<1>11. BlockOK(attr, pair, ThenWrite(s, to, reg, slot, f, v))
  BY <1>9, <1>10, MatchBlock
<1>12. BlockOK("pl_osc_trim_en", pairs[1], OscTrimEnStore(pairs[1].val))
  BY <1>11 DEF OscTrimEnStore, ThenWrite, v, reg, slot, f, s, to, pair, attr
<1> QED
  BY <1>12, SingleBlock

(* fps_store leaves its write out if the read fails.                       *)
LEMMA FpsOK ==
  ASSUME NEW pairs \in [1 .. 1 -> Pairs("fps")]
  PROVE  HandlerOK("fps", pairs, FpsStore(pairs[1].val))
<1> DEFINE pair == pairs[1]
           v == pair.val
           attr == "fps"
           reg == "PL_CFG"
           f == "lo"
           s == ReadOrSkip(<< {"R"} >>, reg, "R", 1)
           w == WriteBack(All, reg, "R", f, v)
           q == << s, w >>
<1>1. pair \in Pairs(attr)
  OBVIOUS
<1>2. reg \in Followed /\ reg \in Regs /\ "R" \in Panel /\ f \in Fields /\ v \in 0 .. Width[reg][f]
  BY <1>1, UserWidths DEF Followed, Fields, Panel, Pairs, Inputs
<1>3. s \in GoodSteps
  <2> DEFINE from == << {"R"} >>
             slot == "R"
             n == 1
  <2>1. from \in Seq(SUBSET Panel) /\ from # << >> /\ \A k \in 1 .. Len(from) : from[k] # {}
    BY DEF Panel
  <2>2. slot \in Panel /\ reg \in Regs /\ n \in Nat
    BY <1>2
  <2> HIDE DEF reg, from, slot, n
  <2>3. ReadOrSkip(from, reg, slot, n) \in GoodSteps
    BY <2>1, <2>2, ReadOrSkipGood
  <2> QED
    BY <2>3 DEF from, slot, n
<1>4. w \in GoodSteps
  <2> DEFINE to == All
             slot == "R"
  <2>1. to \in SUBSET Panel /\ to # {} /\ slot \in Panel
        /\ (reg \in SetupRegs => f = "lo") /\ (reg \in {"PL_CFG", "PVT_CTL"} => to = All)
    BY <1>2, TargetFacts
  <2> HIDE DEF reg, slot, f, v, to
  <2>2. WriteBack(to, reg, slot, f, v) \in GoodSteps
    BY <1>2, <2>1, WriteBackGood
  <2> QED
    BY <2>2 DEF slot, to
<1>5. /\ s.op = "read" /\ s.skip = 1 /\ s.slot = "R" /\ s.reg = reg
      /\ w.op = "write" /\ w.to = All /\ w.reg = reg /\ w.slot = "R" /\ w.set = {f}
      /\ w.val = OneField(f, v)
  BY DEF ReadOrSkip, WriteBack, OneField
<1>6. \A p \in Panel : PairEffect(attr, pair, p) = IF p \in All THEN {<<reg, f, v>>} ELSE {}
  BY <1>1, ForAll, TargetFacts DEF Effect, Switches
<1>7. reg \in SetupRegs
  BY DEF SetupRegs
<1> HIDE DEF s, w, v
<1>8. q \in Seq(GoodSteps) /\ Len(q) = 2 /\ q[1] = s /\ q[2] = w
  BY <1>3, <1>4
<1> HIDE DEF q, reg, f, attr, pair
<1>9. \A k \in 1 .. 2 : k = 1 \/ k = 2
  OBVIOUS
<1>10. ASSUME NEW g, NEW R, NEW ok PROVE JobOK(q, g, R, ok)
  <2>1. Feeds(q, 1, 2)
    <3>1. Clear(q, 2, 1 + 1)
      <4>1. (1 + 1) .. (2 - 1) = {}
        OBVIOUS
      <4> QED
        BY <4>1 DEF Clear
    <3> QED
      BY <1>5, <1>7, <1>8, <3>1 DEF Feeds
  <2>2. BacksOK(q, g, R, ok)
    <3>1. ~ Back(q[1])
      BY <1>5, <1>8 DEF Back
    <3>2. 1 \in 1 .. 2 - 1
      OBVIOUS
    <3> QED
      BY <1>8, <1>9, <2>1, <3>1, <3>2 DEF BacksOK
  <2>3. NoSkipOver(q)
    <3> SUFFICES ASSUME NEW m \in 1 .. 2, NEW k \in 1 .. 2, m < k PROVE k <= m + SkipOf(q[m])
      BY <1>8 DEF NoSkipOver
    <3>1. m = 1 /\ k = 2
      OBVIOUS
    <3>2. SkipOf(q[1]) = 1
      BY <1>5, <1>8 DEF SkipOf
    <3> QED
      BY <3>1, <3>2
  <2>4. SensorOK(q, g, R, ok)
    BY <1>5, <1>8, <1>9 DEF SensorOK
  <2> QED
    BY <2>2, <2>3, <2>4 DEF JobOK
<1>11. ASSUME NEW p \in Panel PROVE Answers(q, p, FinalEffect(attr, pairs, p))
  <2>1. ASSUME NEW r, NEW x
        PROVE  /\ NoSet(q, p, r, x) => ~ Setter(w, p, r, x)
               /\ \A y : LastSet(q, p, r, x, y) => Setter(w, p, r, x) /\ y = w.val[x]
    <3> DEFINE n == 2
    <3>1. n \in Nat \ {0} /\ Len(q) = n /\ q[n] = w /\ \A k \in 1 .. n - 1 : q[k].op # "write"
      BY <1>5, <1>8
    <3> HIDE DEF n
    <3> QED
      BY <3>1, OneWrite
  <2>2. SetsOnly(q, p, All, reg, {f}, OneField(f, v))
    BY <1>5, <2>1 DEF SetsOnly, Setter
  <2>3. Matches(PairEffect(attr, pair, p), p, All, reg, {f}, OneField(f, v))
    BY <1>6, OneMatch
  <2>4. Answers(q, p, PairEffect(attr, pair, p))
    BY <2>2, <2>3, MatchAnswers
  <2>5. FinalEffect(attr, pairs, p) = PairEffect(attr, pairs[1], p)
    BY SingleEffect
  <2> QED
    BY <2>4, <2>5 DEF pair
<1>12. HandlerOK(attr, pairs, q)
  BY <1>8, <1>10, <1>11 DEF HandlerOK
<1>13. FpsStore(pairs[1].val) = q
  BY DEF FpsStore, q, s, w, reg, f, v, pair
<1> QED
  BY <1>12, <1>13 DEF attr

(* What flip and mirror do: read all three panels, write the ones of to.   *)
FlipSteps(to, f, vv) ==
  ReadFlips \o PerColour(to, LAMBDA p : << WriteBack({p}, "IMG_FLIP", p, f, vv[p]) >>)

Colour == << "R", "G", "B" >>

(* Colour names every panel once.                                          *)
LEMMA Colours ==
  /\ \A i \in 1 .. 3 : Colour[i] \in Panel
  /\ \A p \in Panel : \E i \in 1 .. 3 : Colour[i] = p
  /\ \A i, j \in 1 .. 3 : Colour[i] = Colour[j] => i = j
<1>1. Colour[1] = "R" /\ Colour[2] = "G" /\ Colour[3] = "B"
  BY DEF Colour
<1>2. \A i \in 1 .. 3 : i = 1 \/ i = 2 \/ i = 3
  OBVIOUS
<1>3. 1 \in 1 .. 3 /\ 2 \in 1 .. 3 /\ 3 \in 1 .. 3
  OBVIOUS
<1> QED
  BY <1>1, <1>2, <1>3 DEF Panel

(* Three lists of one step, or none.                                       *)
LEMMA ThreeSteps ==
  ASSUME NEW S, NEW seqs \in [1 .. 3 -> Seq(S)], NEW x, \A i \in 1 .. 3 : seqs[i] = << x[i] >>
  PROVE  /\ FlattenSeq(seqs) \in Seq(S) /\ Len(FlattenSeq(seqs)) = 3
         /\ \A i \in 1 .. 3 : FlattenSeq(seqs)[i] = x[i]
<1> DEFINE q == FlattenSeq(seqs)
<1>1. ASSUME NEW i \in 1 .. 3 PROVE Len(seqs[i]) = 1 /\ seqs[i][1] = x[i]
  <2>1. \A y : Len(<< y >>) = 1 /\ << y >>[1] = y
    OBVIOUS
  <2>2. seqs[i] = << x[i] >>
    OBVIOUS
  <2> QED
    BY ONLY <2>1, <2>2
<1>2. 1 \in 1 .. 3 /\ 2 \in 1 .. 3 /\ 3 \in 1 .. 3
  OBVIOUS
<1>3. /\ q \in Seq(S) /\ Len(q) = (Len(seqs[1]) + Len(seqs[2])) + Len(seqs[3])
      /\ \A m \in 1 .. Len(seqs[1]) : q[m] = seqs[1][m]
      /\ \A m \in 1 .. Len(seqs[2]) : q[Len(seqs[1]) + m] = seqs[2][m]
      /\ \A m \in 1 .. Len(seqs[3]) : q[(Len(seqs[1]) + Len(seqs[2])) + m] = seqs[3][m]
  BY FlattenThree
<1> HIDE DEF q
<1>4. /\ Len(q) = 3 /\ q[1] = seqs[1][1] /\ q[1 + 1] = seqs[2][1] /\ q[(1 + 1) + 1] = seqs[3][1]
  <2>1. Len(seqs[1]) = 1 /\ Len(seqs[2]) = 1 /\ Len(seqs[3]) = 1 /\ 1 \in 1 .. 1
    BY <1>1, <1>2
  <2> QED
    BY ONLY <1>3, <2>1
<1>5. q[1] = x[1] /\ q[2] = x[2] /\ q[3] = x[3]
  BY <1>1, <1>2, <1>4
<1>6. \A i \in 1 .. 3 : i = 1 \/ i = 2 \/ i = 3
  OBVIOUS
<1> QED
  BY <1>3, <1>4, <1>5, <1>6 DEF q

(* Three lists without steps.                                              *)
LEMMA NoSteps ==
  ASSUME NEW S, NEW seqs \in [1 .. 3 -> Seq(S)], \A i \in 1 .. 3 : seqs[i] = << >>
  PROVE  FlattenSeq(seqs) \in Seq(S) /\ Len(FlattenSeq(seqs)) = 0
<1>1. FlattenSeq(seqs) \in Seq(S) /\ Len(FlattenSeq(seqs)) = (0 + 0) + 0
  <2>1. seqs[1] = << >> /\ seqs[2] = << >> /\ seqs[3] = << >> /\ Len(<< >>) = 0
    OBVIOUS
  <2> QED
    BY <2>1, FlattenThree
<1> QED
  BY <1>1

(* The list step by step.                                                  *)
FlipLaidOut(q, to, f, vv) ==
  /\ q \in Seq(GoodSteps) /\ Len(q) = IF to = {} THEN 3 ELSE 6
  /\ \A i \in 1 .. 3 : q[i] = Read(<< {Colour[i]} >>, "IMG_FLIP", Colour[i], Reg(0, 0))
  /\ to # {} => \A i \in 1 .. 3 :
       q[3 + i] = WriteBack({Colour[i]}, "IMG_FLIP", Colour[i], f, vv[Colour[i]])

(* FlipSteps is laid out like that.                                        *)
LEMMA FlipLayout ==
  ASSUME NEW to \in {{}, All}, NEW f \in Fields, NEW vv, \A p \in Panel : vv[p] \in 0 .. 1
  PROVE  FlipLaidOut(FlipSteps(to, f, vv), to, f, vv)
<1> DEFINE rd(p) == Read(<< {p} >>, "IMG_FLIP", p, Reg(0, 0))
           wr(p) == WriteBack({p}, "IMG_FLIP", p, f, vv[p])
           rs == [i \in 1 .. 3 |-> IF Colour[i] \in All THEN << rd(Colour[i]) >> ELSE << >>]
           ws == [i \in 1 .. 3 |-> IF Colour[i] \in to THEN << wr(Colour[i]) >> ELSE << >>]
<1>1. FlipSteps(to, f, vv) = FlattenSeq(rs) \o FlattenSeq(ws)
  BY DEF FlipSteps, ReadFlips, PerColour, Colour
<1>2. \A i \in 1 .. 3 : Colour[i] \in Panel /\ Colour[i] \in All
  BY Colours, TargetFacts
<1>3. "IMG_FLIP" \in Followed /\ "IMG_FLIP" \in Regs /\ Width["IMG_FLIP"][f] = 1
  BY UserWidths DEF Followed, Fields
<1>4. ASSUME NEW p \in Panel PROVE rd(p) \in GoodSteps
  <2> DEFINE from == << {p} >>
             reg == "IMG_FLIP"
             miss == Reg(0, 0)
  <2>1. from \in Seq(SUBSET Panel) /\ from # << >> /\ \A k \in 1 .. Len(from) : from[k] # {}
    OBVIOUS
  <2>2. reg \in Regs /\ miss \in Values /\ Fits(reg, miss)
    BY <1>3, ZeroFits
  <2> HIDE DEF from, reg, miss
  <2>3. Read(from, reg, p, miss) \in GoodSteps
    BY <2>1, <2>2, ReadGood
  <2> QED
    BY <2>3 DEF from, reg, miss
<1>5. ASSUME NEW p \in Panel PROVE wr(p) \in GoodSteps
  <2> DEFINE to1 == {p}
             reg == "IMG_FLIP"
             v == vv[p]
  <2>1. to1 \in SUBSET Panel /\ to1 # {} /\ reg \in Followed /\ v \in 0 .. Width[reg][f]
        /\ (reg \in SetupRegs => f = "lo") /\ (reg \in {"PL_CFG", "PVT_CTL"} => to1 = All)
    BY <1>3 DEF SetupRegs
  <2> HIDE DEF to1, reg, v
  <2>2. WriteBack(to1, reg, p, f, v) \in GoodSteps
    BY <2>1, WriteBackGood
  <2> QED
    BY <2>2 DEF to1, reg, v
<1> HIDE DEF rd, wr
<1>6. rs \in [1 .. 3 -> Seq(GoodSteps)] /\ ws \in [1 .. 3 -> Seq(GoodSteps)]
  <2>1. \A i \in 1 .. 3 : << rd(Colour[i]) >> \in Seq(GoodSteps) /\ << wr(Colour[i]) >> \in Seq(GoodSteps)
    BY <1>2, <1>4, <1>5
  <2> QED
    BY <2>1
<1> DEFINE a == FlattenSeq(rs)
           b == FlattenSeq(ws)
           x == [i \in 1 .. 3 |-> rd(Colour[i])]
           y == [i \in 1 .. 3 |-> wr(Colour[i])]
<1>7. a \in Seq(GoodSteps) /\ Len(a) = 3 /\ \A i \in 1 .. 3 : a[i] = rd(Colour[i])
  <2>1. \A i \in 1 .. 3 : rs[i] = << x[i] >>
    BY <1>2
  <2>2. \A i \in 1 .. 3 : x[i] = rd(Colour[i])
    OBVIOUS
  <2> HIDE DEF rs, x
  <2> QED
    BY <1>6, <2>1, <2>2, ThreeSteps
<1>8. b \in Seq(GoodSteps) /\ Len(b) = (IF to = {} THEN 0 ELSE 3)
      /\ (to # {} => \A i \in 1 .. 3 : b[i] = wr(Colour[i]))
  <2>1. CASE to = {}
    <3>1. \A i \in 1 .. 3 : ws[i] = << >>
      BY <2>1
    <3> HIDE DEF ws
    <3> QED
      BY <1>6, <2>1, <3>1, NoSteps
  <2>2. CASE to # {}
    <3>1. \A i \in 1 .. 3 : ws[i] = << y[i] >>
      BY <1>2, <2>2
    <3>2. \A i \in 1 .. 3 : y[i] = wr(Colour[i])
      OBVIOUS
    <3> HIDE DEF ws, y
    <3> QED
      BY <1>6, <2>2, <3>1, <3>2, ThreeSteps
  <2> QED
    BY <2>1, <2>2
<1> HIDE DEF a, b
<1>9. /\ a \o b \in Seq(GoodSteps) /\ Len(a \o b) = 3 + Len(b)
      /\ \A i \in 1 .. 3 + Len(b) : (a \o b)[i] = IF i <= 3 THEN a[i] ELSE b[i - 3]
  <2>1. a \in Seq(GoodSteps) /\ b \in Seq(GoodSteps)
    BY <1>7, <1>8
  <2>2. /\ a \o b \in Seq(GoodSteps) /\ Len(a \o b) = Len(a) + Len(b)
        /\ \A i \in 1 .. Len(a) + Len(b) : (a \o b)[i] = IF i <= Len(a) THEN a[i] ELSE b[i - Len(a)]
    BY ONLY <2>1, ConcatProperties
  <2> QED
    BY <1>7, <2>2
<1> DEFINE q == a \o b
<1> HIDE DEF q
<1>10. q \in Seq(GoodSteps) /\ Len(q) = 3 + Len(b)
       /\ \A i \in 1 .. 3 + Len(b) : q[i] = IF i <= 3 THEN a[i] ELSE b[i - 3]
  BY <1>9 DEF q
<1>11. \A i \in 1 .. 3 : q[i] = rd(Colour[i])
  BY <1>7, <1>8, <1>10
<1>12. to # {} => \A i \in 1 .. 3 : q[3 + i] = wr(Colour[i])
  <2> SUFFICES ASSUME to # {}, NEW i \in 1 .. 3 PROVE q[3 + i] = wr(Colour[i])
    OBVIOUS
  <2>1. Len(b) = 3 /\ b[i] = wr(Colour[i])
    BY <1>8
  <2>2. PICK j \in 1 .. 3 + 3 : j = 3 + i /\ ~ (j <= 3) /\ j - 3 = i
    OBVIOUS
  <2>3. q[j] = IF j <= 3 THEN a[j] ELSE b[j - 3]
    BY <1>10, <2>1
  <2> QED
    BY ONLY <2>1, <2>2, <2>3
<1>13. Len(q) = IF to = {} THEN 3 ELSE 6
  BY <1>8, <1>10
<1>14. FlipSteps(to, f, vv) = q
  BY <1>1 DEF q, a, b
<1>15. q \in Seq(GoodSteps)
  BY <1>10
<1>16. FlipLaidOut(q, to, f, vv)
  BY ONLY <1>11, <1>12, <1>13, <1>15 DEF rd, wr, FlipLaidOut
<1> QED
  BY ONLY <1>14, <1>16

(* Reading all panels first and then writing is as good as one by one.     *)
LEMMA FlipStepsOK ==
  ASSUME NEW to \in {{}, All}, NEW f \in Fields, NEW vv, \A p \in Panel : vv[p] \in 0 .. 1
  PROVE  LET q == FlipSteps(to, f, vv) IN
         /\ q \in Seq(GoodSteps) /\ \A g, R, ok : JobOK(q, g, R, ok)
         /\ \A p \in Panel : SetsOnly(q, p, to, "IMG_FLIP", {f}, OneField(f, vv[p]))
<1> DEFINE q == FlipSteps(to, f, vv)
           reg == "IMG_FLIP"
<1>0. FlipLaidOut(q, to, f, vv)
  BY FlipLayout
<1> HIDE DEF q
<1>1. /\ q \in Seq(GoodSteps) /\ Len(q) = IF to = {} THEN 3 ELSE 6
      /\ \A i \in 1 .. 3 : q[i] = Read(<< {Colour[i]} >>, reg, Colour[i], Reg(0, 0))
      /\ to # {} => \A i \in 1 .. 3 :
              q[3 + i] = WriteBack({Colour[i]}, reg, Colour[i], f, vv[Colour[i]])
  BY <1>0 DEF FlipLaidOut
<1>2. reg \in Regs /\ ~ (reg \in SetupRegs) /\ reg # "PVT_CTL" /\ reg # "PL_CFG"
  BY UserWidths DEF Followed, SetupRegs
<1> HIDE DEF reg
<1>3. ASSUME NEW i \in 1 .. 3
      PROVE  /\ q[i].op = "read" /\ q[i].from = << {Colour[i]} >> /\ q[i].reg = reg
             /\ q[i].slot = Colour[i] /\ q[i].skip = 0
  BY <1>1 DEF Read
<1>4. ASSUME to # {}, NEW i \in 1 .. 3
      PROVE  /\ q[3 + i].op = "write" /\ q[3 + i].to = {Colour[i]} /\ q[3 + i].reg = reg
             /\ q[3 + i].slot = Colour[i] /\ q[3 + i].set = {f}
             /\ q[3 + i].val[f] = vv[Colour[i]]
  <2>1. q[3 + i] = WriteBack({Colour[i]}, reg, Colour[i], f, vv[Colour[i]])
    BY <1>1, <1>4
  <2> QED
    BY <2>1 DEF WriteBack
<1>5. ASSUME NEW k \in 1 .. Len(q)
      PROVE  k \in 1 .. 3 \/ (to # {} /\ \E i \in 1 .. 3 : k = 3 + i)
  <2>1. CASE k <= 3
    BY <2>1
  <2>2. CASE ~ (k <= 3)
    <3>1. to # {} /\ Len(q) = 6
      BY <1>1, <2>2
    <3>2. k - 3 \in 1 .. 3 /\ k = 3 + (k - 3)
      BY <2>2, <3>1
    <3> QED
      BY <3>1, <3>2
  <2> QED
    BY <2>1, <2>2
<1>6. ASSUME NEW k \in 1 .. Len(q) PROVE q[k].op \in {"read", "write"} /\ SkipOf(q[k]) = 0
  BY <1>3, <1>4, <1>5 DEF SkipOf
<1>7. ASSUME to # {}, NEW i \in 1 .. 3 PROVE Feeds(q, i, 3 + i)
  <2> DEFINE k == 3 + i
  <2>1. Clear(q, k, i + 1)
    <3> SUFFICES ASSUME NEW m \in (i + 1) .. (k - 1)
                 PROVE  /\ ~ (q[m].op = "read" /\ q[m].slot = q[k].slot)
                        /\ ~ (q[m].op = "write" /\ q[m].reg = q[k].reg /\ q[m].to \cap q[k].to # {})
      BY DEF Clear
    <3>1. q[k].slot = Colour[i] /\ q[k].to = {Colour[i]}
      BY <1>4, <1>7
    <3>2. CASE m <= 3
      <4>1. m \in 1 .. 3 /\ m # i
        BY <3>2
      <4>2. q[m].op = "read" /\ q[m].slot = Colour[m]
        BY <1>3, <4>1
      <4> QED
        BY <3>1, <4>1, <4>2, Colours
    <3>3. CASE ~ (m <= 3)
      <4>1. m - 3 \in 1 .. 3 /\ m = 3 + (m - 3) /\ m - 3 # i
        BY <3>3
      <4>2. PICK j \in 1 .. 3 : m = 3 + j /\ j # i
        BY <4>1
      <4>3. q[m].op = "write" /\ q[m].to = {Colour[j]}
        BY <1>4, <1>7, <4>2
      <4> QED
        BY <3>1, <4>2, <4>3, Colours
    <3> QED
      BY <3>2, <3>3
  <2>2. /\ q[i].op = "read" /\ q[i].slot = Colour[i] /\ q[i].reg = reg
        /\ q[i].from = << {Colour[i]} >>
        /\ q[k].slot = Colour[i] /\ q[k].reg = reg /\ q[k].to = {Colour[i]}
    BY <1>3, <1>4, <1>7
  <2>3. Colour[i] \in Panel
    BY Colours
  <2> HIDE DEF k
  <2>4. Feeds(q, i, k)
    BY <1>2, <2>1, <2>2, <2>3 DEF Feeds
  <2> QED
    BY <2>4 DEF k
<1>8. ASSUME NEW g, NEW R, NEW ok PROVE JobOK(q, g, R, ok)
  <2>1. BacksOK(q, g, R, ok)
    <3> SUFFICES ASSUME NEW k \in 1 .. Len(q), Back(q[k])
                 PROVE  \E j \in 1 .. k - 1 : Feeds(q, j, k)
      BY DEF BacksOK
    <3>1. PICK i \in 1 .. 3 : to # {} /\ k = 3 + i
      <4>1. ~ (k \in 1 .. 3)
        BY <1>3 DEF Back
      <4> QED
        BY <1>5, <4>1
    <3>2. Feeds(q, i, k)
      BY <1>7, <3>1
    <3>3. i \in 1 .. k - 1
      BY <3>1
    <3> QED
      BY <3>2, <3>3
  <2>2. NoSkipOver(q)
    BY <1>6 DEF NoSkipOver
  <2>3. SensorOK(q, g, R, ok)
    BY <1>6 DEF SensorOK
  <2> QED
    BY <2>1, <2>2, <2>3 DEF JobOK
<1>9. ASSUME NEW k \in 1 .. Len(q), NEW p, NEW r, NEW x, Setter(q[k], p, r, x)
      PROVE  to # {} /\ r = reg /\ x = f /\ q[k].val[f] = vv[p] /\ p \in Panel
  <2>1. ~ (k \in 1 .. 3)
    BY <1>3, <1>9 DEF Setter
  <2>2. PICK i \in 1 .. 3 : to # {} /\ k = 3 + i
    BY <1>5, <2>1
  <2>3. /\ q[k].to = {Colour[i]} /\ q[k].reg = reg /\ q[k].set = {f} /\ q[k].val[f] = vv[Colour[i]]
    BY <1>4, <2>2
  <2>4. Colour[i] \in Panel
    BY Colours
  <2> QED
    BY <1>9, <2>2, <2>3, <2>4 DEF Setter
<1>10. ASSUME NEW p \in Panel PROVE SetsOnly(q, p, to, reg, {f}, OneField(f, vv[p]))
  <2>1. ASSUME NEW r, NEW x, NoSet(q, p, r, x), p \in to, r = reg, x \in {f} PROVE FALSE
    <3>1. PICK i \in 1 .. 3 : Colour[i] = p
      BY Colours
    <3>2. to # {} /\ 3 + i \in 1 .. Len(q)
      BY <1>1, <2>1
    <3>3. q[3 + i].op = "write" /\ q[3 + i].to = {p} /\ q[3 + i].reg = reg /\ q[3 + i].set = {f}
      BY <1>4, <3>1, <3>2
    <3> QED
      BY <2>1, <3>2, <3>3 DEF NoSet, Setter
  <2>2. ASSUME NEW r, NEW x, NEW v, LastSet(q, p, r, x, v)
        PROVE  p \in to /\ r = reg /\ x \in {f} /\ v = OneField(f, vv[p])[x]
    <3>1. PICK k \in 1 .. Len(q) : Setter(q[k], p, r, x) /\ q[k].val[x] = v
      BY <2>2 DEF LastSet
    <3>2. to # {} /\ r = reg /\ x = f /\ q[k].val[f] = vv[p]
      BY <1>9, <3>1
    <3> QED
      BY <3>1, <3>2, TargetFacts DEF OneField
  <2> QED
    BY <2>1, <2>2 DEF SetsOnly
<1> QED
  BY <1>1, <1>8, <1>10 DEF q, reg

(* flip_store.                                                             *)
LEMMA FlipOK ==
  ASSUME NEW pairs \in [1 .. 1 -> Pairs("flip")]
  PROVE  HandlerOK("flip", pairs, FlipStore(pairs[1].val))
<1> DEFINE pair == pairs[1]
           v == pair.val
           to == IF v > 1 THEN {} ELSE All
           f == "hi"
           vv == [p \in Panel |-> IF v > 1 THEN 0 ELSE 1 - v]
           q == FlipSteps(to, f, vv)
<1>1. pair \in Pairs("flip") /\ v \in {0, 1, 2}
  BY DEF Pairs, Inputs
<1>2. to \in {{}, All} /\ f \in Fields /\ \A p \in Panel : vv[p] \in 0 .. 1
  BY <1>1 DEF Fields
<1>3. /\ q \in Seq(GoodSteps) /\ \A g, R, ok : JobOK(q, g, R, ok)
      /\ \A p \in Panel : SetsOnly(q, p, to, "IMG_FLIP", {f}, OneField(f, vv[p]))
  <2> HIDE DEF to, f, vv
  <2> QED
    BY <1>2, FlipStepsOK
<1>4. ASSUME NEW p \in Panel
      PROVE  PairEffect("flip", pair, p) = IF p \in to THEN {<<"IMG_FLIP", f, vv[p]>>} ELSE {}
  <2>1. PairEffect("flip", pair, p) = Effect("flip", p, v)
    BY <1>1, ForAll DEF Switches
  <2>2. CASE v > 1
    <3>1. ~ (v < 2)
      BY <1>1, <2>2
    <3> QED
      BY <2>1, <2>2, <3>1 DEF Effect
  <2>3. CASE ~ (v > 1)
    <3>1. v < 2 /\ p \in All
      BY <1>1, <2>3, TargetFacts
    <3> QED
      BY <2>1, <2>3, <3>1 DEF Effect
  <2> QED
    BY <2>2, <2>3
<1>5. FlipStore(v) = q
  <2>1. ASSUME NEW S, S = {} \/ ~ (v > 1)
        PROVE  PerColour(S, LAMBDA p : << WriteBack({p}, "IMG_FLIP", p, f, 1 - v) >>)
                 = PerColour(S, LAMBDA p : << WriteBack({p}, "IMG_FLIP", p, f, vv[p]) >>)
    <3>1. \A i \in 1 .. 3 : Colour[i] \in S => vv[Colour[i]] = 1 - v
      BY <2>1, Colours
    <3>2. ASSUME NEW i \in 1 .. 3
          PROVE  (IF Colour[i] \in S THEN << WriteBack({Colour[i]}, "IMG_FLIP", Colour[i], f, 1 - v) >>
                                     ELSE << >>)
                 = (IF Colour[i] \in S
                    THEN << WriteBack({Colour[i]}, "IMG_FLIP", Colour[i], f, vv[Colour[i]]) >> ELSE << >>)
      <4> HIDE DEF vv, v
      <4> QED
        BY <3>1
    <3> HIDE DEF vv, v
    <3>3. [i \in 1 .. 3 |-> IF Colour[i] \in S
              THEN << WriteBack({Colour[i]}, "IMG_FLIP", Colour[i], f, 1 - v) >> ELSE << >>]
          = [i \in 1 .. 3 |-> IF Colour[i] \in S
              THEN << WriteBack({Colour[i]}, "IMG_FLIP", Colour[i], f, vv[Colour[i]]) >> ELSE << >>]
      BY <3>2
    <3> QED
      BY <3>3 DEF PerColour, Colour
  <2>2. to = {} \/ ~ (v > 1)
    OBVIOUS
  <2>3. FlipStore(v) = ReadFlips \o PerColour(to, LAMBDA p : << WriteBack({p}, "IMG_FLIP", p, f, 1 - v) >>)
    BY DEF FlipStore
  <2> HIDE DEF to, v, vv, f
  <2> QED
    BY <2>1, <2>2, <2>3 DEF FlipSteps, q
<1> HIDE DEF q, vv, to, f
<1>6. ASSUME NEW p \in Panel PROVE Answers(q, p, FinalEffect("flip", pairs, p))
  <2> DEFINE c == vv[p]
             reg == "IMG_FLIP"
  <2>1. SetsOnly(q, p, to, reg, {f}, OneField(f, c))
    BY <1>3
  <2>2. PairEffect("flip", pair, p) = IF p \in to THEN {<<reg, f, c>>} ELSE {}
    BY <1>4
  <2> HIDE DEF c, reg
  <2>3. Matches(PairEffect("flip", pair, p), p, to, reg, {f}, OneField(f, c))
    BY <2>2, OneMatch
  <2>4. Answers(q, p, PairEffect("flip", pair, p))
    BY <2>1, <2>3, MatchAnswers
  <2>5. FinalEffect("flip", pairs, p) = PairEffect("flip", pairs[1], p)
    BY SingleEffect
  <2> QED
    BY <2>4, <2>5
<1> QED
  BY <1>3, <1>5, <1>6 DEF HandlerOK

(* mirror_store, with green the other way round.                           *)
LEMMA MirrorOK ==
  ASSUME NEW pairs \in [1 .. 1 -> Pairs("mirror")]
  PROVE  HandlerOK("mirror", pairs, MirrorStore(pairs[1].val))
<1> DEFINE pair == pairs[1]
           v == pair.val
           to == IF v > 1 THEN {} ELSE All
           f == "lo"
           vv == [p \in Panel |-> IF v > 1 THEN 0 ELSE IF p = "G" THEN v ELSE 1 - v]
           q == FlipSteps(to, f, vv)
<1>1. pair \in Pairs("mirror") /\ v \in {0, 1, 2}
  BY DEF Pairs, Inputs
<1>2. to \in {{}, All} /\ f \in Fields /\ \A p \in Panel : vv[p] \in 0 .. 1
  BY <1>1 DEF Fields
<1>3. /\ q \in Seq(GoodSteps) /\ \A g, R, ok : JobOK(q, g, R, ok)
      /\ \A p \in Panel : SetsOnly(q, p, to, "IMG_FLIP", {f}, OneField(f, vv[p]))
  <2> HIDE DEF to, f, vv
  <2> QED
    BY <1>2, FlipStepsOK
<1>4. ASSUME NEW p \in Panel
      PROVE  PairEffect("mirror", pair, p) = IF p \in to THEN {<<"IMG_FLIP", f, vv[p]>>} ELSE {}
  <2>1. PairEffect("mirror", pair, p) = Effect("mirror", p, v)
    BY <1>1, ForAll DEF Switches
  <2>2. CASE v > 1
    <3>1. ~ (v < 2)
      BY <1>1, <2>2
    <3> QED
      BY <2>1, <2>2, <3>1 DEF Effect
  <2>3. CASE ~ (v > 1)
    <3>1. v < 2 /\ p \in All
      BY <1>1, <2>3, TargetFacts
    <3> QED
      BY <2>1, <2>3, <3>1 DEF Effect
  <2> QED
    BY <2>2, <2>3
<1>5. MirrorStore(v) = q
  <2>1. ASSUME NEW S, S = {} \/ ~ (v > 1)
        PROVE  PerColour(S, LAMBDA p : << WriteBack({p}, "IMG_FLIP", p, f, IF p = "G" THEN v ELSE 1 - v) >>)
                 = PerColour(S, LAMBDA p : << WriteBack({p}, "IMG_FLIP", p, f, vv[p]) >>)
    <3>1. \A i \in 1 .. 3 : Colour[i] \in S => vv[Colour[i]] = IF Colour[i] = "G" THEN v ELSE 1 - v
      BY <2>1, Colours
    <3>2. ASSUME NEW i \in 1 .. 3
          PROVE  (IF Colour[i] \in S THEN << WriteBack({Colour[i]}, "IMG_FLIP", Colour[i], f,
                    IF Colour[i] = "G" THEN v ELSE 1 - v) >>
                                     ELSE << >>)
                 = (IF Colour[i] \in S
                    THEN << WriteBack({Colour[i]}, "IMG_FLIP", Colour[i], f, vv[Colour[i]]) >> ELSE << >>)
      <4> HIDE DEF vv, v
      <4> QED
        BY <3>1
    <3> HIDE DEF vv, v
    <3>3. [i \in 1 .. 3 |-> IF Colour[i] \in S
              THEN << WriteBack({Colour[i]}, "IMG_FLIP", Colour[i], f,
                    IF Colour[i] = "G" THEN v ELSE 1 - v) >> ELSE << >>]
          = [i \in 1 .. 3 |-> IF Colour[i] \in S
              THEN << WriteBack({Colour[i]}, "IMG_FLIP", Colour[i], f, vv[Colour[i]]) >> ELSE << >>]
      BY <3>2
    <3> QED
      BY <3>3 DEF PerColour, Colour
  <2>2. to = {} \/ ~ (v > 1)
    OBVIOUS
  <2>3. MirrorStore(v) = ReadFlips \o PerColour(to, LAMBDA p :
           << WriteBack({p}, "IMG_FLIP", p, f, IF p = "G" THEN v ELSE 1 - v) >>)
    BY DEF MirrorStore
  <2> HIDE DEF to, v, vv, f
  <2> QED
    BY <2>1, <2>2, <2>3 DEF FlipSteps, q
<1> HIDE DEF q, vv, to, f
<1>6. ASSUME NEW p \in Panel PROVE Answers(q, p, FinalEffect("mirror", pairs, p))
  <2> DEFINE c == vv[p]
             reg == "IMG_FLIP"
  <2>1. SetsOnly(q, p, to, reg, {f}, OneField(f, c))
    BY <1>3
  <2>2. PairEffect("mirror", pair, p) = IF p \in to THEN {<<reg, f, c>>} ELSE {}
    BY <1>4
  <2> HIDE DEF c, reg
  <2>3. Matches(PairEffect("mirror", pair, p), p, to, reg, {f}, OneField(f, c))
    BY <2>2, OneMatch
  <2>4. Answers(q, p, PairEffect("mirror", pair, p))
    BY <2>1, <2>3, MatchAnswers
  <2>5. FinalEffect("mirror", pairs, p) = PairEffect("mirror", pairs[1], p)
    BY SingleEffect
  <2> QED
    BY <2>4, <2>5
<1> QED
  BY <1>3, <1>5, <1>6 DEF HandlerOK

(* q is list a and behind it list b, of lengths n and l.                   *)
Joined(q, a, b, n, l) ==
  /\ Len(q) = n + l
  /\ \A i \in 1 .. n : q[i] = a[i]
  /\ \A i \in 1 .. l : q[n + i] = b[i]

(* One list behind another.                                                *)
LEMMA Behind ==
  ASSUME NEW S, NEW a \in Seq(S), NEW b \in Seq(S), NEW n, n = Len(a), NEW l, l = Len(b)
  PROVE  a \o b \in Seq(S) /\ Joined(a \o b, a, b, n, l)
<1> DEFINE q == a \o b
<1>0. n \in Nat /\ l \in Nat
  OBVIOUS
<1>1. /\ q \in Seq(S) /\ Len(q) = n + l
      /\ \A i \in 1 .. n + l : q[i] = IF i <= n THEN a[i] ELSE b[i - n]
  BY ConcatProperties
<1> HIDE DEF q
<1>2. ASSUME NEW i \in 1 .. n PROVE q[i] = a[i]
  BY <1>0, <1>1
<1>3. ASSUME NEW i \in 1 .. l PROVE q[n + i] = b[i]
  <2>1. n + i \in 1 .. n + l /\ ~ (n + i <= n) /\ (n + i) - n = i
    BY <1>0
  <2> QED
    BY <1>1, <2>1
<1> QED
  BY <1>1, <1>2, <1>3 DEF q, Joined

(* luminance_store asks for the frame rate first and then only writes.     *)
LEMMA LuminanceOK ==
  ASSUME NEW N \in Nat \ {0}, NEW pairs \in [1 .. N -> Pairs("luminance")]
  PROVE  HandlerOK("luminance", pairs, LuminanceStore(pairs))
<1> DEFINE r == Read(<< {"R"} >>, "PL_CFG", "R", Reg(0, 0))
           w(pair) == WriteLum(pair.to, "R", pair.val)
           seqs == [i \in 1 .. N |-> << w(pairs[i]) >>]
           b == FlattenSeq(seqs)
           q == << r >> \o b
<1>1. LuminanceStore(pairs) = q
  BY DEF LuminanceStore, PerPair
<1>2. r \in GoodSteps
  <2> DEFINE from == << {"R"} >>
             reg == "PL_CFG"
             slot == "R"
             miss == Reg(0, 0)
  <2>1. from \in Seq(SUBSET Panel) /\ from # << >> /\ \A k \in 1 .. Len(from) : from[k] # {}
    BY DEF Panel
  <2>2. reg \in Regs /\ miss \in Values /\ Fits(reg, miss) /\ slot \in Panel
    BY Widths, ZeroFits DEF Panel
  <2> HIDE DEF from, reg, miss, slot
  <2>3. Read(from, reg, slot, miss) \in GoodSteps
    BY <2>1, <2>2, ReadGood
  <2> QED
    BY <2>3 DEF from, reg, miss, slot
<1>3. r.op = "read" /\ r.reg = "PL_CFG" /\ r.slot = "R" /\ r.from = << {"R"} >>
  BY DEF Read
<1>4. ASSUME NEW i \in 1 .. N
      PROVE  w(pairs[i]) \in GoodSteps /\ w(pairs[i]).op = "lum"
  <2> DEFINE to == pairs[i].to
             v == pairs[i].val
  <2>1. to \in SUBSET Panel /\ to # {} /\ v \in Nat
    BY TargetFacts DEF Pairs, Inputs
  <2> HIDE DEF to, v
  <2>2. WriteLum(to, "R", v) \in GoodSteps /\ WriteLum(to, "R", v).op = "lum"
    BY <2>1, WriteLumGood DEF WriteLum
  <2> QED
    BY <2>2 DEF to, v
<1> HIDE DEF r, w
<1>5. seqs \in [1 .. N -> Seq(GoodSteps)]
  <2>1. \A i \in 1 .. N : << w(pairs[i]) >> \in Seq(GoodSteps)
    BY <1>4
  <2> QED
    BY <2>1
<1>6. \A i \in 1 .. N : \A m \in 1 .. Len(seqs[i]) : seqs[i][m].op = "lum"
  <2> SUFFICES ASSUME NEW i \in 1 .. N, NEW m \in 1 .. Len(seqs[i]) PROVE seqs[i][m].op = "lum"
    OBVIOUS
  <2>1. seqs[i] = << w(pairs[i]) >>
    OBVIOUS
  <2>2. \A y : Len(<< y >>) = 1 /\ << y >>[1] = y
    OBVIOUS
  <2>3. m = 1 /\ seqs[i][1] = w(pairs[i])
    <3> HIDE DEF seqs
    <3>1. Len(seqs[i]) = 1
      BY <2>1, <2>2
    <3> QED
      BY <2>1, <2>2, <3>1
  <2> HIDE DEF seqs
  <2> QED
    BY <1>4, <2>3
<1> HIDE DEF seqs
<1>7. b \in Seq(GoodSteps) /\ \A k \in 1 .. Len(b) : b[k].op = "lum"
  <2>1. PICK c : IsFlat(seqs, N, b, c)
    BY <1>5, FlattenIsFlat
  <2>2. b \in Seq(GoodSteps)
    BY <1>5, FlattenIsFlat
  <2> HIDE DEF b
  <2>3. ASSUME NEW k \in 1 .. Len(b) PROVE b[k].op = "lum"
    <3>1. PICK i \in 1 .. N : \E m \in 1 .. Len(seqs[i]) : k = c[i] + m
      BY <2>1 DEF IsFlat
    <3>2. PICK m \in 1 .. Len(seqs[i]) : k = c[i] + m
      BY <3>1
    <3>3. b[k] = seqs[i][m]
      BY <2>1, <3>2 DEF IsFlat
    <3> QED
      BY <1>6, <3>3
  <2> QED
    BY <2>2, <2>3
<1> HIDE DEF b
<1>8. PICK l \in Nat : l = Len(b)
  BY <1>7
<1>9. q \in Seq(GoodSteps) /\ Len(q) = 1 + l /\ q[1] = r /\ \A i \in 1 .. l : q[1 + i] = b[i]
  <2> DEFINE a == << r >>
             n == 1
  <2>1. a \in Seq(GoodSteps) /\ Len(a) = n /\ n \in Nat /\ a[1] = r /\ 1 \in 1 .. n
    BY <1>2
  <2> HIDE DEF a, n
  <2>2. a \o b \in Seq(GoodSteps) /\ Joined(a \o b, a, b, n, l)
    <3>1. a \in Seq(GoodSteps) /\ b \in Seq(GoodSteps) /\ n = Len(a) /\ l = Len(b)
      BY <1>7, <1>8, <2>1
    <3> QED
      BY ONLY <3>1, Behind
  <2> QED
    BY <2>1, <2>2 DEF a, n, Joined
<1> HIDE DEF q
<1>10. ASSUME NEW k \in 2 .. Len(q) PROVE q[k].op = "lum"
  <2>1. k - 1 \in 1 .. l /\ 1 + (k - 1) = k
    BY <1>9
  <2> QED
    BY <1>7, <1>8, <1>9, <2>1
<1>11. \A k \in 1 .. Len(q) : q[k].op \in {"read", "lum"}
  <2>1. \A k \in 1 .. Len(q) : k = 1 \/ k \in 2 .. Len(q)
    BY <1>9
  <2> QED
    BY <1>3, <1>9, <1>10, <2>1
<1>12. ASSUME NEW g, NEW R, NEW ok PROVE JobOK(q, g, R, ok)
  BY <1>11 DEF JobOK, BacksOK, NoSkipOver, SensorOK, Back
<1>13. ASSUME NEW p \in Panel PROVE Answers(q, p, FinalEffect("luminance", pairs, p))
  <2>1. \A i \in 1 .. N : PairEffect("luminance", pairs[i], p) = {}
    <3> SUFFICES ASSUME NEW i \in 1 .. N PROVE PairEffect("luminance", pairs[i], p) = {}
      OBVIOUS
    <3>1. pairs[i].to # Delay
      BY TargetFacts DEF Pairs
    <3>2. Effect("luminance", p, pairs[i].val) = {}
      BY DEF Effect
    <3> QED
      BY <3>1, <3>2 DEF PairEffect
  <2> DEFINE attr == "luminance"
  <2>2. \A e : ~ (e \in FinalEffect(attr, pairs, p))
    <3>1. \A e : e \in FinalEffect(attr, pairs, p) =>
                   \E i \in 1 .. N : e \in PairEffect(attr, pairs[i], p)
      <4> HIDE DEF attr
      <4> QED
        BY FinalEffectIs
    <3> QED
      BY <2>1, <3>1
  <2> QED
    BY <1>11, <2>2 DEF Answers, LastSet, Setter
<1> QED
  BY <1>1, <1>9, <1>12, <1>13 DEF HandlerOK

(* Three lists of three steps.                                             *)
Nine(q, x, y, z) ==
  /\ Len(q) = 9
  /\ q[1] = x[1] /\ q[2] = y[1] /\ q[3] = z[1]
  /\ q[4] = x[2] /\ q[5] = y[2] /\ q[6] = z[2]
  /\ q[7] = x[3] /\ q[8] = y[3] /\ q[9] = z[3]

(* FlattenSeq lays them out like that.                                     *)
LEMMA NineSteps ==
  ASSUME NEW S, NEW seqs \in [1 .. 3 -> Seq(S)], NEW x, NEW y, NEW z,
         \A i \in 1 .. 3 : seqs[i] = << x[i], y[i], z[i] >>
  PROVE  FlattenSeq(seqs) \in Seq(S) /\ Nine(FlattenSeq(seqs), x, y, z)
<1> DEFINE q == FlattenSeq(seqs)
<1>1. ASSUME NEW i \in 1 .. 3
      PROVE  Len(seqs[i]) = 3 /\ seqs[i][1] = x[i] /\ seqs[i][2] = y[i] /\ seqs[i][3] = z[i]
  <2>1. \A a, b, c : Len(<< a, b, c >>) = 3 /\ << a, b, c >>[1] = a /\ << a, b, c >>[2] = b
                      /\ << a, b, c >>[3] = c
    OBVIOUS
  <2>2. seqs[i] = << x[i], y[i], z[i] >>
    OBVIOUS
  <2> QED
    BY ONLY <2>1, <2>2
<1>2. 1 \in 1 .. 3 /\ 2 \in 1 .. 3 /\ 3 \in 1 .. 3
  OBVIOUS
<1>3. /\ q \in Seq(S) /\ Len(q) = (Len(seqs[1]) + Len(seqs[2])) + Len(seqs[3])
      /\ \A m \in 1 .. Len(seqs[1]) : q[m] = seqs[1][m]
      /\ \A m \in 1 .. Len(seqs[2]) : q[Len(seqs[1]) + m] = seqs[2][m]
      /\ \A m \in 1 .. Len(seqs[3]) : q[(Len(seqs[1]) + Len(seqs[2])) + m] = seqs[3][m]
  BY FlattenThree
<1> HIDE DEF q
<1>4. Len(seqs[1]) = 3 /\ Len(seqs[2]) = 3 /\ Len(seqs[3]) = 3
  BY <1>1, <1>2
<1>5. /\ Len(q) = 9
      /\ \A m \in 1 .. 3 : q[m] = seqs[1][m]
      /\ \A m \in 1 .. 3 : q[3 + m] = seqs[2][m]
      /\ \A m \in 1 .. 3 : q[(3 + 3) + m] = seqs[3][m]
  BY ONLY <1>3, <1>4
<1>6. /\ q[1] = seqs[1][1] /\ q[2] = seqs[1][2] /\ q[3] = seqs[1][3]
      /\ q[4] = seqs[2][1] /\ q[5] = seqs[2][2] /\ q[6] = seqs[2][3]
      /\ q[7] = seqs[3][1] /\ q[8] = seqs[3][2] /\ q[9] = seqs[3][3]
  BY ONLY <1>5
<1>7. Nine(q, x, y, z)
  BY <1>1, <1>2, <1>5, <1>6 DEF Nine
<1> QED
  BY <1>3, <1>7 DEF q

(* temperature_show step by step.                                          *)
TempLaidOut(q, x, y, z, on, off) ==
  /\ Len(q) = 11
  /\ q[1] = on
  /\ q[2] = x[1] /\ q[3] = y[1] /\ q[4] = z[1]
  /\ q[5] = x[2] /\ q[6] = y[2] /\ q[7] = z[2]
  /\ q[8] = x[3] /\ q[9] = y[3] /\ q[10] = z[3]
  /\ q[11] = off

(* A first step, nine steps and a last one.                                *)
LEMMA TempLayout ==
  ASSUME NEW S, NEW b \in Seq(S), NEW x, NEW y, NEW z, Nine(b, x, y, z),
         NEW on \in S, NEW off \in S
  PROVE  /\ (<< on >> \o b) \o << off >> \in Seq(S)
         /\ TempLaidOut((<< on >> \o b) \o << off >>, x, y, z, on, off)
<1> DEFINE a == << on >>
           c == << off >>
           r == a \o b
           q == r \o c
<1>1. a \in Seq(S) /\ Len(a) = 1 /\ a[1] = on /\ c \in Seq(S) /\ Len(c) = 1 /\ c[1] = off
  OBVIOUS
<1> HIDE DEF a, c
<1>2. Len(b) = 9
  BY DEF Nine
<1>3. r \in Seq(S) /\ Joined(r, a, b, 1, 9)
  <2> DEFINE n == 1
             l == 9
  <2>1. a \in Seq(S) /\ b \in Seq(S) /\ n = Len(a) /\ l = Len(b)
    BY <1>1, <1>2
  <2> HIDE DEF n, l
  <2>2. a \o b \in Seq(S) /\ Joined(a \o b, a, b, n, l)
    BY ONLY <2>1, Behind
  <2> QED
    BY <2>2 DEF n, l
<1> HIDE DEF r
<1>4. q \in Seq(S) /\ Joined(q, r, c, 10, 1)
  <2> DEFINE n == 10
             l == 1
  <2>1. r \in Seq(S) /\ c \in Seq(S) /\ n = Len(r) /\ l = Len(c)
    BY <1>1, <1>3 DEF Joined
  <2> HIDE DEF n, l
  <2>2. r \o c \in Seq(S) /\ Joined(r \o c, r, c, n, l)
    BY ONLY <2>1, Behind
  <2> QED
    BY <2>2 DEF n, l
<1> HIDE DEF q
<1>5. Len(q) = 11 /\ (\A i \in 1 .. 10 : q[i] = r[i]) /\ q[11] = off
  <2>1. Len(q) = 10 + 1 /\ (\A i \in 1 .. 10 : q[i] = r[i]) /\ q[10 + 1] = c[1]
    <3>1. 1 \in 1 .. 1
      OBVIOUS
    <3> QED
      BY <1>4, <3>1 DEF Joined
  <2> QED
    BY <1>1, <2>1
<1>6. r[1] = on /\ \A i \in 1 .. 9 : r[1 + i] = b[i]
  <2>1. 1 \in 1 .. 1
    OBVIOUS
  <2> QED
    BY <1>1, <1>3, <2>1 DEF Joined
<1>7. /\ q[1] = on /\ q[2] = b[1] /\ q[3] = b[2] /\ q[4] = b[3] /\ q[5] = b[4] /\ q[6] = b[5]
      /\ q[7] = b[6] /\ q[8] = b[7] /\ q[9] = b[8] /\ q[10] = b[9]
  BY ONLY <1>5, <1>6
<1>8. TempLaidOut(q, x, y, z, on, off)
  BY <1>5, <1>7 DEF TempLaidOut, Nine
<1> QED
  BY <1>4, <1>8 DEF q, r, a, c

(* temperature_show has the sensors on until it has read them all.         *)
LEMMA TemperatureOK ==
  ASSUME NEW pairs \in [1 .. 1 -> Pairs("temperature")]
  PROVE  HandlerOK("temperature", pairs, TemperatureShow)
<1> DEFINE reg == "PVT_CTL"
           on == WriteReg(All, reg, Reg(3, 0))
           off == WriteReg(All, reg, Reg(0, 0))
           ask(p) == ReadOrSkip(<< {p} >>, reg, p, 2)
           get(p) == Read(<< {p} >>, "PVT_DATA", p, Reg(0, 0))
           x == [i \in 1 .. 3 |-> ask(Colour[i])]
           y == [i \in 1 .. 3 |-> Sensor(Colour[i])]
           z == [i \in 1 .. 3 |-> get(Colour[i])]
           seqs == [i \in 1 .. 3 |-> << x[i], y[i], z[i] >>]
           b == FlattenSeq(seqs)
           q == (<< on >> \o b) \o << off >>
<1>1. TemperatureShow = q
  <2>1. \A i \in 1 .. 3 : Colour[i] \in All
    BY Colours, TargetFacts
  <2>2. ASSUME NEW i \in 1 .. 3
        PROVE  (IF Colour[i] \in All THEN << ask(Colour[i]), Sensor(Colour[i]), get(Colour[i]) >>
                                     ELSE << >>)
               = << x[i], y[i], z[i] >>
    BY <2>1
  <2>3. seqs = [i \in 1 .. 3 |-> IF Colour[i] \in All
                                 THEN << ask(Colour[i]), Sensor(Colour[i]), get(Colour[i]) >>
                                 ELSE << >>]
    <3> HIDE DEF x, y, z, ask, get
    <3> QED
      BY <2>2
  <2>4. TemperatureShow =
          (<< on >> \o FlattenSeq([i \in 1 .. 3 |->
                         IF Colour[i] \in All
                         THEN << ask(Colour[i]), Sensor(Colour[i]), get(Colour[i]) >> ELSE << >>]))
          \o << off >>
    BY DEF TemperatureShow, ReadSensors, PerColour, Colour
  <2> HIDE DEF seqs, on, off, ask, get
  <2> QED
    BY <2>3, <2>4
<1>2. reg \in Followed /\ reg \in Regs /\ ~ (reg \in SetupRegs)
      /\ Width[reg].lo = 3 /\ Width[reg].hi = 0 /\ "PVT_DATA" \in Regs
  BY UserWidths, Widths DEF Followed, SetupRegs
<1>3. on \in GoodSteps /\ off \in GoodSteps
  <2>1. ASSUME NEW n \in Nat, n <= 3 PROVE WriteReg(All, reg, Reg(n, 0)) \in GoodSteps
    <3> DEFINE c == Reg(n, 0)
               to == All
    <3>1. c \in Values /\ Fits(reg, c)
      BY <1>2, <2>1, RegFits
    <3>2. to \in SUBSET Panel /\ to # {} /\ (reg = "PVT_CTL" => to = All)
      BY TargetFacts
    <3> HIDE DEF c, to, reg
    <3>3. WriteReg(to, reg, c) \in GoodSteps
      BY <1>2, <3>1, <3>2, WriteRegGood
    <3> QED
      BY <3>3 DEF c, to
  <2> QED
    BY <2>1
<1>4. ASSUME NEW p \in Panel PROVE ask(p) \in GoodSteps /\ get(p) \in GoodSteps
  <2> DEFINE from == << {p} >>
             n == 2
             data == "PVT_DATA"
             miss == Reg(0, 0)
  <2>1. from \in Seq(SUBSET Panel) /\ from # << >> /\ \A k \in 1 .. Len(from) : from[k] # {}
    OBVIOUS
  <2>2. n \in Nat /\ data \in Regs /\ miss \in Values /\ Fits(data, miss)
    BY <1>2, ZeroFits
  <2> HIDE DEF from, n, data, miss, reg
  <2>3. ReadOrSkip(from, reg, p, n) \in GoodSteps /\ Read(from, data, p, miss) \in GoodSteps
    BY <1>2, <2>1, <2>2, ReadOrSkipGood, ReadGood
  <2> QED
    BY <2>3 DEF from, n, data, miss
<1>5. ASSUME NEW i \in 1 .. 3
      PROVE  /\ x[i].op = "read" /\ x[i].reg = reg /\ x[i].slot = Colour[i]
             /\ x[i].from = << {Colour[i]} >>
             /\ y[i].op = "sensor" /\ y[i].slot = Colour[i]
             /\ z[i].op = "read"
  BY DEF ReadOrSkip, Sensor, Read
<1>6. seqs \in [1 .. 3 -> Seq(GoodSteps)]
  <2>1. \A i \in 1 .. 3 : x[i] \in GoodSteps /\ y[i] \in GoodSteps /\ z[i] \in GoodSteps
    <3> HIDE DEF ask, get
    <3> QED
      BY <1>4, Colours, SensorGood
  <2> HIDE DEF x, y, z
  <2>2. \A i \in 1 .. 3 : << x[i], y[i], z[i] >> \in Seq(GoodSteps)
    BY <2>1
  <2> QED
    BY <2>2
<1>7. b \in Seq(GoodSteps) /\ Nine(b, x, y, z)
  <2>1. \A i \in 1 .. 3 : seqs[i] = << x[i], y[i], z[i] >>
    OBVIOUS
  <2> HIDE DEF seqs, x, y, z
  <2> QED
    BY <1>6, <2>1, NineSteps
<1>8. /\ on.op = "write" /\ on.to = All /\ on.reg = reg /\ on.set = Fields /\ on.val["lo"] = 3
      /\ off.op = "write" /\ off.to = All /\ off.reg = reg /\ off.set = Fields /\ off.val = Reg(0, 0)
  BY DEF WriteReg, Reg, Fields
<1> HIDE DEF on, off, x, y, z, seqs, b
<1>9. q \in Seq(GoodSteps) /\ TempLaidOut(q, x, y, z, on, off)
  BY <1>3, <1>7, TempLayout
<1> HIDE DEF q, reg
<1>10. /\ Len(q) = 11
       /\ \A i \in 1 .. 11 : \/ i = 1 \/ i = 2 \/ i = 3 \/ i = 4 \/ i = 5 \/ i = 6
                             \/ i = 7 \/ i = 8 \/ i = 9 \/ i = 10 \/ i = 11
  BY <1>9 DEF TempLaidOut
<1>11. 1 \in 1 .. 3 /\ 2 \in 1 .. 3 /\ 3 \in 1 .. 3
  OBVIOUS
<1>12. q[1] = on /\ q[11] = off
  BY <1>9 DEF TempLaidOut
<1>13. ASSUME NEW k \in {2, 5, 8}
       PROVE  /\ q[k].op = "read" /\ q[k].reg = reg /\ q[k].slot = q[k + 1].slot
              /\ q[k].from = << {q[k + 1].slot} >> /\ q[k + 1].op = "sensor" /\ q[k + 2].op = "read"
  <2>1. /\ q[2] = x[1] /\ q[3] = y[1] /\ q[4] = z[1]
        /\ q[5] = x[2] /\ q[6] = y[2] /\ q[7] = z[2]
        /\ q[8] = x[3] /\ q[9] = y[3] /\ q[10] = z[3]
    BY <1>9 DEF TempLaidOut
  <2>2. \E i \in 1 .. 3 : q[k] = x[i] /\ q[k + 1] = y[i] /\ q[k + 2] = z[i]
    <3>1. CASE k = 2
      BY <1>11, <2>1, <3>1
    <3>2. CASE k = 5
      BY <1>11, <2>1, <3>2
    <3>3. CASE k = 8
      BY <1>11, <2>1, <3>3
    <3> QED
      BY <3>1, <3>2, <3>3
  <2> QED
    BY <1>5, <2>2
<1>14. ASSUME NEW k \in 1 .. 11
       PROVE  \/ k = 1 \/ k = 11
              \/ k \in {2, 5, 8} /\ q[k].op = "read"
              \/ k - 1 \in {2, 5, 8} /\ q[k].op = "sensor"
              \/ k - 2 \in {2, 5, 8} /\ q[k].op = "read"
  <2>1. k = 1 \/ k = 11 \/ k \in {2, 5, 8} \/ k - 1 \in {2, 5, 8} \/ k - 2 \in {2, 5, 8}
    BY <1>10
  <2>2. (k - 1) + 1 = k /\ (k - 2) + 2 = k
    OBVIOUS
  <2> QED
    BY <1>13, <2>1, <2>2
<1>15. ASSUME NEW k \in 1 .. 11
       PROVE  /\ q[k].op \in {"read", "sensor", "write"}
              /\ q[k].op = "write" => (k = 1 \/ k = 11) /\ q[k].set = Fields
              /\ q[k].op = "sensor" => k - 1 \in {2, 5, 8}
  BY <1>8, <1>12, <1>14
<1>16. ASSUME NEW g, NEW R, NEW ok PROVE JobOK(q, g, R, ok)
  <2>1. BacksOK(q, g, R, ok) /\ NoSkipOver(q)
    BY <1>10, <1>15 DEF BacksOK, NoSkipOver, Back
  <2>2. SensorOK(q, g, R, ok)
    <3> SUFFICES ASSUME NEW k \in 1 .. 11, q[k].op = "sensor"
                 PROVE  /\ IF k = 1
                           THEN g[q[1].slot].lo = 3
                           ELSE /\ q[k - 1].op = "read" /\ q[k - 1].reg = "PVT_CTL"
                                /\ q[k - 1].slot = q[k].slot
                                /\ q[k - 1].from = << {q[k].slot} >>
                        /\ q[1].op = "write" /\ q[1].reg = "PVT_CTL" /\ q[1].set = Fields
                        /\ q[1].to = All
                        /\ \A m \in 1 .. k - 1 :
                             q[m].op = "write" /\ q[m].reg = "PVT_CTL" =>
                               q[m].set = Fields /\ q[m].val["lo"] = 3
                        /\ \E m \in k + 1 .. 11 : q[m].op = "write" /\ q[m].to = All
      BY <1>10 DEF SensorOK
    <3>1. k - 1 \in {2, 5, 8} /\ (k - 1) + 1 = k
      BY <1>15
    <3>2. /\ q[k - 1].op = "read" /\ q[k - 1].reg = reg /\ q[k - 1].slot = q[k].slot
          /\ q[k - 1].from = << {q[k].slot} >>
      BY <1>13, <3>1
    <3>3. \A m \in 1 .. k - 1 : q[m].op = "write" => m = 1
      <4>1. \A m \in 1 .. k - 1 : m \in 1 .. 11 /\ m # 11
        BY <3>1
      <4> QED
        BY <1>15, <4>1
    <3>4. 11 \in k + 1 .. 11 /\ k # 1
      BY <3>1
    <3> QED
      BY <1>8, <1>12, <3>2, <3>3, <3>4 DEF reg
  <2> QED
    BY <2>1, <2>2 DEF JobOK
<1>17. ASSUME NEW p \in Panel PROVE Answers(q, p, FinalEffect("temperature", pairs, p))
  <2> DEFINE c == Reg(0, 0)
             attr == "temperature"
             pair == pairs[1]
             a == 0
  <2>1. SetsOnly(q, p, All, reg, Fields, c)
    <3>1. 11 \in 1 .. 11 /\ 11 + 1 .. 11 = {}
      OBVIOUS
    <3>2. ASSUME NEW r, NEW f, NoSet(q, p, r, f) PROVE ~ (p \in All /\ r = reg /\ f \in Fields)
      BY <1>8, <1>10, <1>12, <3>1, <3>2 DEF NoSet, Setter
    <3>3. ASSUME NEW r, NEW f, NEW v, LastSet(q, p, r, f, v)
          PROVE  p \in All /\ r = reg /\ f \in Fields /\ v = c[f]
      <4>1. PICK k \in 1 .. 11 : /\ Setter(q[k], p, r, f) /\ q[k].val[f] = v
                                 /\ \A m \in k + 1 .. 11 : ~ Setter(q[m], p, r, f)
        BY <1>10, <3>3 DEF LastSet
      <4>2. k = 1 \/ k = 11
        BY <1>15, <4>1 DEF Setter
      <4>3. p \in All /\ r = reg /\ f \in Fields
        BY <1>8, <1>12, <4>1, <4>2 DEF Setter
      <4>4. k = 11
        <5>1. Setter(q[11], p, r, f)
          BY <1>8, <1>12, <4>3 DEF Setter
        <5>2. 11 \in 1 + 1 .. 11
          OBVIOUS
        <5> QED
          BY <4>1, <4>2, <5>1, <5>2
      <4> QED
        BY <1>8, <1>12, <4>1, <4>3, <4>4
    <3> HIDE DEF c
    <3> QED
      BY <3>2, <3>3 DEF SetsOnly
  <2>2. PairEffect(attr, pair, p) = IF p \in All THEN {<<reg, "lo", a>>} ELSE {}
    <3>1. pair \in Pairs(attr)
      OBVIOUS
    <3>2. attr \in Switches /\ p \in All
      BY TargetFacts DEF Switches
    <3>3. PairEffect(attr, pair, p) = Effect(attr, p, pair.val)
      <4> HIDE DEF attr, pair
      <4> QED
        BY <3>1, <3>2, ForAll
    <3> QED
      BY <3>2, <3>3 DEF Effect, reg
  <2> DEFINE to == All
  <2> HIDE DEF attr, pair, a, to
  <2>3. Matches(PairEffect(attr, pair, p), p, to, reg, Fields, Reg(a, 0))
    BY <1>2, <2>2, LowMatch DEF to
  <2> HIDE DEF c
  <2>4. Reg(a, 0) = c
    BY DEF a, c
  <2>5. Answers(q, p, PairEffect(attr, pair, p))
    <3>1. SetsOnly(q, p, to, reg, Fields, c) /\ Matches(PairEffect(attr, pair, p), p, to, reg, Fields, c)
      BY <2>1, <2>3, <2>4 DEF to
    <3> QED
      BY <3>1, MatchAnswers
  <2>6. FinalEffect(attr, pairs, p) = PairEffect(attr, pairs[1], p)
    BY SingleEffect
  <2> QED
    BY <2>5, <2>6 DEF pair, attr
<1> QED
  BY <1>1, <1>9, <1>16, <1>17 DEF HandlerOK

(* An argument is one pair for a switch, one or more for the others.       *)
LEMMA Argument ==
  ASSUME StateOK, NEW attr, NEW pairs \in Arguments(attr)
  PROVE  \E n \in Nat \ {0} : /\ pairs \in [1 .. n -> Pairs(attr)] /\ Len(pairs) = n
                              /\ attr \in Switches => n = 1
<1>1. plan.pairs \in Nat \ {0}
  BY AttrsAssumption DEF StateOK
<1>2. PICK n \in 1 .. IF attr \in Switches THEN 1 ELSE plan.pairs :
        pairs \in [1 .. n -> [to : Targets(attr), val : Inputs(attr)]]
  BY DEF Arguments
<1>3. n \in Nat \ {0} /\ (attr \in Switches => n = 1)
  BY <1>1, <1>2
<1>4. pairs \in [1 .. n -> Pairs(attr)]
  BY <1>2 DEF Pairs
<1>5. Len(pairs) = n
  BY <1>3, <1>4
<1> QED
  BY <1>3, <1>4, <1>5

(* Every handler is as the invariant needs it.                             *)
LEMMA StepsOK ==
  ASSUME StateOK, NEW attr \in AttrNames, NEW pairs \in Arguments(attr), NEW plain \in BOOLEAN,
         plain => MayBePlain(pairs)
  PROVE  HandlerOK(attr, pairs, Steps(attr, pairs, plain))
<1>1. PICK n \in Nat \ {0} : /\ pairs \in [1 .. n -> Pairs(attr)] /\ Len(pairs) = n
                             /\ attr \in Switches => n = 1
  BY Argument
<1>2. attr \in Switches => pairs \in [1 .. 1 -> Pairs(attr)]
  BY <1>1
<1>3. plain => pairs \in [1 .. 1 -> Pairs(attr)] /\ pairs[1].to = All
  BY <1>1 DEF MayBePlain
<1>4. CASE attr = "luminance"
  <2>1. Steps(attr, pairs, plain) = LuminanceStore(pairs)
    BY <1>4 DEF Steps
  <2> QED
    BY <1>1, <1>4, <2>1, LuminanceOK
<1>5. CASE attr = "temperature"
  <2>1. Steps(attr, pairs, plain) = TemperatureShow
    BY <1>5 DEF Steps
  <2> QED
    BY <1>2, <1>5, <2>1, TemperatureOK DEF Switches
<1>6. CASE attr = "flip"
  <2>1. Steps(attr, pairs, plain) = FlipStore(pairs[1].val)
    BY <1>6 DEF Steps
  <2> QED
    BY <1>2, <1>6, <2>1, FlipOK DEF Switches
<1>7. CASE attr = "mirror"
  <2>1. Steps(attr, pairs, plain) = MirrorStore(pairs[1].val)
    BY <1>7 DEF Steps
  <2> QED
    BY <1>2, <1>7, <2>1, MirrorOK DEF Switches
<1>8. CASE attr = "fps"
  <2>1. Steps(attr, pairs, plain) = FpsStore(pairs[1].val)
    BY <1>8 DEF Steps
  <2> QED
    BY <1>2, <1>8, <2>1, FpsOK DEF Switches
<1>9. CASE attr = "pl_osc_trim_en"
  <2>1. Steps(attr, pairs, plain) = OscTrimEnStore(pairs[1].val)
    BY <1>9 DEF Steps
  <2> QED
    BY <1>2, <1>9, <2>1, OscTrimEnOK DEF Switches
<1>10. CASE attr = "pl_osc_trim"
  <2>1. CASE plain
    <3>1. Steps(attr, pairs, plain) = OscTrimStoreAll(pairs[1].val)
      BY <1>10, <2>1 DEF Steps
    <3> QED
      BY <1>3, <1>10, <2>1, <3>1, OscTrimAllOK
  <2>2. CASE ~ plain
    <3>1. Steps(attr, pairs, plain) = OscTrimStore(pairs)
      BY <1>10, <2>2 DEF Steps
    <3> QED
      BY <1>1, <1>10, <3>1, PairHandlers
  <2> QED
    BY <2>1, <2>2
<1>11. CASE attr = "current"
  <2>1. Steps(attr, pairs, plain) = CurrentStore(pairs)
    BY <1>11 DEF Steps
  <2> QED
    BY <1>1, <1>11, <2>1, PairHandlers
<1>12. CASE attr = "offset"
  <2>1. Steps(attr, pairs, plain) = OffsetStore(pairs)
    BY <1>12 DEF Steps
  <2> QED
    BY <1>1, <1>12, <2>1, PairHandlers
<1>13. CASE attr = "demura_en"
  <2>1. Steps(attr, pairs, plain) = DemuraEnStore(pairs)
    BY <1>13 DEF Steps
  <2> QED
    BY <1>1, <1>13, <2>1, PairHandlers
<1>14. CASE attr = "demura_remap"
  <2>1. Steps(attr, pairs, plain) = DemuraRemapStore(pairs)
    BY <1>14 DEF Steps
  <2> QED
    BY <1>1, <1>14, <2>1, PairHandlers
<1>15. CASE attr = "demura_dsc"
  <2>1. Steps(attr, pairs, plain) = DemuraDscStore(pairs)
    BY <1>15 DEF Steps
  <2> QED
    BY <1>1, <1>15, <2>1, PairHandlers
<1>16. CASE attr = "demura_seg_th"
  <2>1. Steps(attr, pairs, plain) = DemuraSegThStore(pairs)
    BY <1>16 DEF Steps
  <2> QED
    BY <1>1, <1>16, <2>1, PairHandlers
<1> QED
  BY <1>4, <1>5, <1>6, <1>7, <1>8, <1>9, <1>10, <1>11, <1>12, <1>13, <1>14, <1>15, <1>16
  DEF AttrNames

-----------------------------------------------------------------------------
(* A handler is entered.                                                   *)

(* Users of the attributes keep to one of the two disciplines.             *)
UsersKeepApart == \A s \in Scenarios : s.discipline # "none"

(* A discipline keeps a new handler off the panels of the others.          *)
LEMMA NewApart ==
  ASSUME UsersKeepApart, StateOK, NEW t \in Threads, NEW steps, MayStart(t, steps),
         NEW u \in Threads, u # t
  PROVE  PanelsOf(steps) \cap PanelsOf(job[u]) = {}
<1>1. plan.discipline = "colours" \/ plan.discipline = "serial"
  BY AttrsAssumption DEF StateOK, UsersKeepApart
<1>2. CASE plan.discipline = "colours"
  BY <1>2 DEF MayStart, Touched
<1>3. CASE plan.discipline = "serial"
  <2>1. job[u] = << >>
    BY <1>3 DEF MayStart
  <2>2. PanelsOf(<< >>) = {}
    BY DEF PanelsOf
  <2> QED
    BY <2>1, <2>2
<1> QED
  BY <1>1, <1>2, <1>3

(* A handler is entered: it is on panels of its own, with a list as above. *)
LEMMA StartKeeps ==
  ASSUME UsersKeepApart, AttrInv, NEW t \in Threads, Start(t)
  PROVE  AttrInv'
<1>1. PICK attr \in plan.attrs : \E pairs \in Arguments(attr), plain \in BOOLEAN :
             /\ plain => MayBePlain(pairs)
             /\ MayStart(t, Steps(attr, pairs, plain))
             /\ job' = [job EXCEPT ![t] = Steps(attr, pairs, plain)]
  BY DEF Start
<1>2. PICK pairs \in Arguments(attr), plain \in BOOLEAN :
             /\ plain => MayBePlain(pairs)
             /\ MayStart(t, Steps(attr, pairs, plain))
             /\ job' = [job EXCEPT ![t] = Steps(attr, pairs, plain)]
  BY <1>1
<1> DEFINE steps == Steps(attr, pairs, plain)
<1>3. StateOK /\ SentIsRead /\ Apart /\ ReadsOwnRegister /\ SetupSurvives /\ JobsOK
  BY DEF AttrInv
<1>4. attr \in AttrNames
  BY <1>3, AttrsAssumption DEF StateOK
<1>5. steps \in Seq(GoodSteps) /\ \A g, R, ok : JobOK(steps, g, R, ok)
  BY <1>2, <1>3, <1>4, StepsOK DEF HandlerOK
<1> HIDE DEF steps
<1>6. job[t] = << >> /\ UNCHANGED <<plan, regs, ptr, faults, sent, got>>
  BY DEF Start
<1>7. job' \in [Threads -> Seq(GoodSteps)] /\ job'[t] = steps
      /\ \A u \in Threads : u # t => job'[u] = job[u]
  BY <1>2, <1>3, <1>5 DEF StateOK, steps
<1>8. ~ sent[t]
  BY <1>3, <1>6 DEF SentIsRead, At
<1>9. StateOK'
  BY <1>3, <1>6, <1>7 DEF StateOK
<1>10. SentIsRead'
  BY <1>3, <1>6, <1>7, <1>8 DEF SentIsRead, At
<1>11. Apart'
  <2>1. \A u \in Threads : u # t => PanelsOf(steps) \cap PanelsOf(job[u]) = {}
    BY <1>2, <1>3, NewApart DEF steps
  <2>2. SUFFICES ASSUME NEW u \in Threads, NEW v \in Threads, u # v
                 PROVE  PanelsOf(job'[u]) \cap PanelsOf(job'[v]) = {}
    BY DEF Apart, PanelsOf
  <2>3. CASE u = t
    BY <1>7, <2>1, <2>2, <2>3
  <2>4. CASE v = t
    BY <1>7, <2>1, <2>2, <2>4
  <2>5. CASE u # t /\ v # t
    BY <1>3, <1>7, <2>2, <2>5 DEF Apart
  <2> QED
    BY <2>3, <2>4, <2>5
<1>12. ReadsOwnRegister' /\ SetupSurvives'
  BY <1>3, <1>6, <1>7, <1>8 DEF ReadsOwnRegister, SetupSurvives
<1>13. JobsOK'
  <2> SUFFICES ASSUME NEW u \in Threads
               PROVE  JobOK(job'[u], got'[u], regs', faults' = 0)
    BY DEF JobsOK, JobOK, BacksOK, NoSkipOver, SensorOK, Held, Feeds, Clear, Fits, Back, SkipOf
  <2>1. CASE u = t
    BY <1>5, <1>7, <2>1
  <2>2. CASE u # t
    BY <1>3, <1>6, <1>7, <2>2 DEF JobsOK
  <2> QED
    BY <2>1, <2>2
<1> QED
  BY <1>9, <1>10, <1>11, <1>12, <1>13 DEF AttrInv

-----------------------------------------------------------------------------
(* The theorems.                                                           *)

(* Every step keeps the inductive invariant.                               *)
LEMMA NextKeeps ==
  ASSUME UsersKeepApart, AttrInv, [Next]_vars
  PROVE  AttrInv'
<1>1. CASE UNCHANGED vars
  BY <1>1 DEF vars, AttrInv, StateOK, SentIsRead, At, Apart, ReadsOwnRegister, SetupSurvives, JobsOK
<1>2. CASE Next
  <2>1. PICK t \in Threads : \/ Start(t) \/ SendAddress(t) \/ Fetch(t) \/ ReadFails(t)
                             \/ Write(t) \/ WriteLuminance(t) \/ AskSensor(t)
    BY <1>2 DEF Next
  <2>2. CASE Start(t)
    BY <2>2, StartKeeps
  <2>3. CASE SendAddress(t)
    BY <2>3, SendAddressKeeps
  <2>4. CASE Fetch(t)
    BY <2>4, FetchKeeps
  <2>5. CASE ReadFails(t)
    BY <2>5, ReadFailsKeeps
  <2>6. CASE Write(t)
    BY <2>6, WriteKeeps
  <2>7. CASE WriteLuminance(t)
    BY <2>7, WriteLuminanceKeeps
  <2>8. CASE AskSensor(t)
    BY <2>8, AskSensorKeeps
  <2> QED
    BY <2>1, <2>2, <2>3, <2>4, <2>5, <2>6, <2>7, <2>8
<1> QED
  BY <1>1, <1>2

(* The inductive invariant holds throughout.                               *)
THEOREM AttrInvCorrect == ASSUME UsersKeepApart PROVE Spec => []AttrInv
<1>1. Init => AttrInv
  BY InitKeeps
<1>2. AttrInv /\ [Next]_vars => AttrInv'
  BY NextKeeps
<1> QED
  BY <1>1, <1>2, PTL DEF Spec

(* Type correctness: no field of a register ever holds more than it has    *)
(* room for, whatever the users of the attributes write.                   *)
THEOREM AttrTypeCorrect == ASSUME UsersKeepApart PROVE Spec => []AttrTypeOK
<1>1. AttrInv => AttrTypeOK
  <2> SUFFICES ASSUME AttrInv PROVE AttrTypeOK
    OBVIOUS
  <2>1. StateOK /\ SentIsRead
    BY DEF AttrInv
  <2>2. \A p \in Panel, r \in Regs : \A f \in {"lo", "hi"} : regs[p][r][f] \in 0 .. Width[r][f]
    BY <2>1 DEF StateOK, Fits, Fields
  <2> QED
    BY <2>1, <2>2 DEF StateOK, SentIsRead, AttrTypeOK
<1> QED
  BY <1>1, AttrInvCorrect, PTL

(* fps_store and the two oscillator trim handlers keep the other fields of *)
(* their registers, whatever transfer fails.                               *)
THEOREM SetupSurvivesCorrect == ASSUME UsersKeepApart PROVE Spec => []SetupSurvives
<1>1. AttrInv => SetupSurvives
  BY DEF AttrInv
<1> QED
  BY <1>1, AttrInvCorrect, PTL

-----------------------------------------------------------------------------
(* What was asked for.  J is job, R is regs and W is want.                 *)

(* What a handler has still to set it sets last to a value that was asked  *)
(* for; what no handler has still to set has such a value.                 *)
Follows(J, R, W, p, r, f) ==
  /\ \A t \in Threads : \A v : LastSet(J[t], p, r, f, v) => v \in W[p][r][f]
  /\ (\A t \in Threads : NoSet(J[t], p, r, f)) => R[p][r][f] \in W[p][r][f]

(* A field without room may rest at 0, the only value that it can have.    *)
WantOK(J, R, W) ==
  \A p \in Panel, r \in Followed, f \in Fields :
    IF Width[r][f] = 0 THEN 0 \in W[p][r][f] ELSE Follows(J, R, W, p, r, f)

WantInv == faults = 0 => WantOK(job, regs, want)

(* What the rest of a list sets, the list sets last; its head sets what    *)
(* the rest does not.                                                      *)
LEMMA RestSets ==
  ASSUME NEW q \in Seq(GoodSteps), q # << >>, NEW p, NEW r, NEW f
  PROVE  /\ \A v : LastSet(RestOf(q, 0), p, r, f, v) => LastSet(q, p, r, f, v)
         /\ NoSet(RestOf(q, 0), p, r, f) =>
              IF Setter(q[1], p, r, f) THEN LastSet(q, p, r, f, q[1].val[f]) ELSE NoSet(q, p, r, f)
<1> DEFINE rest == RestOf(q, 0)
<1>1. PICK len \in Nat \ {0} : len = Len(q)
  BY HeadIsFirst
<1>2. Len(rest) = len - 1 /\ \A i \in 1 .. len - 1 : rest[i] = q[i + 1]
  <2> DEFINE n == 0
  <2>1. n \in Nat
    OBVIOUS
  <2> HIDE DEF n
  <2>2. /\ Len(RestOf(q, n)) = IF 2 + n <= Len(q) THEN Len(q) - (1 + n) ELSE 0
        /\ \A i \in 1 .. Len(RestOf(q, n)) :
             RestOf(q, n)[i] = q[i + 1 + n] /\ i + 1 + n \in 1 .. Len(q)
    BY <2>1, RestFacts
  <2>3. n = 0 /\ rest = RestOf(q, n)
    BY DEF n
  <2> HIDE DEF rest
  <2>4. /\ Len(rest) = IF 2 + 0 <= len THEN len - (1 + 0) ELSE 0
        /\ \A i \in 1 .. Len(rest) : rest[i] = q[i + 1 + 0]
    BY ONLY <1>1, <2>2, <2>3
  <2>5. Len(rest) = len - 1
    BY ONLY <2>4, len \in Nat \ {0}
  <2>6. ASSUME NEW i \in 1 .. len - 1 PROVE rest[i] = q[i + 1]
    <3>1. i + 1 + 0 = i + 1 /\ i \in 1 .. Len(rest)
      BY <2>5
    <3> QED
      BY <2>4, <3>1
  <2> QED
    BY <2>5, <2>6
<1> HIDE DEF rest
<1>3. ASSUME NEW v, LastSet(rest, p, r, f, v) PROVE LastSet(q, p, r, f, v)
  <2>1. PICK k \in 1 .. len - 1 : /\ Setter(rest[k], p, r, f) /\ rest[k].val[f] = v
                                  /\ \A m \in k + 1 .. len - 1 : ~ Setter(rest[m], p, r, f)
    BY <1>2, <1>3 DEF LastSet
  <2>2. k + 1 \in 1 .. len /\ q[k + 1] = rest[k]
    BY <1>2
  <2>3. ASSUME NEW m \in (k + 1) + 1 .. len PROVE ~ Setter(q[m], p, r, f)
    <3>1. m - 1 \in k + 1 .. len - 1 /\ m - 1 \in 1 .. len - 1 /\ (m - 1) + 1 = m
      OBVIOUS
    <3> QED
      BY <1>2, <2>1, <3>1
  <2> QED
    BY <1>1, <2>1, <2>2, <2>3 DEF LastSet
<1>4. ASSUME NoSet(rest, p, r, f), NEW m \in 2 .. len PROVE ~ Setter(q[m], p, r, f)
  <2>1. m - 1 \in 1 .. len - 1 /\ (m - 1) + 1 = m
    OBVIOUS
  <2> QED
    BY <1>2, <1>4, <2>1 DEF NoSet
<1>5. 1 \in 1 .. len /\ 1 + 1 .. len = 2 .. len /\ \A m \in 1 .. len : m = 1 \/ m \in 2 .. len
  OBVIOUS
<1> QED
  BY <1>1, <1>3, <1>4, <1>5 DEF NoSet, LastSet, rest

(* A thread's head step is taken.                                          *)
LEMMA WantAfterHead ==
  ASSUME NEW J, NEW K, NEW R, NEW Q, NEW W, NEW t \in Threads,
         J[t] \in Seq(GoodSteps), J[t] # << >>,
         K[t] = RestOf(J[t], 0), \A u \in Threads : u # t => K[u] = J[u],
         WantOK(J, R, W),
         \A p \in Panel, r \in Followed, f \in Fields :
           Q[p][r][f] = IF Setter(J[t][1], p, r, f) THEN J[t][1].val[f] ELSE R[p][r][f]
  PROVE  WantOK(K, Q, W)
<1> SUFFICES ASSUME NEW p \in Panel, NEW r \in Followed, NEW f \in Fields, Width[r][f] # 0
             PROVE  Follows(K, Q, W, p, r, f)
  BY DEF WantOK
<1>1. Follows(J, R, W, p, r, f)
  BY DEF WantOK
<1>2. /\ \A v : LastSet(K[t], p, r, f, v) => LastSet(J[t], p, r, f, v)
      /\ NoSet(K[t], p, r, f) =>
           IF Setter(J[t][1], p, r, f) THEN LastSet(J[t], p, r, f, J[t][1].val[f])
                                       ELSE NoSet(J[t], p, r, f)
  BY RestSets
<1>3. ASSUME NEW u \in Threads, NEW v, LastSet(K[u], p, r, f, v) PROVE v \in W[p][r][f]
  BY <1>1, <1>2, <1>3 DEF Follows
<1>4. ASSUME \A u \in Threads : NoSet(K[u], p, r, f) PROVE Q[p][r][f] \in W[p][r][f]
  <2>1. Q[p][r][f] = IF Setter(J[t][1], p, r, f) THEN J[t][1].val[f] ELSE R[p][r][f]
    OBVIOUS
  <2>2. CASE Setter(J[t][1], p, r, f)
    BY <1>1, <1>2, <1>4, <2>1, <2>2 DEF Follows
  <2>3. CASE ~ Setter(J[t][1], p, r, f)
    <3>1. \A u \in Threads : NoSet(J[u], p, r, f)
      BY <1>2, <1>4, <2>3
    <3> QED
      BY <1>1, <2>1, <2>3, <3>1 DEF Follows
  <2> QED
    BY <2>2, <2>3
<1> QED
  BY <1>3, <1>4 DEF Follows

(* A step that does not write a followed register.                         *)
LEMMA QuietStepWants ==
  ASSUME AttrInv, WantInv, NEW t \in Threads, job[t] # << >>, job[t][1].op # "write",
         job' = [job EXCEPT ![t] = RestOf(job[t], 0)],
         \A p \in Panel, r \in Followed : regs'[p][r] = regs[p][r],
         want' = want, faults' = faults
  PROVE  WantInv'
<1> SUFFICES ASSUME faults = 0 PROVE WantOK(job', regs', want)
  BY DEF WantInv, WantOK, Follows, NoSet, LastSet
<1> DEFINE J == job
           K == job'
           R == regs
           Q == regs'
<1>1. J \in [Threads -> Seq(GoodSteps)] /\ J[t] \in Seq(GoodSteps)
  BY DEF AttrInv, StateOK
<1>2. K = [J EXCEPT ![t] = RestOf(J[t], 0)]
  OBVIOUS
<1>3. K[t] = RestOf(J[t], 0) /\ \A u \in Threads : u # t => K[u] = J[u]
  BY <1>1, <1>2
<1>4. WantOK(J, R, want)
  BY DEF WantInv
<1>5. \A p \in Panel, r \in Followed, f \in Fields :
        Q[p][r][f] = IF Setter(J[t][1], p, r, f) THEN J[t][1].val[f] ELSE R[p][r][f]
  BY DEF Setter
<1>6. J[t] # << >>
  OBVIOUS
<1> HIDE DEF J, K, R, Q
<1>7. WantOK(K, Q, want)
  BY ONLY t \in Threads, <1>1, <1>3, <1>4, <1>5, <1>6, WantAfterHead
<1> QED
  BY <1>7 DEF K, Q

(* A write that does not fail.                                             *)
LEMMA WriteWants ==
  ASSUME AttrInv, WantInv, NEW t \in Threads, Write(t)
  PROVE  WantInv'
<1> SUFFICES ASSUME faults' = 0 PROVE WantOK(job', regs', want')
  BY DEF WantInv, WantOK, Follows, NoSet, LastSet
<1> DEFINE J == job
           K == job'
           R == regs
           Q == regs'
           s == J[t][1]
           g == got[t][s.slot]
           val == [f \in {"lo", "hi"} |-> IF f \in s.set THEN s.val[f] ELSE g[f]]
<1>1. J \in [Threads -> Seq(GoodSteps)] /\ J[t] \in Seq(GoodSteps) /\ faults \in Nat
      /\ R \in [Panel -> [Regs -> Values]] /\ SetupIn(R)
  BY SetupIsIn, PlanFacts DEF AttrInv, StateOK
<1>2. J[t] # << >> /\ Head(J[t]).op = "write"
  BY DEF Write, At
<1>3. /\ Head(J[t]) = s /\ s \in GoodSteps /\ s.op = "write"
      /\ 1 \in 1 .. Len(J[t]) /\ JobOK(J[t], got[t], R, faults = 0)
  BY <1>2, AtFacts
<1>4. /\ s.reg \in Followed /\ s.set \in {{"lo"}, {"hi"}, Fields}
      /\ (s.reg \in SetupRegs => s.set = {"lo"})
  BY <1>3, StepFacts DEF StepOK
<1>5. /\ \/ WriteRegs(s.to, s.reg, val) /\ faults' = faults
         \/ faults' = faults + 1
      /\ Continue(t, 0, got[t]) /\ want' = want
  BY <1>3 DEF Write, Fault
<1>6. faults = 0 /\ WriteRegs(s.to, s.reg, val)
  BY <1>1, <1>5
<1>7. WantOK(J, R, want)
  BY <1>6 DEF WantInv
<1>8. K = [J EXCEPT ![t] = RestOf(J[t], 0)]
  BY <1>5 DEF Continue, RestOf
<1>9. K[t] = RestOf(J[t], 0) /\ \A u \in Threads : u # t => K[u] = J[u]
  BY <1>1, <1>8
<1>10. s.set # Fields => Held(J[t], 1, got[t], R, TRUE)
  <2>1. 1 .. 1 - 1 = {}
    OBVIOUS
  <2> QED
    BY <1>3, <1>6, <2>1 DEF JobOK, BacksOK, Back
<1>11. Q = [p \in Panel |-> IF p \in s.to THEN [R[p] EXCEPT ![s.reg] = val] ELSE R[p]]
  BY <1>6 DEF WriteRegs
<1>12. \A f \in Fields : val[f] = IF f \in s.set THEN s.val[f] ELSE g[f]
  BY DEF Fields
<1> HIDE DEF J, K, R, Q, val
<1>13. ASSUME NEW p \in Panel, NEW r \in Followed, NEW f \in Fields
       PROVE  Q[p][r][f] = IF Setter(s, p, r, f) THEN s.val[f] ELSE R[p][r][f]
  <2>1. r \in Regs /\ R[p] \in [Regs -> Values]
    BY <1>1 DEF Followed
  <2>2. Q[p][r] = IF p \in s.to /\ r = s.reg THEN val ELSE R[p][r]
    BY <1>11, <2>1
  <2>3. CASE ~ (p \in s.to /\ r = s.reg)
    BY <2>2, <2>3 DEF Setter
  <2>4. CASE p \in s.to /\ r = s.reg /\ f \in s.set
    BY <1>3, <1>12, <2>2, <2>4 DEF Setter
  <2>5. CASE p \in s.to /\ r = s.reg /\ ~ (f \in s.set)
    <3>1. ~ Setter(s, p, r, f) /\ Q[p][r][f] = g[f]
      BY <1>12, <2>2, <2>5 DEF Setter
    <3>2. Held(J[t], 1, got[t], R, TRUE)
      BY <1>10, <2>5
    <3>3. CASE r \in SetupRegs
      <4>1. f = "hi"
        BY <1>4, <2>5, <3>3 DEF Fields
      <4>2. g.hi = SetupHi(r)
        BY <2>5, <3>2, <3>3 DEF Held
      <4>3. R[p][r].hi = SetupHi(r)
        BY <1>1, <3>3 DEF SetupIn
      <4> QED
        BY <3>1, <4>1, <4>2, <4>3
    <3>4. CASE ~ (r \in SetupRegs)
      <4>1. R[p][r] = g
        BY <2>5, <3>2, <3>4 DEF Held
      <4> QED
        BY <3>1, <4>1
    <3> QED
      BY <3>3, <3>4
  <2> QED
    BY <2>3, <2>4, <2>5
<1>14. \A p \in Panel, r \in Followed, f \in Fields :
         Q[p][r][f] = IF Setter(J[t][1], p, r, f) THEN J[t][1].val[f] ELSE R[p][r][f]
  BY <1>13
<1>15. J[t] # << >>
  BY <1>2
<1> HIDE DEF s, g
<1>16. WantOK(K, Q, want)
  BY <1>1, <1>7, <1>9, <1>14, <1>15, WantAfterHead
<1> QED
  BY <1>5, <1>16 DEF K, Q

(* No handler is for a field without room.                                 *)
LEMMA EffectRoom ==
  ASSUME NEW attr, NEW p, NEW val, NEW e \in Effect(attr, p, val)
  PROVE  Width[e[1]][e[2]] # 0
<1> DEFINE In(r, f) == e[1] = r /\ e[2] = f
<1>1. CASE attr = "current"
  <2>1. In("PL_CUR", "lo")
    BY <1>1 DEF Effect
  <2> QED
    BY <2>1, UserWidths
<1>2. CASE attr = "temperature"
  <2>1. In("PVT_CTL", "lo")
    BY <1>2 DEF Effect
  <2> QED
    BY <2>1, UserWidths
<1>3. CASE attr = "flip"
  <2>1. In("IMG_FLIP", "hi")
    BY <1>3 DEF Effect
  <2> QED
    BY <2>1, UserWidths
<1>4. CASE attr = "mirror"
  <2>1. In("IMG_FLIP", "lo")
    BY <1>4 DEF Effect
  <2> QED
    BY <2>1, UserWidths
<1>5. CASE attr = "offset"
  <2>1. In("IMG_OFFSET", "lo") \/ In("IMG_OFFSET", "hi")
    BY <1>5 DEF Effect
  <2> QED
    BY <2>1, UserWidths
<1>6. CASE attr = "fps"
  <2>1. In("PL_CFG", "lo")
    BY <1>6 DEF Effect
  <2> QED
    BY <2>1, UserWidths
<1>7. CASE attr = "pl_osc_trim_en"
  <2>1. In("EFUSE_REG_SW", "lo")
    BY <1>7 DEF Effect
  <2> QED
    BY <2>1, UserWidths
<1>8. CASE attr = "pl_osc_trim"
  <2>1. In("OSC_TRIM", "lo")
    BY <1>8 DEF Effect
  <2> QED
    BY <2>1, UserWidths
<1>9. CASE attr = "demura_en"
  <2>1. In("DMR_CFG", "hi")
    BY <1>9 DEF Effect
  <2> QED
    BY <2>1, UserWidths
<1>10. CASE attr = "demura_remap"
  <2>1. In("DMR_REMAP_VAL", "lo")
    BY <1>10 DEF Effect
  <2> QED
    BY <2>1, UserWidths
<1>11. CASE attr = "demura_dsc"
  <2>1. In("DSC_CFG", "lo") \/ In("DSC_CFG", "hi")
    BY <1>11 DEF Effect
  <2> QED
    BY <2>1, UserWidths
<1>12. CASE attr = "demura_seg_th"
  <2>1. In("DMR_SEG_TH", "lo")
    BY <1>12 DEF Effect
  <2> QED
    BY <2>1, UserWidths
<1>13. attr \in {"current", "temperature", "flip", "mirror", "offset", "fps", "pl_osc_trim_en",
                 "pl_osc_trim", "demura_en", "demura_remap", "demura_dsc", "demura_seg_th"}
  BY DEF Effect
<1> QED
  BY <1>1, <1>2, <1>3, <1>4, <1>5, <1>6, <1>7, <1>8, <1>9, <1>10, <1>11, <1>12, <1>13

(* The effect of a whole argument is neither.                              *)
LEMMA FinalRoom ==
  ASSUME StateOK, NEW attr, NEW pairs \in Arguments(attr), NEW p \in Panel,
         NEW e \in FinalEffect(attr, pairs, p)
  PROVE  Width[e[1]][e[2]] # 0
<1>1. PICK n \in Nat \ {0} : pairs \in [1 .. n -> Pairs(attr)]
  BY Argument
<1>2. PICK i \in 1 .. n : e \in PairEffect(attr, pairs[i], p)
  BY <1>1, FinalEffectIs
<1>3. CASE e \in Effect(attr, p, pairs[i].val)
  BY <1>3, EffectRoom
<1>4. CASE ~ (e \in Effect(attr, p, pairs[i].val))
  <2>1. e = <<"CFG_VID_TX_DELAY", "lo", AtMost(pairs[i].val, 255)>>
    BY <1>2, <1>4 DEF PairEffect
  <2>2. e[1] = "CFG_VID_TX_DELAY" /\ e[2] = "lo"
    BY <2>1
  <2> QED
    BY <2>2, UserWidths
<1> QED
  BY <1>3, <1>4

(* A handler is entered: what it will set is what it is asked for, and     *)
(* nothing else is asked for.                                              *)
LEMMA StartWants ==
  ASSUME AttrInv, WantInv, NEW t \in Threads, Start(t)
  PROVE  WantInv'
<1> SUFFICES ASSUME faults' = 0 PROVE WantOK(job', regs', want')
  BY DEF WantInv, WantOK, Follows, NoSet, LastSet
<1>1. PICK attr \in plan.attrs : \E pairs \in Arguments(attr), plain \in BOOLEAN :
             /\ plain => MayBePlain(pairs)
             /\ job' = [job EXCEPT ![t] = Steps(attr, pairs, plain)]
             /\ want' = [p \in Panel |-> Wanted(t, attr, pairs, p)]
  BY DEF Start
<1>2. PICK pairs \in Arguments(attr), plain \in BOOLEAN :
             /\ plain => MayBePlain(pairs)
             /\ job' = [job EXCEPT ![t] = Steps(attr, pairs, plain)]
             /\ want' = [p \in Panel |-> Wanted(t, attr, pairs, p)]
  BY <1>1
<1> DEFINE steps == Steps(attr, pairs, plain)
           J == job
           K == job'
           R == regs
           V == want
           W == want'
<1>3. StateOK /\ job[t] = << >> /\ faults = 0 /\ regs' = R
  BY DEF AttrInv, Start
<1>4. attr \in AttrNames
  BY <1>3, AttrsAssumption DEF StateOK
<1>5. \A p \in Panel : Answers(steps, p, FinalEffect(attr, pairs, p))
  BY <1>2, <1>3, <1>4, StepsOK DEF HandlerOK
<1>6. J \in [Threads -> Seq(GoodSteps)] /\ J[t] = << >>
  BY <1>3 DEF StateOK
<1>7. K[t] = steps /\ \A u \in Threads : u # t => K[u] = J[u]
  BY <1>2, <1>6
<1>8. WantOK(J, R, V)
  BY <1>3 DEF WantInv
<1> SUFFICES ASSUME NEW p \in Panel, NEW r \in Followed, NEW f \in Fields
             PROVE  IF Width[r][f] = 0 THEN 0 \in W[p][r][f] ELSE Follows(K, R, W, p, r, f)
  BY <1>3 DEF WantOK
<1> DEFINE E == FinalEffect(attr, pairs, p)
           asked == {e[3] : e \in {d \in E : d[1] = r /\ d[2] = f}}
<1>9. W[p][r][f] = IF asked = {} THEN V[p][r][f]
                   ELSE IF Touched(t, p) THEN asked \cup V[p][r][f] ELSE asked
  <2>1. W[p] = Wanted(t, attr, pairs, p)
    BY <1>2
  <2>2. r \in Regs /\ f \in {"lo", "hi"}
    BY DEF Followed, Fields
  <2>3. ~ (faults > 0)
    BY <1>3
  <2> HIDE DEF W, V
  <2>4. Wanted(t, attr, pairs, p)[r][f] = IF asked = {} \/ faults > 0 THEN V[p][r][f]
                   ELSE IF Touched(t, p) THEN asked \cup V[p][r][f] ELSE asked
    BY <2>2 DEF Wanted, V
  <2> HIDE DEF asked
  <2> QED
    BY <2>1, <2>3, <2>4
<1>10. \A v : v \in asked <=> \E e \in E : e[1] = r /\ e[2] = f /\ e[3] = v
  OBVIOUS
<1>11. Answers(steps, p, E) /\ \A e \in E : Width[e[1]][e[2]] # 0
  BY <1>3, <1>5, FinalRoom
<1> HIDE DEF steps, J, K, R, V, W, E, asked
<1>12. CASE Width[r][f] = 0
  <2>1. asked = {}
    BY <1>10, <1>11, <1>12
  <2> QED
    BY <1>8, <1>9, <1>12, <2>1 DEF WantOK
<1>13. CASE Width[r][f] # 0
  <2>1. Follows(J, R, V, p, r, f)
    BY <1>8, <1>13 DEF WantOK
  <2>2. NoSet(steps, p, r, f) => asked = {}
    BY <1>10, <1>11, <1>13 DEF Answers
  <2>3. \A v : LastSet(steps, p, r, f, v) => v \in asked
    BY <1>10, <1>11, <1>13 DEF Answers
  <2>4. ASSUME NEW u \in Threads, NEW v, LastSet(K[u], p, r, f, v) PROVE v \in W[p][r][f]
    <3>1. CASE u = t
      BY <1>7, <1>9, <2>3, <2>4, <3>1
    <3>2. CASE u # t
      <4>1. LastSet(J[u], p, r, f, v) /\ v \in V[p][r][f]
        BY <1>7, <2>1, <2>4, <3>2 DEF Follows
      <4>2. Touched(t, p)
        <5>1. PICK k \in 1 .. Len(J[u]) : Setter(J[u][k], p, r, f)
          BY <4>1 DEF LastSet
        <5>2. p \in PanelsOf(J[u])
          BY <1>6, <5>1, PanelsOfSteps DEF Setter
        <5> QED
          BY <3>2, <5>2 DEF Touched, J
      <4> QED
        BY <1>9, <4>1, <4>2
    <3> QED
      BY <3>1, <3>2
  <2>5. ASSUME \A u \in Threads : NoSet(K[u], p, r, f) PROVE R[p][r][f] \in W[p][r][f]
    <3>1. asked = {}
      BY <1>7, <2>2, <2>5
    <3>2. NoSet(J[t], p, r, f)
      BY <1>6 DEF NoSet
    <3>3. \A u \in Threads : NoSet(J[u], p, r, f)
      BY <1>7, <2>5, <3>2
    <3> QED
      BY <1>9, <2>1, <3>1, <3>3 DEF Follows
  <2>6. Follows(K, R, W, p, r, f)
    BY <2>4, <2>5 DEF Follows
  <2> QED
    BY <1>13, <2>6
<1> QED
  BY <1>12, <1>13

(* After prepare the registers are what they are wanted to be.             *)
LEMMA InitWants ==
  ASSUME Init
  PROVE  WantInv
<1> SUFFICES ASSUME NEW p \in Panel, NEW r \in Followed, NEW f \in Fields
             PROVE  IF Width[r][f] = 0 THEN 0 \in want[p][r][f] ELSE Follows(job, regs, want, p, r, f)
  BY DEF WantInv, WantOK
<1> DEFINE v == regs[p][r][f]
<1>1. r \in Regs /\ (f = "lo" \/ f = "hi")
  BY DEF Followed, Fields
<1>2. regs[p][r] = Booted(p)[r] /\ want[p][r] = Reg({Booted(p)[r].lo}, {Booted(p)[r].hi})
  BY <1>1 DEF Init
<1>3. v \in want[p][r][f]
  BY <1>1, <1>2 DEF Reg
<1>4. v \in 0 .. Width[r][f]
  BY <1>1, InitKeeps DEF AttrInv, StateOK, Fits
<1>5. CASE Width[r][f] = 0
  <2>1. v = 0
    BY <1>4, <1>5
  <2> QED
    BY <1>3, <1>5, <2>1
<1>6. CASE Width[r][f] # 0
  <2>1. \A t \in Threads : job[t] = << >>
    BY DEF Init
  <2>2. \A x : ~ LastSet(<< >>, p, r, f, x)
    BY DEF LastSet
  <2> QED
    BY <1>3, <1>6, <2>1, <2>2 DEF Follows
<1> QED
  BY <1>5, <1>6

(* Every step keeps it so.                                                 *)
LEMMA NextWants ==
  ASSUME AttrInv, WantInv, [Next]_vars
  PROVE  WantInv'
<1>1. CASE UNCHANGED vars
  BY <1>1 DEF vars, WantInv, WantOK, Follows, NoSet, LastSet
<1>2. CASE Next
  <2>1. PICK t \in Threads : \/ Start(t) \/ SendAddress(t) \/ Fetch(t) \/ ReadFails(t)
                             \/ Write(t) \/ WriteLuminance(t) \/ AskSensor(t)
    BY <1>2 DEF Next
  <2>2. CASE Start(t)
    BY <2>2, StartWants
  <2>3. CASE SendAddress(t)
    BY <2>3 DEF SendAddress, WantInv, WantOK, Follows, NoSet, LastSet
  <2>4. CASE Fetch(t)
    <3>1. job[t] # << >> /\ Head(job[t]).op = "read"
      BY <2>4 DEF Fetch, At
    <3>2. job[t][1].op # "write"
      BY <3>1, AtFacts
    <3>3. job' = [job EXCEPT ![t] = RestOf(job[t], 0)] /\ UNCHANGED <<regs, faults, want>>
      BY <2>4 DEF Fetch, Continue, RestOf
    <3> QED
      BY <3>1, <3>2, <3>3, QuietStepWants
  <2>5. CASE ReadFails(t)
    <3>1. faults \in Nat /\ faults' = faults + 1
      BY <2>5, PlanFacts DEF ReadFails, Fault, AttrInv, StateOK
    <3> QED
      BY <3>1 DEF WantInv
  <2>6. CASE Write(t)
    BY <2>6, WriteWants
  <2>7. CASE WriteLuminance(t)
    <3> DEFINE s == job[t][1]
    <3>1. job[t] # << >> /\ Head(job[t]).op = "lum"
      BY <2>7 DEF WriteLuminance, At
    <3>2. s.op = "lum" /\ Head(job[t]) = s /\ s.reg = "LUM_REG"
      BY <3>1, AtFacts, StepFacts
    <3>3. job' = [job EXCEPT ![t] = RestOf(job[t], 0)] /\ want' = want
      BY <2>7 DEF WriteLuminance, Continue, RestOf
    <3>4. CASE faults' # 0
      BY <3>4 DEF WantInv
    <3>5. CASE faults' = 0
      <4> DEFINE v == Reg(AtMost(s.val, MaxLum(got[t][s.slot].lo)), 0)
      <4>1. faults \in Nat
        BY PlanFacts DEF AttrInv, StateOK
      <4>2. WriteRegs(s.to, s.reg, v) /\ faults' = faults
        BY <2>7, <3>2, <3>5, <4>1 DEF WriteLuminance, Fault
      <4> HIDE DEF v
      <4>3. regs' = [x \in Panel |-> IF x \in s.to THEN [regs[x] EXCEPT !["LUM_REG"] = v] ELSE regs[x]]
        BY <3>2, <4>2 DEF WriteRegs
      <4>4. regs \in [Panel -> [Regs -> Values]]
        BY DEF AttrInv, StateOK
      <4>5. \A p \in Panel, r \in Followed : regs'[p][r] = regs[p][r]
        BY <4>3, <4>4 DEF Followed
      <4> QED
        BY <3>1, <3>2, <3>3, <4>2, <4>5, QuietStepWants
    <3> QED
      BY <3>4, <3>5
  <2>8. CASE AskSensor(t)
    <3>1. job[t] # << >> /\ Head(job[t]).op = "sensor"
      BY <2>8 DEF AskSensor, At
    <3>2. /\ Head(job[t]) = job[t][1] /\ 1 \in 1 .. Len(job[t])
          /\ SensorOK(job[t], got[t], regs, faults = 0)
      BY <3>1, AtFacts DEF JobOK
    <3>3. CASE faults = 0
      <4>1. got[t][Head(job[t]).slot].lo = 3
        BY <3>1, <3>2, <3>3 DEF SensorOK
      <4>2. job' = [job EXCEPT ![t] = RestOf(job[t], 0)] /\ UNCHANGED <<regs, faults, want>>
        BY <2>8, <4>1 DEF AskSensor, Continue, RestOf
      <4>3. job[t][1].op # "write"
        BY <3>1, <3>2
      <4> QED
        BY <3>1, <4>2, <4>3, QuietStepWants
    <3>4. CASE faults # 0
      BY <2>8, <3>4 DEF AskSensor, WantInv
    <3> QED
      BY <3>3, <3>4
  <2> QED
    BY <2>1, <2>2, <2>3, <2>4, <2>5, <2>6, <2>7, <2>8
<1> QED
  BY <1>1, <1>2

(* When no handler is at work and no transfer has failed, every field of   *)
(* every panel is what the last request for it asked, or what prepare      *)
(* left: no handler undoes what another attribute has set, not even one    *)
(* that shares a register with it.                                         *)
THEOREM FieldsFollowRequestsCorrect ==
  ASSUME UsersKeepApart PROVE Spec => []FieldsFollowRequests
<1>1. Init => WantInv
  BY InitWants
<1>2. AttrInv /\ WantInv /\ [Next]_vars => WantInv'
  BY NextWants
<1>3. AttrInv /\ WantInv => FieldsFollowRequests
  <2> SUFFICES ASSUME AttrInv, WantInv, Quiet, faults = 0,
                      NEW p \in Panel, NEW r \in Regs \ {"LUM_REG", "PVT_DATA"}, NEW f \in {"lo", "hi"}
               PROVE  regs[p][r][f] \in want[p][r][f]
    BY DEF FieldsFollowRequests
  <2>1. r \in Followed /\ f \in Fields
    BY DEF Followed, Fields
  <2>2. IF Width[r][f] = 0 THEN 0 \in want[p][r][f] ELSE Follows(job, regs, want, p, r, f)
    BY <2>1 DEF WantInv, WantOK
  <2>3. CASE Width[r][f] = 0
    <3>1. regs[p][r][f] \in 0 .. Width[r][f]
      BY <2>1 DEF AttrInv, StateOK, Fits
    <3> QED
      BY <2>2, <2>3, <3>1
  <2>4. CASE Width[r][f] # 0
    <3>1. \A t \in Threads : NoSet(job[t], p, r, f)
      BY DEF Quiet, NoSet
    <3> QED
      BY <2>2, <2>4, <3>1 DEF Follows
  <2> QED
    BY <2>3, <2>4
<1> QED
  BY <1>1, <1>2, <1>3, AttrInvCorrect, PTL DEF Spec
=============================================================================
