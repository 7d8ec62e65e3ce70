------------------------------ MODULE MCI2cJbd ------------------------------
(* Model values for TLC.  Each scenario has the requests that share        *)
(* registers; the numbers are one that fits its field and one that does    *)
(* not.                                                                    *)
EXTENDS I2cJbd

CONSTANTS t1, t2

TwoThreads == {t1, t2}
OneThread  == {t1}

Request(by, name) ==
  [by |-> by, name |-> name, p |-> "R", ps |-> {}, n |-> 0, en |-> 0, short |-> FALSE, reg |-> "FLIP"]

Ioctl(names)        == {Request("ioctl", n) : n \in names}
Show(names)         == {Request("show", n) : n \in names}
With(by, name, ns)  == {[Request(by, name) EXCEPT !.n = n] : n \in ns}
OnOff(by, name)     == {[Request(by, name) EXCEPT !.en = e] : e \in {0, 1}}
(* One panel of the JBD4020, or some of the JBD4040.                       *)
Coloured(d, rs)     ==
  IF d = "jbd4020" THEN {[r EXCEPT !.p = p] : r \in rs, p \in {"R", "B"}}
                   ELSE {[r EXCEPT !.ps = ps] : r \in rs, ps \in {{"B"}, {"R", "G"}}}
OffsetStores(d)     ==
  Coloured(d, {[Request("store", "offset") EXCEPT !.en = e, !.short = s, !.n = n] :
                 e \in {0, 1}, s \in BOOLEAN, n \in {3, 40}})

(* Stubs of the JBD4040.                                                   *)
Stubs(d, names) == IF d = "jbd4040" THEN Ioctl(names) ELSE {}

Scenario(drv, users, failures, requests) ==
  [drv |-> drv, users |-> users, faults |-> failures, requests |-> requests]

RawRegs ==
  {[Request("ioctl", n) EXCEPT !.reg = r] : n \in {"READ_REG", "WRITE_REG"}, r \in {"FLIP", "LUM"}}

(* One thread, with every attribute and command; transfers fail.           *)
Alone(d) ==
  LET both == d = "jbd4020" IN
  {Coloured(d, With("store", "luminance", {9000})) \cup Show({"luminance"})
     \cup (IF both THEN Ioctl({"LUMIN_GET"}) \cup With("ioctl", "LUMIN_SET", {9000})
             ELSE Stubs(d, {"LUMIN_SET", "OFFSET_SET"})),
   Coloured(d, With("store", "current", {300})) \cup Show({"current", "temperature"})
     \cup (IF both THEN Ioctl({"CURRENT_GET", "TEMP_READ"}) \cup With("ioctl", "CURRENT_SET", {300}) ELSE {}),
   OnOff("store", "flip") \cup OnOff("store", "mirror") \cup Show({"flip", "mirror"})
     \cup (IF both THEN OnOff("ioctl", "FLIP_SET") \cup OnOff("ioctl", "MIRROR_SET") ELSE {}),
   OffsetStores(d) \cup Show({"offset"}) \cup (IF both THEN Ioctl({"OFFSET_GET"}) ELSE {}),
   RawRegs \cup {[Request("store", "reg") EXCEPT !.reg = r] : r \in {"FLIP", "LUM"}}
     \cup Show({"val"}) \cup {Request("store", "val")}}
  \cup IF both THEN {} ELSE {With("store", "fps", {0, 6}) \cup Show({"fps"}) \cup With("store", "tx", {3, 1000})}

(* Two threads with commands, and an attribute when they are quiet.        *)
Together(d) ==
  {RawRegs \cup OnOff("store", "flip") \cup Stubs(d, {"FLIP_SET", "FLIP_GET"})}
  \cup IF d = "jbd4040" THEN {}
       ELSE {Ioctl({"LUMIN_GET", "CURRENT_GET"}) \cup With("ioctl", "LUMIN_SET", {1000, 9000})
               \cup With("ioctl", "CURRENT_SET", {300}),
             Ioctl({"FLIP_GET", "MIRROR_GET"}) \cup OnOff("ioctl", "FLIP_SET")
               \cup OnOff("ioctl", "MIRROR_SET") \cup OnOff("store", "mirror"),
             Ioctl({"OFFSET_GET"}) \cup OnOff("ioctl", "FLIP_SET") \cup OffsetStores(d)}

QuietScenarios ==
  UNION {{Scenario(d, OneThread, 2, rs) : rs \in Alone(d)}
           \cup {Scenario(d, TwoThreads, 0, rs) : rs \in Together(d)} : d \in {"jbd4020", "jbd4040"}}

(* Offsets and flips by ioctl, one after another.                          *)
OffsetCommands ==
  {Scenario("jbd4020", OneThread, 0, OnOff("ioctl", "OFFSET_SET") \cup OnOff("ioctl", "FLIP_SET"))}
=============================================================================
