-------------------------- MODULE DriverLifecycle --------------------------
(***************************************************************************)
(* probe and remove of i2c-jbd4040, i2c-jbd4020 and panel-jbd4040 with     *)
(* every resource they acquire and every failure, over any number of       *)
(* bindings, and user threads that open the character device and call its  *)
(* ioctl meanwhile.  A behaviour is about one of the three drivers.        *)
(*                                                                         *)
(* probe and remove are given as sequences of steps; a step that fails     *)
(* releases what OnFail says and ends probe, skips ahead or goes on.       *)
(***************************************************************************)
EXTENDS Integers, Sequences, FiniteSets

CONSTANTS
  Threads,       \* user threads
  NoThread,      \* nobody holds the mutex
  MaxFailures    \* bound: steps of probe that fail

ASSUME LifeAssumption == NoThread \notin Threads /\ MaxFailures \in Nat

Driver == {"i2c40", "i2c20", "panel"}
Line   == {"dvdd", "vddi", "avdd", "reset", "avee"}

(* "priv" is memory and "dvdd"... are GPIOs that devm releases; "dyn" the  *)
(* sysfs files named by the device tree, "files" all others; "node" is     *)
(* /dev/jbd4040 or /dev/jbd4020.                                           *)
Devm  == Line \cup {"priv"}
Thing == Devm \cup {"adapter", "host", "region", "cdev", "class", "node", "files", "dyn"}

VARIABLES
  driver,
  pc,         \* "unbound", "probe", "bound", "remove"
  at,         \* the step of probe or remove that comes next
  has,        \* what this binding has
  lost,       \* what earlier bindings have left behind
  level,      \* the GPIOs
  ptr,        \* g_jbd4040_ctx, or gClientR, G and B: "null", "live", "freed"
  twice,      \* something has been released that was not there
  failures,
  user,       \* user[t]: "closed", "open"; in an ioctl: "checked", "asleep" on
              \* the mutex, "locked", or "stranded", asleep with nobody to wake it
  holder      \* who holds the mutex

vars == <<driver, pc, at, has, lost, level, ptr, twice, failures, user, holder>>
users == <<user, holder>>

-----------------------------------------------------------------------------
Get(x)     == [op |-> "get", x |-> x, v |-> 0]
Put(x)     == [op |-> "put", x |-> x, v |-> 0]
PutIf(x)   == [op |-> "putif", x |-> x, v |-> 0]
Set(l, v)  == [op |-> "set", x |-> l, v |-> v]
Do(what)   == [op |-> what, x |-> "priv", v |-> 0]

PowerOn ==
  << Set("dvdd", 0), Set("vddi", 0), Set("avdd", 0), Set("avee", 0), Set("reset", 1),
     Set("dvdd", 1), Set("vddi", 1), Set("avdd", 1),
     Set("reset", 0), Set("reset", 1), Set("reset", 0) >>

PowerOff == << Set("vddi", 0), Set("avdd", 0), Set("dvdd", 0) >>

(* The lines, the supplies, the registers (a failure is only logged), AVEE.*)
PowerUp ==
  << Get("priv"), Get("dvdd"), Get("vddi"), Get("avdd"), Get("reset"), Get("avee") >>
  \o PowerOn \o << Do("init"), Set("avee", 1) >>

CharDev == << Get("region"), Get("cdev"), Get("class"), Get("node") >>

(* Mutant: the clients come last.                                          *)
I2cRegisterClientsLast ==
  CharDev \o << Get("files"), Do("mutex"), Get("dyn"), Do("clients") >>

(* The clients come before the device node, the mutex after it.            *)
I2cRegister == << Do("clients") >> \o CharDev \o << Get("files"), Do("mutex"), Get("dyn") >>

PanelProbe ==
  << Get("priv"), Do("context"), Get("avdd"), Get("avee"), Get("reset"),
     Get("adapter"), Get("host") >> \o CharDev \o << Get("files") >>

ProbeSteps(d) == CASE d = "i2c40" -> PowerUp \o I2cRegister
                   [] d = "i2c20" -> I2cRegister
                   [] OTHER       -> PanelProbe

(* Mutant: class_destroy is missing.                                       *)
CharDevGoneNoClass == << PutIf("node"), Put("cdev"), Put("region") >>

CharDevGone == << PutIf("node"), Put("class"), Put("cdev"), Put("region") >>

(* Mutant: AVEE goes off after the other supplies.                         *)
Remove40AveeLast ==
  PowerOff \o << Set("avee", 0), PutIf("files"), PutIf("dyn") >> \o CharDevGone

Remove40 ==
  << Set("avee", 0) >> \o PowerOff \o << PutIf("files"), PutIf("dyn") >> \o CharDevGone

(* The dynamic files stay.                                                 *)
Remove20 == << PutIf("files") >> \o CharDevGone

(* The device, the class and the adapter are looked at first, the rest is  *)
(* not.  The supplies stay as they are.                                    *)
PanelRemove ==
  << PutIf("files"), PutIf("node"), PutIf("class"), Put("cdev"), Put("region"),
     Put("host"), PutIf("adapter"), Do("nocontext") >>

RemoveSteps(d) == CASE d = "i2c40" -> Remove40
                    [] d = "i2c20" -> Remove20
                    [] OTHER       -> PanelRemove

Steps == IF pc = "probe" THEN ProbeSteps(driver) ELSE RemoveSteps(driver)

-----------------------------------------------------------------------------
Init ==
  /\ driver \in Driver
  /\ pc = "unbound" /\ at = 1
  /\ has = {} /\ lost = {}
  /\ level = [l \in Line |-> 0]
  /\ ptr = "null"
  /\ twice = FALSE /\ failures = 0
  /\ user = [t \in Threads |-> "closed"]
  /\ holder = NoThread

(* The end of a binding.  devm takes memory and lines, levels stay; what   *)
(* else there is remains for good.                                         *)
Unbind(left) ==
  /\ pc' = "unbound" /\ at' = 1
  /\ has' = {}
  /\ lost' = lost \cup (left \ Devm) \cup (IF level["avee"] = 1 THEN {"avee"} ELSE {})

ProbeCall ==
  /\ pc = "unbound"
  /\ pc' = "probe" /\ at' = 1
  /\ UNCHANGED <<driver, has, lost, level, ptr, twice, failures, users>>

(* One thing of a name is all there can be: a class or files left behind   *)
(* are in the way.  The panel does without an adapter if the device tree   *)
(* names none.                                                             *)
GetStep ==
  /\ pc = "probe" /\ at <= Len(Steps) /\ Steps[at].op = "get"
  /\ LET x == Steps[at].x IN
     /\ x \in lost => x \notin {"class", "dyn"}
     /\ has' = has \cup {x} \/ (x = "adapter" /\ UNCHANGED has)
     /\ level' = IF x \in Line THEN [level EXCEPT ![x] = 0] ELSE level
  /\ at' = at + 1
  /\ UNCHANGED <<driver, pc, lost, ptr, twice, failures, users>>

(* Mutant: a failed cdev_add goes to the label one too early.              *)
OnFailWrongLabel(x) ==
  CASE x \in {"cdev", "class"} -> {"cdev", "region"}
    [] x = "host"  -> has \cap {"adapter"}
    [] OTHER       -> {}

(* What is released when x cannot be had.                                  *)
OnFail(x) ==
  CASE x = "cdev"  -> {"region"}
    [] x = "class" -> {"cdev", "region"}
    [] x = "host"  -> has \cap {"adapter"}
    [] OTHER       -> {}

(* Where it goes on.  The I2C drivers give up except without the device or *)
(* the files; the panel goes on with its last step.                        *)
Ends(x) ==
  IF driver = "panel" THEN x \in Devm \cup {"adapter", "host"}
  ELSE x \in Devm \cup {"region", "cdev", "class"}

(* Mutant: past the end.                                                   *)
GoesToPastEnd(x) == IF driver = "panel" /\ x # "files" THEN Len(Steps) + 2 ELSE at + 1

GoesTo(x) == IF driver = "panel" /\ x # "files" THEN Len(Steps) ELSE at + 1

(* A step fails.  dyn fails in two ways: without the file probe goes on,   *)
(* without memory it ends and leaves everything as it is.                  *)
FailStep ==
  /\ pc = "probe" /\ at <= Len(Steps) /\ Steps[at].op = "get"
  /\ failures < MaxFailures \/ Steps[at].x \in lost \cap {"class", "dyn"}
  /\ failures' = IF failures < MaxFailures THEN failures + 1 ELSE failures
  /\ LET x == Steps[at].x IN
     /\ twice' = (twice \/ ~ OnFail(x) \subseteq has)
     /\ \/ /\ Ends(x) \/ (x = "dyn" /\ failures < MaxFailures)
           /\ Unbind(has \ OnFail(x))
           /\ ptr' = IF driver = "panel" /\ ptr = "live" THEN "freed" ELSE ptr
        \/ /\ ~ Ends(x)
           /\ has' = has \ OnFail(x)
           /\ at' = GoesTo(x)
           /\ UNCHANGED <<pc, lost, ptr>>
  /\ UNCHANGED <<driver, level, users>>

(* mutex_init, whoever uses the mutex: it becomes free, and its list of    *)
(* waiters empty.                                                          *)
MutexInit ==
  /\ holder' = NoThread
  /\ user' = [t \in Threads |-> IF user[t] = "asleep" THEN "stranded" ELSE user[t]]

(* Everything else: a GPIO, a release, the clients, the mutex, the context,*)
(* which is new before the GPIOs are asked for and gone at the end.        *)
OtherStep ==
  /\ pc \in {"probe", "remove"} /\ at <= Len(Steps) /\ Steps[at].op # "get"
  /\ LET s == Steps[at] IN
     /\ level' = IF s.op = "set" THEN [level EXCEPT ![s.x] = s.v] ELSE level
     /\ has' = IF s.op \in {"put", "putif"} THEN has \ {s.x} ELSE has
     /\ twice' = (twice \/ (s.op = "put" /\ s.x \notin has))
     /\ ptr' = CASE s.op \in {"clients", "context"} -> "live"
                 [] s.op = "nocontext" -> "null"
                 [] OTHER -> ptr
     /\ IF s.op = "mutex" THEN MutexInit ELSE UNCHANGED users
  /\ at' = at + 1
  /\ UNCHANGED <<driver, pc, lost, failures>>

ProbeReturns ==
  /\ pc = "probe" /\ at > Len(Steps)
  /\ pc' = "bound" /\ at' = 1
  /\ UNCHANGED <<driver, has, lost, level, ptr, twice, failures, users>>

RemoveCall ==
  /\ pc = "bound"
  /\ pc' = "remove" /\ at' = 1
  /\ UNCHANGED <<driver, has, lost, level, ptr, twice, failures, users>>

RemoveReturns ==
  /\ pc = "remove" /\ at > Len(Steps)
  /\ Unbind(has)
  /\ UNCHANGED <<driver, level, ptr, twice, failures, users>>

(* The DRM callbacks of the panel: see PanelJbd4040 for how they do it.    *)
Display ==
  /\ driver = "panel" /\ pc = "bound"
  /\ \E v \in {0, 1} : level' = [level EXCEPT !["avdd"] = v, !["avee"] = v]
  /\ UNCHANGED <<driver, pc, at, has, lost, ptr, twice, failures, users>>

-----------------------------------------------------------------------------
(* The character device.  An open file outlives the device node.           *)

life == <<driver, pc, at, has, lost, level, ptr, twice, failures>>

Goes(t, from, to) == user[t] = from /\ user' = [user EXCEPT ![t] = to]

Open(t) ==
  /\ "node" \in has \cup lost
  /\ Goes(t, "closed", "open")
  /\ UNCHANGED <<life, holder>>

Close(t) == Goes(t, "open", "closed") /\ UNCHANGED <<life, holder>>

(* The panel driver looks at the context before it takes the mutex and     *)
(* refuses without one.  The I2C drivers do not look.                      *)
Ioctl(t) ==
  /\ driver = "panel" => ptr # "null"
  /\ Goes(t, "open", "checked")
  /\ UNCHANGED <<life, holder>>

Lock(t) ==
  /\ holder = NoThread /\ holder' = t
  /\ Goes(t, "checked", "locked")
  /\ UNCHANGED life

(* mutex_lock sleeps while somebody has the mutex.                         *)
Sleep(t) ==
  /\ holder # NoThread
  /\ Goes(t, "checked", "asleep")
  /\ UNCHANGED <<life, holder>>

(* Mutant: a way out of the switch that does not unlock.                   *)
UnlockForgets(t) == Goes(t, "locked", "open") /\ UNCHANGED <<life, holder>>

(* The transfers are done, with whatever result.  The mutex is free,       *)
(* whoever has it, and one of its waiters is awake.                        *)
Unlock(t) ==
  /\ user[t] = "locked"
  /\ LET asleep == {u \in Threads : user[u] = "asleep"} IN
     \/ asleep = {} /\ user' = [user EXCEPT ![t] = "open"]
     \/ \E u \in asleep : user' = [user EXCEPT ![t] = "open", ![u] = "checked"]
  /\ holder' = NoThread
  /\ UNCHANGED life

Next ==
  \/ ProbeCall \/ GetStep \/ FailStep \/ OtherStep \/ ProbeReturns
  \/ RemoveCall \/ RemoveReturns \/ Display
  \/ \E t \in Threads : Open(t) \/ Close(t) \/ Ioctl(t) \/ Lock(t) \/ Sleep(t) \/ Unlock(t)

Spec == Init /\ [][Next]_vars

(* Handlers run on until they return, and whoever is awake and finds the   *)
(* mutex free again and again gets it: the kernel's mutex hands over.      *)
FairSpec == Spec /\ \A t \in Threads : WF_vars(Unlock(t)) /\ SF_vars(Lock(t))

-----------------------------------------------------------------------------
(* Properties.                                                             *)

(* Types of what the binding has and has left, and of the threads.         *)
LifeTypeOK ==
  /\ driver \in Driver
  /\ pc \in {"unbound", "probe", "bound", "remove"}
  /\ at \in 1..(Len(Steps) + 1)
  /\ has \in SUBSET Thing /\ lost \in SUBSET Thing
  /\ level \in [Line -> {0, 1}]
  /\ ptr \in {"null", "live", "freed"}
  /\ twice \in BOOLEAN /\ failures \in 0..MaxFailures
  /\ user \in [Threads -> {"closed", "open", "checked", "asleep", "locked", "stranded"}]
  /\ holder \in Threads \cup {NoThread}

(* If no step of probe has failed, any number of bindings leave nothing    *)
(* behind but the dynamic files of i2c-jbd4020 (jbd4020_remove does not    *)
(* remove them), and AVEE of a panel removed while its display was on.     *)
CleanRemove ==
  failures = 0 => lost \subseteq CASE driver = "i2c20" -> {"dyn"}
                                   [] driver = "panel" -> {"avee"}
                                   [] OTHER            -> {}

(* Nothing is released that is not there, by the error paths and by        *)
(* remove, except where the panel driver's remove calls cdev_del and       *)
(* unregister_chrdev_region after a registration that had failed.          *)
ReleasesWhatItHas ==
  twice => driver = "panel" /\ failures > 0

(* The handlers find live clients, or a live context, for as long as there *)
(* is a device node to open.                                               *)
NodeServesLiveContext ==
  "node" \in has => ptr = "live"

(* i2c-jbd4040 has AVEE on only with DVDD, VDDI, AVDD and out of RESET,    *)
(* over probes, failures and removes, unless an earlier probe failed after *)
(* AVEE was on and left it so (GPIOs are then set low DVDD first).         *)
AveeNeedsRest ==
  driver = "i2c40" /\ level["avee"] = 1 /\ "avee" \notin lost =>
    level["dvdd"] = 1 /\ level["vddi"] = 1 /\ level["avdd"] = 1 /\ level["reset"] = 0

(* An ioctl that has begun returns, whatever probe and remove do, but for  *)
(* one case: a thread that sleeps on the mutex of an I2C driver while its  *)
(* probe calls mutex_init is never woken.                                  *)
IoctlEnds ==
  \A t \in Threads :
    user[t] \in {"checked", "asleep", "locked"}
      ~> user[t] = "open" \/ (user[t] = "stranded" /\ driver # "panel")

=============================================================================
