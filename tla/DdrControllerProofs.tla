------------------------ MODULE DdrControllerProofs ------------------------
(***************************************************************************)
(* The half of ddr_driver.c that drives the controller, for every set of   *)
(* processes: what the control register holds when nothing is under way,   *)
(* and what a driver that is gone leaves behind.                           *)
(***************************************************************************)
EXTENDS DdrController, SequenceTheorems, TLAPS

----------------------------------------------------------------------------
(* Tasks.  What each context can have before it: a process, the calibration work, system sleep in
   either direction, the driver core in each phase. *)

UserTask  == {Set("mode"), Set("low_power"), Set("enable"), Do("low_power_mode"), Do("ready"),
              Do("irq"), Do("calibrated"), Do("unlock")}
WorkTask  == {Set("mode"), Do("calibrated")}
ProbeTask == {Set("mode"), Do("ready"), Do("calibrated")}

SuspendTasks == <<Clear("enable"), Set("low_power")>>
ProbeTasks   == HwInit \o <<Do("create"), Do("bind")>>
ProbeRest    == <<Do("irq"), Do("create"), Do("bind")>>
RemoveTasks  == <<Do("cancel"), Do("destroy"), Do("free_irq"), Clear("enable"), Do("removed")>>

LEMMA NextTask ==
  ASSUME NEW S, NEW p \in Seq(S), p # << >>, NEW R, NEW r \in Seq(R)
  PROVE  /\ Head(p \o r) = Head(p) /\ Tail(p \o r) = Tail(p) \o r /\ p \o r # << >>
         /\ Head(p) \in S /\ Tail(p) \in Seq(S)
<1>1. Head(p \o r) = Head(p) /\ Head(p) \in S /\ Tail(p) \in Seq(S) /\ p \o r # << >>
  OBVIOUS
<1>2. Tail(p \o r) = Tail(p) \o r
  OBVIOUS
<1> QED BY <1>1, <1>2

LEMMA First1 ==
  ASSUME NEW x, NEW R, NEW r \in Seq(R)
  PROVE  /\ <<x>> \o r # << >> /\ Head(<<x>> \o r) = x /\ Tail(<<x>> \o r) = r
OBVIOUS

LEMMA First2 ==
  ASSUME NEW x, NEW y, NEW R, NEW r \in Seq(R)
  PROVE  /\ <<x, y>> \o r # << >> /\ Head(<<x, y>> \o r) = x /\ Tail(<<x, y>> \o r) = <<y>> \o r
OBVIOUS

LEMMA Probe1 ==
  /\ ProbeTasks # << >> /\ Head(ProbeTasks) = Set("enable")
  /\ Tail(ProbeTasks) = <<Do("ready")>> \o ProbeRest
BY DEF ProbeTasks, HwInit, ProbeRest

LEMMA Probe2 ==
  /\ ProbeRest # << >> /\ Head(ProbeRest) = Do("irq")
  /\ Tail(ProbeRest) = <<Do("create"), Do("bind")>>
BY DEF ProbeRest

LEMMA Reset1 == HwReset = <<Set("reset"), Clear("reset")>> \o HwInit
BY DEF HwReset

LEMMA UserLists ==
  /\ HwInit \in Seq(UserTask) /\ Calibrate \in Seq(UserTask) /\ Calibrate \in Seq(ProbeTask)
  /\ Calibrate \in Seq(WorkTask)
  /\ << >> \in Seq(UserTask) /\ << >> \in Seq(ProbeTask)
  /\ <<Set("mode")>> \in Seq(UserTask) /\ <<Set("mode")>> \in Seq(ProbeTask)
BY DEF HwInit, Calibrate, UserTask, ProbeTask, WorkTask

LEMMA Suffixes ==
  /\ Tail(RemoveTasks) = <<Do("destroy"), Do("free_irq"), Clear("enable"), Do("removed")>>
  /\ Tail(<<Do("create"), Do("bind")>>) = <<Do("bind")>>
  /\ Tail(ResumeTasks) = <<Set("enable"), Set("mode")>>
  /\ Tail(<<Set("mode")>>) = << >>
BY DEF RemoveTasks, ResumeTasks

----------------------------------------------------------------------------
(* The inductive invariant *)

\* Between the two writes of a reset, and before the first.
ResetPending(s) == s # << >> /\ Head(s) = Clear("reset") /\ Tail(s) \in Seq(UserTask)
ResetAhead(s)   == s # << >> /\ Head(s) = Set("reset") /\ ResetPending(Tail(s))

UserPlan(s) == s \in Seq(UserTask) \/ ResetPending(s) \/ ResetAhead(s)

PmPlan(s) ==
  IF suspended THEN s = << >> \/ (lowPower /\ s \in {SuspendTasks, <<Set("low_power")>>})
               ELSE s \in {ResumeTasks, <<Set("enable"), Set("mode")>>, <<Set("mode")>>, << >>}

\* A probe before and after it enables the controller.
Probing(s) == \E p \in Seq(ProbeTask) : s = p \o ProbeRest
Creating   == <<Do("create"), Do("bind")>>
Created    == <<Do("bind")>>

\* A removal, past the cancelled work, the device and the interrupt.
Freeing  == <<Do("free_irq"), Clear("enable"), Do("removed")>>
Removing == {RemoveTasks, Tail(RemoveTasks), Freeing, Tail(Freeing), <<Do("removed")>>}

CorePlan(s) ==
  CASE phase = "probing"  -> s = ProbeTasks \/ Probing(s) \/ s = Creating \/ s = Created
    [] phase = "removing" -> s \in Removing
    [] phase = "down"     -> s \in {<<Clear("enable")>>, << >>}
    [] OTHER              -> s = << >>

Plans ==
  /\ \A t \in Users : UserPlan(todo[t])
  /\ todo["work"] \in Seq(WorkTask)
  /\ PmPlan(todo["pm"])
  /\ CorePlan(todo["core"])

Typed ==
  /\ phase \in {"absent", "probing", "bound", "removing", "down", "dead"}
  /\ suspended \in BOOLEAN /\ lowPower \in BOOLEAN
  /\ handlers \in Nat
  /\ DOMAIN todo = Contexts /\ DOMAIN seen = Contexts
  /\ \A t \in Contexts : seen[t] # {} => Task(t, "set") \/ Task(t, "clear")

\* Processes run from the time the device is there until the driver is removed or shut down, and
\* not in a sleep; system sleep runs while the driver is bound.
Turns ==
  /\ suspended => phase = "bound"
  /\ phase # "bound" => Idle("pm")
  /\ suspended \/ ~ (phase = "bound" \/ (phase = "probing" /\ todo["core"] = Created))
       => \A t \in Users : Idle(t)

\* What is registered, and how many handlers.
Withdrawn ==
  \/ phase = "absent"
  \/ phase = "probing" /\ todo["core"] # Created
  \/ phase = "removing" /\ todo["core"] \in {Freeing, Tail(Freeing), <<Do("removed")>>}

Unrequested ==
  \/ phase = "absent"
  \/ phase = "probing" /\ todo["core"] \notin {Creating, Created}
  \/ phase = "removing" /\ todo["core"] \in {Tail(Freeing), <<Do("removed")>>}

Registered ==
  /\ Withdrawn => registered = {}
  /\ ~ stray /\ phase \in {"probing", "bound", "removing"} => handlers <= 1
  /\ ~ stray /\ Unrequested => handlers = 0

\* The control register, as long as no change to it was overwritten.
Enabled ==
  \/ phase = "probing" /\ todo["core"] # ProbeTasks
  \/ /\ phase = "bound" /\ ~ (suspended /\ lowPower)
     /\ todo["pm"] \notin {ResumeTasks, <<Set("enable"), Set("mode")>>}

Disabled ==
  \/ phase = "down" /\ todo["core"] = << >>
  \/ suspended /\ lowPower /\ todo["pm"] # SuspendTasks

Switches ==
  /\ "reset" \in control => \E t \in Users : ResetPending(todo[t])
  /\ Enabled => "enable" \in control
  /\ Disabled => "enable" \notin control
  /\ suspended /\ lowPower /\ todo["pm"] = << >> => "low_power" \in control

ControllerInv ==
  /\ Typed /\ Plans /\ Turns /\ Registered
  /\ ~ lost => Switches

----------------------------------------------------------------------------
(* What the task at the head of a plan can be *)

LEMMA UserHead ==
  ASSUME NEW s, UserPlan(s), s # << >>
  PROVE  /\ UserPlan(Tail(s))
         /\ Head(s)[1] = "clear" => ResetPending(s) /\ Head(s)[2] = "reset"
         /\ Head(s)[1] = "set" =>
              \/ ResetAhead(s)
              \/ s \in Seq(UserTask) /\ Head(s)[2] \in {"mode", "low_power", "enable"}
         /\ Head(s)[1] \notin {"set", "clear"} => s \in Seq(UserTask) /\ Tail(s) \in Seq(UserTask)
         /\ ResetPending(s) => Head(s)[1] = "clear"
<1>1. CASE s \in Seq(UserTask)
  <2>1. Head(s) \in UserTask /\ Tail(s) \in Seq(UserTask)
    BY <1>1, s # << >>
  <2>2. Head(s)[1] # "clear" /\ (Head(s)[1] = "set" => Head(s)[2] \in {"mode", "low_power", "enable"})
    BY <2>1 DEF UserTask, Set, Do
  <2> QED BY <1>1, <2>1, <2>2 DEF UserPlan, ResetPending, Clear
<1>2. CASE ResetPending(s)
  BY <1>2 DEF UserPlan, ResetPending, Clear
<1>3. CASE ResetAhead(s)
  <2>1. Head(s)[1] = "set" /\ UserPlan(Tail(s))
    BY <1>3 DEF ResetAhead, UserPlan, Set
  <2> QED BY <1>3, <2>1 DEF ResetPending, Clear
<1> QED BY <1>1, <1>2, <1>3 DEF UserPlan

LEMMA WorkHead ==
  ASSUME NEW s \in Seq(WorkTask), s # << >>
  PROVE  /\ Tail(s) \in Seq(WorkTask)
         /\ \/ Head(s)[1] = "set" /\ Head(s)[2] = "mode"
            \/ Head(s)[1] = "calibrated"
<1>1. Head(s) \in WorkTask /\ Tail(s) \in Seq(WorkTask)
  OBVIOUS
<1> QED BY <1>1 DEF WorkTask, Set, Do

LEMMA PmHead ==
  ASSUME NEW s, PmPlan(s), s # << >>
  PROVE  /\ suspended => lowPower
         /\ PmPlan(Tail(s))
         /\ \/ /\ Head(s)[1] = "clear" /\ Head(s)[2] = "enable"
               /\ suspended /\ s = SuspendTasks /\ Tail(s) = <<Set("low_power")>>
            \/ /\ Head(s)[1] = "set" /\ Head(s)[2] = "low_power"
               /\ suspended /\ s = <<Set("low_power")>> /\ Tail(s) = << >>
            \/ /\ Head(s)[1] = "clear" /\ Head(s)[2] = "low_power"
               /\ ~ suspended /\ s = ResumeTasks /\ Tail(s) = <<Set("enable"), Set("mode")>>
            \/ /\ Head(s)[1] = "set" /\ Head(s)[2] = "enable"
               /\ ~ suspended /\ s = <<Set("enable"), Set("mode")>> /\ Tail(s) = <<Set("mode")>>
            \/ /\ Head(s)[1] = "set" /\ Head(s)[2] = "mode"
               /\ ~ suspended /\ s = <<Set("mode")>> /\ Tail(s) = << >>
<1>1. ASSUME suspended PROVE lowPower /\ s \in {SuspendTasks, <<Set("low_power")>>}
  BY <1>1 DEF PmPlan
<1>2. ASSUME ~ suspended
      PROVE  s \in {ResumeTasks, <<Set("enable"), Set("mode")>>, <<Set("mode")>>}
  BY <1>2 DEF PmPlan
<1>3. CASE suspended
  <2>1. CASE s = SuspendTasks
    <3>1. /\ Head(s)[1] = "clear" /\ Head(s)[2] = "enable" /\ Tail(s) = <<Set("low_power")>>
      BY <2>1 DEF SuspendTasks, Set, Clear
    <3> QED BY <1>1, <1>3, <2>1, <3>1 DEF PmPlan
  <2>2. CASE s = <<Set("low_power")>>
    <3>1. Head(s)[1] = "set" /\ Head(s)[2] = "low_power" /\ Tail(s) = << >>
      BY <2>2 DEF Set
    <3> QED BY <1>1, <1>3, <2>2, <3>1 DEF PmPlan
  <2> QED BY <1>1, <1>3, <2>1, <2>2
<1>4. CASE ~ suspended
  <2>1. CASE s = ResumeTasks
    <3>1. /\ Head(s)[1] = "clear" /\ Head(s)[2] = "low_power"
          /\ Tail(s) = <<Set("enable"), Set("mode")>>
      BY <2>1 DEF ResumeTasks, Set, Clear
    <3> QED BY <1>4, <2>1, <3>1 DEF PmPlan
  <2>2. CASE s = <<Set("enable"), Set("mode")>>
    <3>1. Head(s)[1] = "set" /\ Head(s)[2] = "enable" /\ Tail(s) = <<Set("mode")>>
      BY <2>2 DEF Set
    <3> QED BY <1>4, <2>2, <3>1 DEF PmPlan
  <2>3. CASE s = <<Set("mode")>>
    <3>1. Head(s)[1] = "set" /\ Head(s)[2] = "mode" /\ Tail(s) = << >>
      BY <2>3 DEF Set
    <3> QED BY <1>4, <2>3, <3>1 DEF PmPlan
  <2> QED BY <1>2, <1>4, <2>1, <2>2, <2>3
<1> QED BY <1>3, <1>4

(* What the driver core does next says which phase it is in. *)
LEMMA ProbingHead ==
  ASSUME NEW s, Probing(s)
  PROVE  /\ s # << >>
         /\ \/ /\ Head(s)[1] = "irq" /\ s = ProbeRest /\ Tail(s) = Creating
            \/ /\ Head(s)[1] \in {"ready", "calibrated"} /\ Probing(Tail(s))
               /\ \E r \in Seq(ProbeTask) : Tail(s) = r \o ProbeRest
            \/ /\ Head(s)[1] = "set" /\ Head(s)[2] = "mode" /\ Probing(Tail(s))
<1>1. PICK p \in Seq(ProbeTask) : s = p \o ProbeRest
  BY DEF Probing
<1>2. ProbeRest \in Seq({Do("irq"), Do("create"), Do("bind")})
  BY DEF ProbeRest
<1>3. CASE p = << >>
  <2>1. s = ProbeRest
    BY <1>1, <1>2, <1>3
  <2> QED BY <2>1, Probe2 DEF Creating, Do
<1>4. CASE p # << >>
  <2>1. /\ Head(s) = Head(p) /\ Tail(s) = Tail(p) \o ProbeRest /\ s # << >>
        /\ Head(p) \in ProbeTask /\ Tail(p) \in Seq(ProbeTask)
    BY <1>1, <1>2, <1>4, NextTask
  <2>2. Probing(Tail(s)) /\ \E r \in Seq(ProbeTask) : Tail(s) = r \o ProbeRest
    BY <2>1 DEF Probing
  <2>3. \/ Head(p)[1] \in {"ready", "calibrated"}
        \/ Head(p)[1] = "set" /\ Head(p)[2] = "mode"
    BY <2>1 DEF ProbeTask, Set, Do
  <2> QED BY <2>1, <2>2, <2>3
<1> QED BY <1>3, <1>4

LEMMA CoreHead ==
  ASSUME Typed, NEW s, CorePlan(s), s # << >>
  PROVE  LET k == Head(s)[1]
         IN  \/ phase = "probing" /\ s = ProbeTasks /\ k = "set" /\ Head(s)[2] = "enable"
             \/ /\ phase = "probing" /\ Probing(s)
                /\ k \in {"irq", "ready", "calibrated"} \/ (k = "set" /\ Head(s)[2] = "mode")
             \/ phase = "probing" /\ s = Creating /\ k = "create"
             \/ phase = "probing" /\ s = Created /\ k = "bind"
             \/ phase = "removing" /\ s = RemoveTasks /\ k = "cancel"
             \/ phase = "removing" /\ s = Tail(RemoveTasks) /\ k = "destroy"
             \/ phase = "removing" /\ s = Freeing /\ k = "free_irq"
             \/ phase = "removing" /\ s = Tail(Freeing) /\ k = "clear" /\ Head(s)[2] = "enable"
             \/ phase = "removing" /\ s = <<Do("removed")>> /\ k = "removed"
             \/ phase = "down" /\ s = <<Clear("enable")>> /\ k = "clear" /\ Head(s)[2] = "enable"
<1>1. CASE phase = "probing"
  <2>1. s = ProbeTasks \/ Probing(s) \/ s = Creating \/ s = Created
    BY <1>1 DEF CorePlan
  <2>2. CASE s = ProbeTasks
    BY <1>1, <2>2, Probe1 DEF Set
  <2>3. CASE Probing(s)
    BY <1>1, <2>3, ProbingHead
  <2>4. CASE s = Creating \/ s = Created
    BY <1>1, <2>4 DEF Creating, Created, Do
  <2> QED BY <2>1, <2>2, <2>3, <2>4
<1>2. CASE phase = "removing"
  <2>1. s \in Removing
    BY <1>2 DEF CorePlan
  <2> QED BY <1>2, <2>1 DEF Removing, RemoveTasks, Freeing, Do, Clear
<1>3. CASE phase = "down"
  <2>1. s = <<Clear("enable")>>
    BY <1>3 DEF CorePlan
  <2> QED BY <1>3, <2>1 DEF Clear
<1>4. CASE phase \notin {"probing", "removing", "down"}
  BY <1>4 DEF CorePlan
<1> QED BY <1>1, <1>2, <1>3, <1>4

----------------------------------------------------------------------------
(* Processes *)

\* A process may start when the device is there and the system awake, and then goes on.
MayRun(t) ==
  \/ ~ Idle(t)
  \/ ~ suspended /\ (phase = "bound" \/ (phase = "probing" /\ todo["core"] = Created))

LEMMA ContextsApart ==
  /\ "work" \notin Users /\ "pm" \notin Users /\ "core" \notin Users
  /\ Users \subseteq Contexts /\ {"work", "pm", "core"} \subseteq Contexts
BY ControllerAssumption DEF ControllerAssumption, Contexts

LEMMA Starts ==
  ASSUME Typed, NEW t \in Contexts, NEW s, Start(t, s)
  PROVE  /\ DOMAIN todo' = Contexts /\ todo'[t] = s
         /\ \A u \in Contexts \ {t} : todo'[u] = todo[u]
BY DEF Typed, Start

LEMMA UserMoves ==
  ASSUME Typed, Plans, Turns, NEW t \in Users, NEW s, UserPlan(s), Start(t, s), MayRun(t),
         UNCHANGED <<phase, suspended>>, handlers' \in Nat,
         lowPower' \in BOOLEAN, lowPower' = lowPower \/ ~ suspended,
         DOMAIN seen' = Contexts,
         \A u \in Contexts : seen'[u] # {} => u # t /\ seen'[u] = seen[u]
  PROVE  /\ Typed' /\ Plans' /\ Turns'
         /\ todo'[t] = s /\ \A u \in Contexts \ {t} : todo'[u] = todo[u]
<1>1. /\ DOMAIN todo' = Contexts /\ todo'[t] = s
      /\ \A u \in Contexts \ {t} : todo'[u] = todo[u]
  BY Starts, ContextsApart
<1>2. /\ todo'["work"] = todo["work"] /\ todo'["pm"] = todo["pm"] /\ todo'["core"] = todo["core"]
  BY <1>1, ContextsApart
<1>3. Typed'
  <2>1. ASSUME NEW u \in Contexts, seen'[u] # {} PROVE (Task(u, "set") \/ Task(u, "clear"))'
    BY <1>1, <2>1 DEF Typed, Task, Idle
  <2> QED BY <1>1, <2>1 DEF Typed
<1>4. Plans'
  <2>1. \A u \in Users : UserPlan(todo[u])'
    BY <1>1, ContextsApart DEF Plans, UserPlan, ResetPending, ResetAhead
  <2>2. PmPlan(todo["pm"])' /\ CorePlan(todo["core"])'
    BY <1>2 DEF Plans, PmPlan, CorePlan
  <2> QED BY <1>2, <2>1, <2>2 DEF Plans
<1>5. Turns'
  <2>1. ASSUME NEW u \in Users, Idle(u), u # t PROVE Idle(u)'
    BY <1>1, <2>1, ContextsApart DEF Idle
  <2> QED BY <1>2, <2>1 DEF Turns, MayRun, Idle
<1> QED BY <1>1, <1>3, <1>4, <1>5

\* What a user's step leaves alone is where its predicates look.
LEMMA UserLeaves ==
  ASSUME UNCHANGED <<phase, suspended>>, lowPower' = lowPower \/ ~ suspended,
         todo'["core"] = todo["core"], todo'["pm"] = todo["pm"]
  PROVE  /\ Withdrawn' = Withdrawn /\ Unrequested' = Unrequested
         /\ Enabled' = Enabled /\ Disabled' = Disabled
BY DEF Withdrawn, Unrequested, Enabled, Disabled

LEMMA UserSettles ==
  ASSUME ControllerInv, NEW t \in Users, NEW s, UserPlan(s), Start(t, s), MayRun(t),
         ~ ResetPending(todo[t]),
         UNCHANGED <<phase, suspended, registered, controlState>>,
         lowPower' \in BOOLEAN, lowPower' = lowPower \/ ~ suspended,
         seen' = seen, seen[t] = {},
         handlers' \in Nat, stray' \/ (stray' = stray /\ handlers' = handlers)
  PROVE  ControllerInv'
<1>1. Typed /\ Plans /\ Turns /\ Registered /\ (~ lost => Switches)
  BY DEF ControllerInv
<1>2. /\ DOMAIN seen' = Contexts
      /\ \A u \in Contexts : seen'[u] # {} => u # t /\ seen'[u] = seen[u]
  BY <1>1 DEF Typed
<1>3. /\ Typed' /\ Plans' /\ Turns'
      /\ todo'[t] = s /\ \A u \in Contexts \ {t} : todo'[u] = todo[u]
  BY <1>1, <1>2, UserMoves
<1>4. todo'["pm"] = todo["pm"] /\ todo'["core"] = todo["core"]
  BY <1>3, ContextsApart
<1>5. /\ Withdrawn' = Withdrawn /\ Unrequested' = Unrequested
      /\ Enabled' = Enabled /\ Disabled' = Disabled
  BY <1>4, UserLeaves
<1>6. Registered'
  BY <1>1, <1>5 DEF Registered
<1>7. ASSUME ~ lost, Switches PROVE Switches'
  <2>1. control' = control
    BY DEF controlState
  <2>2. ASSUME NEW u \in Users, ResetPending(todo[u]) PROVE ResetPending(todo[u])'
    <3>1. todo'[u] = todo[u]
      BY <1>3, <2>2, ContextsApart
    <3> QED BY <2>2, <3>1 DEF ResetPending
  <2> QED BY <1>4, <1>5, <1>7, <2>1, <2>2 DEF Switches
<1> QED BY <1>1, <1>3, <1>6, <1>7 DEF ControllerInv, controlState

LEMMA UserLists2 ==
  /\ \A s \in Seq(UserTask) : UserPlan(s)
  /\ \A c \in Commands \cup Ioctls : UserPlan(c)
<1>1. \A s \in Seq(UserTask) : UserPlan(s)
  BY DEF UserPlan
<1>2. \A r \in Seq(UserTask) : UserPlan(<<Set("reset"), Clear("reset")>> \o r)
  <2> SUFFICES ASSUME NEW r \in Seq(UserTask)
               PROVE  UserPlan(<<Set("reset"), Clear("reset")>> \o r)
    OBVIOUS
  <2>1. ResetPending(<<Clear("reset")>> \o r)
    BY First1 DEF ResetPending
  <2> QED BY <2>1, First2 DEF UserPlan, ResetAhead
<1>3. UserPlan(HwReset)
  BY <1>2, Reset1, UserLists
<1>4. UserPlan(HwReset \o <<Do("unlock")>>)
  <2>1. HwReset \o <<Do("unlock")>> = <<Set("reset"), Clear("reset")>> \o (HwInit \o <<Do("unlock")>>)
    BY DEF HwReset, HwInit
  <2>2. HwInit \o <<Do("unlock")>> \in Seq(UserTask)
    BY DEF HwInit, UserTask
  <2> QED BY <1>2, <2>1, <2>2
<1>5. UserPlan(Calibrate \o <<Do("unlock")>>)
  <2>1. Calibrate \o <<Do("unlock")>> \in Seq(UserTask)
    BY DEF Calibrate, UserTask
  <2> QED BY <1>1, <2>1
<1>6. UserPlan(<<Set("mode")>>) /\ UserPlan(<<Set("low_power"), Do("low_power_mode")>>)
  <2>1. <<Set("mode")>> \in Seq(UserTask) /\ <<Set("low_power"), Do("low_power_mode")>> \in Seq(UserTask)
    BY DEF UserTask
  <2> QED BY <1>1, <2>1
<1> QED BY <1>1, <1>3, <1>4, <1>5, <1>6 DEF Commands, Ioctls

(* A process that starts. *)
LEMMA UserStarts ==
  ASSUME ControllerInv, NEW t \in Users, Write(t) \/ Ioctl(t)
  PROVE  ControllerInv'
<1>1. PICK c \in Commands \cup Ioctls : Start(t, c)
  BY DEF Write, Ioctl
<1>2. /\ Idle(t) /\ ~ suspended /\ "cdev" \in registered /\ phase \in {"probing", "bound"}
      /\ UNCHANGED <<driverState, controlState, seen>>
  BY DEF Write, Ioctl, Awake
<1>3. MayRun(t)
  BY <1>2 DEF MayRun, ControllerInv, Registered, Withdrawn
<1>4. ~ ResetPending(todo[t]) /\ seen[t] = {}
  BY <1>2, ContextsApart DEF ResetPending, Idle, ControllerInv, Typed, Task
<1>5. handlers' \in Nat /\ lowPower' \in BOOLEAN
  BY <1>2 DEF driverState, ControllerInv, Typed
<1> QED BY <1>1, <1>2, <1>3, <1>4, <1>5, UserSettles, UserLists2 DEF driverState

(* A task of a process that is no change of the control register. *)
LEMMA UserTasks ==
  ASSUME ControllerInv, NEW t \in Users,
         CheckReady(t) \/ CheckCalibrated(t) \/ RequestIrq(t) \/ LowPowerMode(t) \/ Unlock(t)
  PROVE  ControllerInv'
<1> DEFINE s == todo[t]
           k == Head(s)[1]
<1>1. k \in {"ready", "calibrated", "irq", "low_power_mode", "unlock"} /\ s # << >> /\ ~ Idle(t)
  BY DEF CheckReady, CheckCalibrated, RequestIrq, LowPowerMode, Unlock, Task, Idle
<1>2. t # "core" /\ t \in Contexts
  BY ContextsApart
<1>3. UserPlan(s)
  BY DEF ControllerInv, Plans
<1>4. /\ s \in Seq(UserTask) /\ Tail(s) \in Seq(UserTask) /\ ~ ResetPending(s)
  BY <1>1, <1>3, UserHead
<1>5. seen[t] = {} /\ MayRun(t)
  BY <1>1, <1>2 DEF ControllerInv, Typed, Task, MayRun
<1>6. \E r \in Seq(UserTask) : Start(t, r)
  <2>1. << >> \in Seq(UserTask)
    OBVIOUS
  <2>2. ASSUME NEW c \in {<< >>, Calibrate}, NEW e \in {<< >>, <<Set("mode")>>}
        PROVE  c \o e \o Tail(s) \in Seq(UserTask)
    <3>1. c \in Seq(UserTask) /\ e \in Seq(UserTask)
      BY UserLists
    <3> QED BY <1>4, <3>1
  <2>3. CASE CheckReady(t)
    BY <2>1, <2>2, <2>3 DEF CheckReady, Fail
  <2>4. CASE CheckCalibrated(t) \/ RequestIrq(t) \/ LowPowerMode(t) \/ Unlock(t)
    BY <1>4, <2>1, <2>4 DEF CheckCalibrated, RequestIrq, LowPowerMode, Unlock, Continue, Fail
  <2> QED BY <2>3, <2>4
<1>7. /\ UNCHANGED <<suspended, registered, controlState, seen>>
      /\ phase' = phase
  BY <1>2 DEF CheckReady, CheckCalibrated, RequestIrq, LowPowerMode, Unlock, Fail, driverState
<1>8. handlers' \in Nat /\ (stray' \/ (stray' = stray /\ handlers' = handlers))
  <2>1. handlers \in Nat
    BY DEF ControllerInv, Typed
  <2>2. CASE RequestIrq(t)
    <3>1. \/ handlers' = handlers + 1 /\ stray'
          \/ handlers' = handlers /\ stray' = stray
      BY <1>2, <2>2 DEF RequestIrq
    <3> QED BY <2>1, <3>1
  <2>3. CASE CheckReady(t) \/ CheckCalibrated(t) \/ LowPowerMode(t) \/ Unlock(t)
    BY <2>1, <2>3 DEF CheckReady, CheckCalibrated, LowPowerMode, Unlock, driverState
  <2> QED BY <2>2, <2>3
<1>9. lowPower' \in BOOLEAN /\ (lowPower' = lowPower \/ ~ suspended)
  <2>1. lowPower \in BOOLEAN /\ (suspended => \A u \in Users : Idle(u))
    BY DEF ControllerInv, Typed, Turns
  <2> QED BY <1>1, <2>1 DEF CheckReady, CheckCalibrated, RequestIrq, LowPowerMode, Unlock,
     driverState
<1> HIDE DEF s, k
<1>10. PICK r \in Seq(UserTask) : Start(t, r)
  BY <1>6
<1> QED BY <1>4, <1>5, <1>7, <1>8, <1>9, <1>10, UserSettles, UserLists2 DEF s

----------------------------------------------------------------------------
(* Changes of the control register.  As long as none was overwritten, a write changes what the
   register holds, for what the thread read is still there. *)

LEMMA ReadSettles ==
  ASSUME ControllerInv, NEW t \in Contexts, ReadControl(t)
  PROVE  ControllerInv'
<1>1. UNCHANGED <<driverState, controlState, todo>> /\ (Task(t, "set") \/ Task(t, "clear"))
  BY DEF ReadControl
<1>2. Typed'
  BY <1>1 DEF ReadControl, ControllerInv, Typed, driverState, Task, Idle
<1>3. Plans' /\ Turns' /\ Registered'
  BY <1>1 DEF ControllerInv, driverState, Plans, PmPlan, CorePlan, Probing, UserPlan, ResetPending,
     ResetAhead, Turns, Idle, Registered, Withdrawn, Unrequested
<1>4. lost' = lost /\ (Switches => Switches')
  BY <1>1 DEF driverState, controlState, Switches, Enabled, Disabled, ResetPending
<1> QED BY <1>2, <1>3, <1>4 DEF ControllerInv

LEMMA Writes ==
  ASSUME Typed, NEW t \in Contexts, WriteControl(t)
  PROVE  /\ Start(t, Tail(todo[t])) /\ ~ Idle(t)
         /\ UNCHANGED driverState
         /\ DOMAIN seen' = Contexts
         /\ \A u \in Contexts : seen'[u] # {} => u # t /\ seen'[u] = seen[u]
         /\ Task(t, "set") \/ Task(t, "clear")
         /\ ~ lost' =>
              /\ ~ lost
              /\ Task(t, "set") => control' = control \cup {Head(todo[t])[2]}
              /\ ~ Task(t, "set") => control' = control \ {Head(todo[t])[2]}
<1>1. PICK value \in seen[t] :
        /\ control' = IF Task(t, "set") THEN value \cup {Head(todo[t])[2]}
                                        ELSE value \ {Head(todo[t])[2]}
        /\ lost' = (lost \/ value # control)
        /\ seen' = [seen EXCEPT ![t] = {}]
        /\ Start(t, Tail(todo[t])) /\ UNCHANGED driverState
  BY DEF WriteControl, Continue
<1>2. ~ lost' => ~ lost /\ value = control
  BY <1>1
<1>3. Task(t, "set") \/ Task(t, "clear")
  BY <1>1 DEF Typed
<1>4. ~ Idle(t)
  BY <1>3 DEF Task
<1>5. /\ DOMAIN seen' = Contexts
      /\ \A u \in Contexts : seen'[u] # {} => u # t /\ seen'[u] = seen[u]
  BY <1>1 DEF Typed
<1>6. ~ lost' => /\ Task(t, "set") => control' = control \cup {Head(todo[t])[2]}
                 /\ ~ Task(t, "set") => control' = control \ {Head(todo[t])[2]}
  BY <1>1, <1>2
<1> QED BY <1>1, <1>2, <1>3, <1>4, <1>5, <1>6

LEMMA UserWrites ==
  ASSUME ControllerInv, NEW t \in Users, WriteControl(t)
  PROVE  ControllerInv'
<1> DEFINE s == todo[t]
<1>1. Typed /\ Plans /\ Turns /\ Registered /\ (~ lost => Switches) /\ t \in Contexts
  BY ContextsApart DEF ControllerInv
<1>2. /\ Start(t, Tail(s)) /\ ~ Idle(t)
      /\ UNCHANGED driverState
      /\ DOMAIN seen' = Contexts
      /\ \A u \in Contexts : seen'[u] # {} => u # t /\ seen'[u] = seen[u]
      /\ Task(t, "set") \/ Task(t, "clear")
      /\ ~ lost' =>
           /\ ~ lost
           /\ Task(t, "set") => control' = control \cup {Head(s)[2]}
           /\ ~ Task(t, "set") => control' = control \ {Head(s)[2]}
  BY <1>1, Writes
<1>3. UserPlan(s) /\ s # << >>
  BY <1>1, <1>2 DEF Plans, Idle
<1>4. UserPlan(Tail(s))
  BY <1>3, UserHead
<1>5. UNCHANGED <<phase, suspended, registered, handlers, lowPower, stray>>
  BY <1>2 DEF driverState
<1>6. handlers' \in Nat /\ lowPower' \in BOOLEAN /\ MayRun(t)
  BY <1>1, <1>2, <1>5 DEF Typed, MayRun
<1>7. /\ Typed' /\ Plans' /\ Turns'
      /\ todo'[t] = Tail(s) /\ \A u \in Contexts \ {t} : todo'[u] = todo[u]
  BY <1>1, <1>2, <1>4, <1>5, <1>6, UserMoves
<1>8. todo'["pm"] = todo["pm"] /\ todo'["core"] = todo["core"]
  BY <1>7, ContextsApart
<1>9. /\ Withdrawn' = Withdrawn /\ Unrequested' = Unrequested
      /\ Enabled' = Enabled /\ Disabled' = Disabled
  BY <1>5, <1>8, UserLeaves
<1>10. Registered'
  BY <1>1, <1>5, <1>9 DEF Registered
<1>11. ASSUME ~ lost' PROVE Switches'
  <2>1. Switches
    BY <1>1, <1>2, <1>11
  <2>2. ASSUME NEW u \in Users, u # t, ResetPending(todo[u]) PROVE ResetPending(todo[u])'
    <3>1. todo'[u] = todo[u]
      BY <1>7, <2>2, ContextsApart
    <3> QED BY <2>2, <3>1 DEF ResetPending
  <2>3. ~ Disabled /\ ~ suspended
    BY <1>1, <1>2 DEF Turns, Disabled
  <2>4. CASE Task(t, "clear")
    <3>1. Head(s)[2] = "reset" /\ ~ Task(t, "set")
      BY <1>3, <2>4, UserHead DEF Task
    <3>2. control' = control \ {"reset"}
      BY <1>2, <1>11, <3>1
    <3> QED BY <1>5, <1>8, <1>9, <2>1, <2>3, <3>2 DEF Switches
  <2>5. CASE Task(t, "set") /\ ResetAhead(s)
    <3>1. Head(s)[2] = "reset"
      BY <2>5 DEF ResetAhead, Set
    <3>2. control' = control \cup {"reset"}
      BY <1>2, <1>11, <2>5, <3>1
    <3>3. ResetPending(todo[t])'
      BY <1>7, <2>5 DEF ResetAhead, ResetPending
    <3> QED BY <1>5, <1>8, <1>9, <2>1, <2>3, <3>2, <3>3 DEF Switches
  <2>6. CASE Task(t, "set") /\ ~ ResetAhead(s)
    <3>1. Head(s)[2] \in {"mode", "low_power", "enable"} /\ ~ ResetPending(s)
      BY <1>3, <2>6, UserHead DEF Task
    <3>2. control' = control \cup {Head(s)[2]}
      BY <1>2, <1>11, <2>6
    <3>3. /\ "reset" \in control' => "reset" \in control
          /\ "enable" \in control => "enable" \in control'
      BY <3>1, <3>2
    <3>4. "reset" \in control => \E u \in Users : u # t /\ ResetPending(todo[u])
      BY <2>1, <3>1 DEF Switches
    <3> QED BY <1>5, <1>8, <1>9, <2>1, <2>2, <2>3, <3>3, <3>4 DEF Switches
  <2> QED BY <1>2, <2>4, <2>5, <2>6
<1> QED BY <1>7, <1>10, <1>11 DEF ControllerInv

----------------------------------------------------------------------------
(* The other contexts *)

LEMMA OtherMoves ==
  ASSUME Typed, Plans, NEW t \in {"work", "pm", "core"}, NEW s, Start(t, s),
         phase' \in {"absent", "probing", "bound", "removing", "down", "dead"},
         suspended' \in BOOLEAN, lowPower' \in BOOLEAN, handlers' \in Nat,
         DOMAIN seen' = Contexts,
         \A u \in Contexts : seen'[u] # {} => u # t /\ seen'[u] = seen[u]
  PROVE  /\ Typed'
         /\ todo'[t] = s /\ \A u \in {"work", "pm", "core"} \ {t} : todo'[u] = todo[u]
         /\ \A u \in Users : /\ UserPlan(todo[u])'
                             /\ Idle(u)' = Idle(u)
                             /\ ResetPending(todo[u])' = ResetPending(todo[u])
<1>1. /\ DOMAIN todo' = Contexts /\ todo'[t] = s
      /\ \A u \in Contexts \ {t} : todo'[u] = todo[u]
  BY Starts, ContextsApart
<1>2. Typed'
  <2>1. ASSUME NEW u \in Contexts, seen'[u] # {} PROVE (Task(u, "set") \/ Task(u, "clear"))'
    BY <1>1, <2>1 DEF Typed, Task, Idle
  <2> QED BY <1>1, <2>1 DEF Typed
<1>3. \A u \in Users : todo'[u] = todo[u]
  BY <1>1, ContextsApart
<1>4. \A u \in Users : /\ UserPlan(todo[u])'
                       /\ Idle(u)' = Idle(u)
                       /\ ResetPending(todo[u])' = ResetPending(todo[u])
  BY <1>3 DEF Plans, UserPlan, ResetPending, ResetAhead, Idle
<1> QED BY <1>1, <1>2, <1>4, ContextsApart

(* The calibration work only ever sets a mode. *)
LEMMA WorkSettles ==
  ASSUME ControllerInv,
         \/ CalibrationWork
         \/ WriteControl("work") \/ CheckReady("work") \/ CheckCalibrated("work")
         \/ RequestIrq("work")
  PROVE  ControllerInv'
<1> DEFINE s == todo["work"]
<1>1. Typed /\ Plans /\ Turns /\ Registered /\ (~ lost => Switches) /\ "work" \in Contexts
  BY ContextsApart DEF ControllerInv
<1>2. s \in Seq(WorkTask)
  BY <1>1 DEF Plans
<1>3. /\ s # << >> => Tail(s) \in Seq(WorkTask) /\ Head(s)[1] \in {"set", "calibrated"}
      /\ Head(s)[1] = "set" /\ s # << >> => Head(s)[2] = "mode"
  BY <1>2, WorkHead
<1>4. ~ CheckReady("work") /\ ~ RequestIrq("work")
  BY <1>3 DEF CheckReady, RequestIrq, Task, Idle
<1>5. /\ \E r \in Seq(WorkTask) : Start("work", r)
      /\ UNCHANGED driverState
      /\ DOMAIN seen' = Contexts
      /\ \A u \in Contexts : seen'[u] # {} => u # "work" /\ seen'[u] = seen[u]
      /\ ~ lost' => ~ lost /\ control' \in {control, control \cup {"mode"}}
  <2>1. CASE CalibrationWork
    <3>1. seen["work"] = {}
      BY <1>1, <2>1 DEF CalibrationWork, Typed, Task
    <3> QED BY <1>1, <2>1, <3>1, UserLists DEF CalibrationWork, Typed, controlState
  <2>2. CASE CheckCalibrated("work")
    <3>1. seen["work"] = {} /\ Tail(s) \in Seq(WorkTask)
      BY <1>1, <1>3, <2>2 DEF CheckCalibrated, Typed, Task, Idle
    <3>2. << >> \in Seq(WorkTask)
      OBVIOUS
    <3>3. Start("work", Tail(s)) \/ Start("work", << >>)
      BY <2>2 DEF CheckCalibrated, Continue, Fail
    <3>4. UNCHANGED <<driverState, controlState, seen>>
      BY <2>2 DEF CheckCalibrated, Fail, driverState
    <3>5. \E r \in Seq(WorkTask) : Start("work", r)
      BY <3>1, <3>2, <3>3
    <3> QED BY <1>1, <3>1, <3>4, <3>5 DEF Typed, controlState
  <2>3. CASE WriteControl("work")
    <3>1. /\ Start("work", Tail(s)) /\ ~ Idle("work")
          /\ UNCHANGED driverState
          /\ DOMAIN seen' = Contexts
          /\ \A u \in Contexts : seen'[u] # {} => u # "work" /\ seen'[u] = seen[u]
          /\ Task("work", "set") \/ Task("work", "clear")
          /\ ~ lost' => /\ ~ lost
                        /\ Task("work", "set") => control' = control \cup {Head(s)[2]}
      BY <1>1, <2>3, Writes
    <3>2. Task("work", "set") /\ Head(s)[2] = "mode" /\ Tail(s) \in Seq(WorkTask)
      BY <1>3, <3>1 DEF Task, Idle
    <3>3. \E r \in Seq(WorkTask) : Start("work", r)
      BY <3>1, <3>2
    <3> QED BY <3>1, <3>2, <3>3
  <2> QED BY <1>4, <2>1, <2>2, <2>3
<1> HIDE DEF s
<1>6. PICK r \in Seq(WorkTask) : Start("work", r)
  BY <1>5
<1>7. UNCHANGED <<phase, suspended, registered, handlers, lowPower, stray>>
  BY <1>5 DEF driverState
<1>8. /\ phase' \in {"absent", "probing", "bound", "removing", "down", "dead"}
      /\ suspended' \in BOOLEAN /\ lowPower' \in BOOLEAN /\ handlers' \in Nat
  BY <1>1, <1>7 DEF Typed
<1>9. /\ Typed'
      /\ todo'["work"] = r /\ todo'["pm"] = todo["pm"] /\ todo'["core"] = todo["core"]
      /\ \A u \in Users : /\ UserPlan(todo[u])'
                          /\ Idle(u)' = Idle(u)
                          /\ ResetPending(todo[u])' = ResetPending(todo[u])
  BY <1>1, <1>5, <1>6, <1>8, OtherMoves
<1>10. Plans'
  <2>1. PmPlan(todo["pm"])' /\ CorePlan(todo["core"])'
    BY <1>1, <1>7, <1>9 DEF Plans, PmPlan, CorePlan, Probing
  <2> QED BY <1>9, <2>1 DEF Plans
<1>11. Turns'
  BY <1>1, <1>7, <1>9 DEF Turns, Idle
<1>12. Registered'
  BY <1>1, <1>7, <1>9 DEF Registered, Withdrawn, Unrequested
<1>13. ASSUME ~ lost' PROVE Switches'
  <2>1. /\ Switches
        /\ \A b \in {"reset", "enable", "low_power"} : b \in control' <=> b \in control
    BY <1>1, <1>5, <1>13
  <2>2. Enabled' = Enabled /\ Disabled' = Disabled
    BY <1>7, <1>9 DEF Enabled, Disabled
  <2> QED BY <1>7, <1>9, <2>1, <2>2 DEF Switches
<1> QED BY <1>9, <1>10, <1>11, <1>12, <1>13 DEF ControllerInv

LEMMA PmPlansApart ==
  /\ << >> \notin {ResumeTasks, <<Set("enable"), Set("mode")>>, SuspendTasks}
  /\ <<Set("mode")>> \notin {ResumeTasks, <<Set("enable"), Set("mode")>>}
  /\ <<Set("low_power")>> # SuspendTasks /\ <<Set("low_power")>> # << >>
BY DEF ResumeTasks, SuspendTasks

(* System sleep begins and ends while no process runs; what it left to do it does. *)
LEMMA PmSettles ==
  ASSUME ControllerInv,
         \/ ddr_suspend \/ ddr_resume
         \/ WriteControl("pm") \/ CheckReady("pm") \/ CheckCalibrated("pm") \/ RequestIrq("pm")
  PROVE  ControllerInv'
<1> DEFINE s == todo["pm"]
<1>1. Typed /\ Plans /\ Turns /\ Registered /\ (~ lost => Switches) /\ "pm" \in Contexts
  BY ContextsApart DEF ControllerInv
<1>2. PmPlan(s) /\ (~ Idle("pm") => s # << >> /\ phase = "bound")
  BY <1>1 DEF Plans, Turns, Idle
<1>3. ASSUME NEW r, Start("pm", r), UNCHANGED <<phase, registered, handlers, lowPower, stray>>,
             suspended' \in BOOLEAN, suspended' => phase = "bound", phase = "bound",
             PmPlan(r)',
             suspended' => \A u \in Users : Idle(u),
             DOMAIN seen' = Contexts,
             \A u \in Contexts : seen'[u] # {} => u # "pm" /\ seen'[u] = seen[u]
      PROVE  /\ Typed' /\ Plans' /\ Turns' /\ Registered'
             /\ todo'["pm"] = r /\ phase' = "bound"
             /\ \A u \in Users : ResetPending(todo[u])' = ResetPending(todo[u])
  <2>1. /\ phase' \in {"absent", "probing", "bound", "removing", "down", "dead"}
        /\ lowPower' \in BOOLEAN /\ handlers' \in Nat
    BY <1>1, <1>3 DEF Typed
  <2>2. /\ Typed'
        /\ todo'["pm"] = r /\ todo'["work"] = todo["work"] /\ todo'["core"] = todo["core"]
        /\ \A u \in Users : /\ UserPlan(todo[u])'
                            /\ Idle(u)' = Idle(u)
                            /\ ResetPending(todo[u])' = ResetPending(todo[u])
    BY <1>1, <1>3, <2>1, OtherMoves
  <2>3. Plans'
    <3>1. CorePlan(todo["core"])'
      BY <1>1, <1>3, <2>2 DEF Plans, CorePlan, Probing
    <3>2. PmPlan(todo["pm"])'
      BY <1>3, <2>2 DEF PmPlan
    <3> QED BY <1>1, <2>2, <3>1, <3>2 DEF Plans
  <2>4. Turns'
    BY <1>1, <1>3, <2>2 DEF Turns, Idle
  <2>5. Registered'
    BY <1>1, <1>3, <2>2 DEF Registered, Withdrawn, Unrequested
  <2> QED BY <1>3, <2>2, <2>3, <2>4, <2>5
<1>4. CASE ddr_suspend
  <2>0. PICK r : r = IF lowPower THEN SuspendTasks ELSE << >>
    OBVIOUS
  <2>1. /\ phase = "bound" /\ ~ suspended /\ Idle("pm") /\ suspended' = TRUE
        /\ \A u \in Users : Idle(u)
        /\ Start("pm", r)
        /\ UNCHANGED <<phase, registered, handlers, lowPower, stray, controlState, seen>>
    BY <1>4, <2>0 DEF ddr_suspend, Awake, SuspendTasks
  <2>2. PmPlan(r)'
    BY <2>0, <2>1 DEF PmPlan
  <2>3. seen["pm"] = {} /\ DOMAIN seen = Contexts
    BY <1>1, <2>1 DEF Typed, Task
  <2>4. /\ Typed' /\ Plans' /\ Turns' /\ Registered'
        /\ todo'["pm"] = r /\ phase' = "bound"
        /\ \A u \in Users : ResetPending(todo[u])' = ResetPending(todo[u])
    BY <1>3, <2>1, <2>2, <2>3
  <2>5. ASSUME ~ lost, Switches PROVE Switches'
    <3>1. ~ lowPower => "enable" \in control
      BY <2>1, <2>5, PmPlansApart DEF Switches, Enabled, Idle
    <3>2. lowPower => r = SuspendTasks
      BY <2>0
    <3> QED BY <2>1, <2>4, <2>5, <3>1, <3>2, PmPlansApart
            DEF Switches, Enabled, Disabled, controlState
  <2> QED BY <1>1, <2>1, <2>4, <2>5 DEF ControllerInv, controlState
<1>5. CASE ddr_resume
  <2>1. /\ suspended /\ Idle("pm") /\ suspended' = FALSE
        /\ Start("pm", ResumeTasks)
        /\ UNCHANGED <<phase, registered, handlers, lowPower, stray, controlState, seen>>
    BY <1>5 DEF ddr_resume
  <2>2. PmPlan(ResumeTasks)' /\ phase = "bound"
    BY <1>1, <2>1 DEF PmPlan, Turns
  <2>3. seen["pm"] = {} /\ DOMAIN seen = Contexts
    BY <1>1, <2>1 DEF Typed, Task
  <2>4. /\ Typed' /\ Plans' /\ Turns' /\ Registered'
        /\ todo'["pm"] = ResumeTasks /\ phase' = "bound"
        /\ \A u \in Users : ResetPending(todo[u])' = ResetPending(todo[u])
    BY <1>3, <2>1, <2>2, <2>3
  <2>5. Switches => Switches'
    BY <2>1, <2>4 DEF Switches, Enabled, Disabled, controlState
  <2> QED BY <1>1, <2>1, <2>4, <2>5 DEF ControllerInv, controlState
<1>6. CASE WriteControl("pm")
  <2>1. /\ Start("pm", Tail(s)) /\ ~ Idle("pm")
        /\ UNCHANGED driverState
        /\ DOMAIN seen' = Contexts
        /\ \A u \in Contexts : seen'[u] # {} => u # "pm" /\ seen'[u] = seen[u]
        /\ ~ lost' =>
             /\ ~ lost
             /\ Task("pm", "set") => control' = control \cup {Head(s)[2]}
             /\ ~ Task("pm", "set") => control' = control \ {Head(s)[2]}
    BY <1>1, <1>6, Writes
  <2>2. s # << >> /\ phase = "bound" /\ (Task("pm", "set") <=> Head(s)[1] = "set")
    BY <1>2, <2>1 DEF Task, Idle
  <2>3. UNCHANGED <<phase, suspended, registered, handlers, lowPower, stray>>
    BY <2>1 DEF driverState
  <2>4. PmPlan(Tail(s)) /\ (suspended => lowPower)
    BY <1>2, <2>2, PmHead
  <2>6. \E r : r = Tail(s)
    OBVIOUS
  <2>7. PICK r : r = Tail(s)
    BY <2>6
  <2>8. PmPlan(r)'
    BY <2>3, <2>4, <2>7 DEF PmPlan
  <2>9. suspended' \in BOOLEAN /\ (suspended' => \A u \in Users : Idle(u))
    BY <1>1, <2>3 DEF Typed, Turns
  <2>10. /\ Typed' /\ Plans' /\ Turns' /\ Registered'
         /\ todo'["pm"] = r /\ phase' = "bound"
         /\ \A u \in Users : ResetPending(todo[u])' = ResetPending(todo[u])
    BY <1>3, <2>1, <2>2, <2>3, <2>7, <2>8, <2>9
  <2>11. ASSUME ~ lost' PROVE Switches'
    <3>1. /\ Switches /\ ~ lost
          /\ Task("pm", "set") => control' = control \cup {Head(s)[2]}
          /\ ~ Task("pm", "set") => control' = control \ {Head(s)[2]}
      BY <1>1, <2>1, <2>11
    <3>2. CASE /\ Head(s)[1] = "clear" /\ Head(s)[2] = "enable"
               /\ suspended /\ s = SuspendTasks /\ r = <<Set("low_power")>>
      <4>1. control' = control \ {"enable"}
        BY <2>2, <3>1, <3>2
      <4> QED BY <2>2, <2>3, <2>4, <2>10, <3>1, <3>2, <4>1, PmPlansApart
              DEF Switches, Enabled, Disabled
    <3>3. CASE /\ Head(s)[1] = "set" /\ Head(s)[2] = "low_power"
               /\ suspended /\ s = <<Set("low_power")>> /\ r = << >>
      <4>1. control' = control \cup {"low_power"} /\ "enable" \notin control
        BY <2>2, <2>4, <3>1, <3>3, PmPlansApart DEF Switches, Disabled
      <4> QED BY <2>2, <2>3, <2>4, <2>10, <3>1, <3>3, <4>1, PmPlansApart
              DEF Switches, Enabled, Disabled
    <3>4. CASE /\ Head(s)[1] = "clear" /\ Head(s)[2] = "low_power"
               /\ ~ suspended /\ r = <<Set("enable"), Set("mode")>>
      <4>1. control' = control \ {"low_power"}
        BY <2>2, <3>1, <3>4
      <4> QED BY <2>2, <2>3, <2>10, <3>1, <3>4, <4>1 DEF Switches, Enabled, Disabled
    <3>5. CASE /\ Head(s)[1] = "set" /\ Head(s)[2] = "enable" /\ ~ suspended
      <4>1. control' = control \cup {"enable"}
        BY <2>2, <3>1, <3>5
      <4> QED BY <2>2, <2>3, <2>10, <3>1, <3>5, <4>1 DEF Switches, Enabled, Disabled
    <3>6. CASE /\ Head(s)[1] = "set" /\ Head(s)[2] = "mode"
               /\ ~ suspended /\ s = <<Set("mode")>>
      <4>1. control' = control \cup {"mode"} /\ "enable" \in control
        BY <2>2, <3>1, <3>6, PmPlansApart DEF Switches, Enabled
      <4> QED BY <2>2, <2>3, <2>10, <3>1, <3>6, <4>1 DEF Switches, Enabled, Disabled
    <3> QED BY <1>2, <2>2, <2>7, <3>2, <3>3, <3>4, <3>5, <3>6, PmHead
  <2> QED BY <2>10, <2>11 DEF ControllerInv
<1>7. ~ CheckReady("pm") /\ ~ CheckCalibrated("pm") /\ ~ RequestIrq("pm")
  <2>1. s # << >> => Head(s)[1] \in {"set", "clear"}
    BY <1>2, PmHead
  <2> QED BY <2>1 DEF CheckReady, CheckCalibrated, RequestIrq, Task, Idle
<1> QED BY <1>4, <1>5, <1>6, <1>7

----------------------------------------------------------------------------
(* The driver core *)

\* With whom a step of the driver core leaves the turn.
UsersQuiet(s) ==
  (\A u \in Users : Idle(u)) \/ phase' = "bound" \/ (phase' = "probing" /\ s = Created)

\* What a step of the driver core leaves for the registrations and for the control register.
Leaves(s) ==
  /\ phase' = "absent" \/ (phase' = "probing" /\ s # Created)
     \/ (phase' = "removing" /\ s \in {Freeing, Tail(Freeing), <<Do("removed")>>})
       => registered' = {}
  /\ ~ stray' /\ phase' \in {"probing", "bound", "removing"} => handlers' <= 1
  /\ ~ stray' /\ (phase' = "absent" \/ (phase' = "probing" /\ s \notin {Creating, Created})
                  \/ (phase' = "removing" /\ s \in {Tail(Freeing), <<Do("removed")>>}))
       => handlers' = 0

Switched(s) ==
  /\ "reset" \in control' => "reset" \in control
  /\ (phase' = "probing" /\ s # ProbeTasks) \/ phase' = "bound" => "enable" \in control'
  /\ phase' = "down" /\ s = << >> => "enable" \notin control'

LEMMA CoreSettles ==
  ASSUME ControllerInv, NEW s, Start("core", s), ~ suspended, Idle("pm"), suspended' = suspended,
         phase' \in {"absent", "probing", "bound", "removing", "down", "dead"},
         lowPower' \in BOOLEAN, handlers' \in Nat,
         DOMAIN seen' = Contexts,
         \A u \in Contexts : seen'[u] # {} => u # "core" /\ seen'[u] = seen[u],
         CorePlan(s)', UsersQuiet(s), Leaves(s), ~ lost' => ~ lost /\ Switched(s)
  PROVE  ControllerInv'
<1>1. Typed /\ Plans /\ Turns /\ (~ lost => Switches)
  BY DEF ControllerInv
<1>2. suspended' \in BOOLEAN
  BY <1>1 DEF Typed
<1>3. /\ Typed'
      /\ todo'["core"] = s /\ todo'["work"] = todo["work"] /\ todo'["pm"] = todo["pm"]
      /\ \A u \in Users : /\ UserPlan(todo[u])'
                          /\ Idle(u)' = Idle(u)
                          /\ ResetPending(todo[u])' = ResetPending(todo[u])
  BY <1>1, <1>2, OtherMoves
<1>4. Plans'
  <2>1. PmPlan(todo["pm"])'
    BY <1>3 DEF PmPlan, Idle
  <2>2. CorePlan(todo["core"])'
    BY <1>3 DEF CorePlan, Probing
  <2> QED BY <1>1, <1>3, <2>1, <2>2 DEF Plans
<1>5. Turns'
  <2>1. ~ suspended' /\ Idle("pm")'
    BY <1>3 DEF Idle
  <2>2. \/ \A u \in Users : Idle(u)'
        \/ phase' = "bound" \/ (phase' = "probing" /\ todo'["core"] = Created)
    BY <1>3 DEF UsersQuiet
  <2> QED BY <2>1, <2>2 DEF Turns
<1>6. Registered'
  BY <1>3 DEF Registered, Withdrawn, Unrequested, Leaves
<1>7. ASSUME ~ lost' PROVE Switches'
  <2>1. Switches /\ Switched(s) /\ ~ suspended'
    BY <1>1, <1>7
  <2>2. "reset" \in control' => \E u \in Users : ResetPending(todo[u])'
    BY <1>3, <2>1 DEF Switches, Switched
  <2>3. Enabled' => (phase' = "probing" /\ s # ProbeTasks) \/ phase' = "bound"
    BY <1>3 DEF Enabled
  <2>4. Disabled' => phase' = "down" /\ s = << >>
    BY <1>3, <2>1 DEF Disabled
  <2> QED BY <2>1, <2>2, <2>3, <2>4 DEF Switches, Switched
<1> QED BY <1>3, <1>4, <1>5, <1>6, <1>7 DEF ControllerInv

(* The lists of the driver core differ, and what is left of each. *)
LEMMA CorePlansApart ==
  /\ Probing(Tail(ProbeTasks)) /\ Tail(Creating) = Created /\ Tail(Created) = << >>
  /\ Creating # ProbeTasks /\ Created # ProbeTasks /\ Created # Creating
  /\ RemoveTasks \notin {Freeing, Tail(Freeing), <<Do("removed")>>}
  /\ Tail(RemoveTasks) \notin {Freeing, Tail(Freeing), <<Do("removed")>>}
  /\ Freeing \notin {Tail(Freeing), <<Do("removed")>>}
  /\ Tail(Tail(RemoveTasks)) = Freeing /\ Tail(Tail(Freeing)) = <<Do("removed")>>
  /\ Tail(<<Do("removed")>>) = << >> /\ Tail(<<Clear("enable")>>) = << >>
  /\ <<Clear("enable")>> # << >>
  /\ RemoveTasks # << >> /\ Freeing # << >> /\ Tail(Freeing) # << >>
<1>1. Probing(Tail(ProbeTasks))
  <2>1. <<Do("ready")>> \in Seq(ProbeTask)
    BY DEF ProbeTask
  <2> QED BY <2>1, Probe1 DEF Probing
<1>2. Creating # ProbeTasks /\ Created # ProbeTasks
  BY Probe1 DEF Creating, Created, Do, Set
<1>3. /\ Tail(Creating) = Created /\ Tail(Created) = << >> /\ Created # Creating
  BY DEF Creating, Created, Do
<1>4. /\ Head(RemoveTasks) = <<"cancel">> /\ Head(Tail(RemoveTasks)) = <<"destroy">>
      /\ Head(Freeing) = <<"free_irq">> /\ Head(Tail(Freeing)) = <<"clear", "enable">>
      /\ Head(<<Do("removed")>>) = <<"removed">>
      /\ Tail(Tail(RemoveTasks)) = Freeing /\ Tail(Tail(Freeing)) = <<Do("removed")>>
      /\ RemoveTasks # << >> /\ Freeing # << >> /\ Tail(Freeing) # << >>
  BY DEF RemoveTasks, Freeing, Do, Clear
<1>5. /\ <<"cancel">>[1] = "cancel" /\ <<"destroy">>[1] = "destroy" /\ <<"removed">>[1] = "removed"
      /\ <<"free_irq">>[1] = "free_irq" /\ <<"clear", "enable">>[1] = "clear"
  OBVIOUS
<1>6. /\ RemoveTasks \notin {Freeing, Tail(Freeing), <<Do("removed")>>}
      /\ Tail(RemoveTasks) \notin {Freeing, Tail(Freeing), <<Do("removed")>>}
      /\ Freeing \notin {Tail(Freeing), <<Do("removed")>>}
  BY <1>4, <1>5
<1>7. /\ Tail(<<Do("removed")>>) = << >> /\ Tail(<<Clear("enable")>>) = << >>
      /\ <<Clear("enable")>> # << >>
  OBVIOUS
<1> QED BY <1>1, <1>2, <1>3, <1>4, <1>6, <1>7

\* A step of the driver core that reads and writes nothing of the control register.
LEMMA CoreStarts ==
  ASSUME ControllerInv, StartProbe \/ StartRemove \/ ddr_shutdown
  PROVE  ControllerInv'
<1>1. Typed /\ Plans /\ Turns /\ Registered /\ (~ lost => Switches) /\ "core" \in Contexts
  BY ContextsApart DEF ControllerInv
<1>2. ~ suspended /\ Idle("pm") /\ Idle("core") /\ \A u \in Users : Idle(u)
  BY <1>1 DEF StartProbe, StartRemove, ddr_shutdown, Awake, Turns, Plans, CorePlan, Idle
<1>3. /\ UNCHANGED <<suspended, registered, handlers, stray, control, lost, seen>>
      /\ lowPower' \in BOOLEAN /\ handlers' \in Nat
  BY <1>1 DEF StartProbe, StartRemove, ddr_shutdown, controlState, Typed
<1>4. /\ DOMAIN seen' = Contexts
      /\ \A u \in Contexts : seen'[u] # {} => u # "core" /\ seen'[u] = seen[u]
  BY <1>1, <1>2, <1>3 DEF Typed, Task
<1>5. ASSUME NEW s PROVE UsersQuiet(s)
  BY <1>2 DEF UsersQuiet
<1>6. CASE StartProbe
  <2>1. phase = "absent" /\ phase' = "probing" /\ Start("core", ProbeTasks)
    BY <1>6 DEF StartProbe, ProbeTasks
  <2>2. CorePlan(ProbeTasks)'
    BY <2>1 DEF CorePlan
  <2>3. Leaves(ProbeTasks)
    BY <1>1, <1>3, <2>1 DEF Leaves, Registered, Withdrawn, Unrequested
  <2>4. Switched(ProbeTasks)
    BY <1>3, <2>1 DEF Switched
  <2> QED BY <1>2, <1>3, <1>4, <1>5, <2>1, <2>2, <2>3, <2>4, CoreSettles
<1>7. CASE StartRemove
  <2>1. phase = "bound" /\ phase' = "removing" /\ Start("core", RemoveTasks)
    BY <1>7 DEF StartRemove, RemoveTasks
  <2>2. CorePlan(RemoveTasks)'
    BY <2>1 DEF CorePlan, Removing
  <2>3. Leaves(RemoveTasks)
    BY <1>1, <1>3, <2>1, CorePlansApart DEF Leaves, Registered
  <2>4. Switched(RemoveTasks)
    BY <1>3, <2>1 DEF Switched
  <2> QED BY <1>2, <1>3, <1>4, <1>5, <2>1, <2>2, <2>3, <2>4, CoreSettles
<1>8. CASE ddr_shutdown
  <2>1. phase = "bound" /\ phase' = "down" /\ Start("core", <<Clear("enable")>>)
    BY <1>8 DEF ddr_shutdown
  <2>2. CorePlan(<<Clear("enable")>>)'
    BY <2>1 DEF CorePlan
  <2>3. Leaves(<<Clear("enable")>>)
    BY <2>1 DEF Leaves
  <2>4. Switched(<<Clear("enable")>>)
    BY <1>3, <2>1, CorePlansApart DEF Switched
  <2> QED BY <1>2, <1>3, <1>4, <1>5, <2>1, <2>2, <2>3, <2>4, CoreSettles
<1> QED BY <1>6, <1>7, <1>8

\* While the driver core is at work nobody else is but the calibration work, unless the device is
\* there already and its probe not over.
LEMMA CoreTurn ==
  ASSUME ControllerInv, ~ Idle("core")
  PROVE  /\ ~ suspended /\ Idle("pm") /\ phase \in {"probing", "removing", "down"}
         /\ todo["core"] # Created => \A u \in Users : Idle(u)
         /\ CorePlan(todo["core"]) /\ todo["core"] # << >>
<1>1. CorePlan(todo["core"]) /\ todo["core"] # << >> /\ Turns
  BY DEF ControllerInv, Plans, Idle
<1>2. phase \in {"probing", "removing", "down"}
  BY <1>1 DEF CorePlan
<1> QED BY <1>1, <1>2 DEF Turns

(* A task of the driver core that is no change of the control register. *)
LEMMA CoreTasks ==
  ASSUME ControllerInv,
         \/ CheckReady("core") \/ CheckCalibrated("core") \/ RequestIrq("core")
         \/ CreateDevice \/ Bind \/ CancelWork \/ DestroyDevice \/ FreeIrq \/ Removed
  PROVE  ControllerInv'
<1> DEFINE s == todo["core"]
           k == Head(s)[1]
<1>1. Typed /\ Plans /\ Turns /\ Registered /\ (~ lost => Switches) /\ "core" \in Contexts
  BY ContextsApart DEF ControllerInv
<1>2. /\ ~ Idle("core")
      /\ k \in {"ready", "calibrated", "irq", "create", "bind", "cancel", "destroy", "free_irq",
                "removed"}
  BY DEF CheckReady, CheckCalibrated, RequestIrq, CreateDevice, Bind, CancelWork, DestroyDevice,
     FreeIrq, Removed, Task
<1>3. /\ ~ suspended /\ Idle("pm")
      /\ s # Created => \A u \in Users : Idle(u)
      /\ CorePlan(s) /\ s # << >>
  BY <1>2, CoreTurn
<1>4. UNCHANGED <<suspended, lowPower, control, lost, seen>> /\ lowPower' \in BOOLEAN
  BY <1>1 DEF CheckReady, CheckCalibrated, RequestIrq, CreateDevice, Bind, CancelWork,
     DestroyDevice, FreeIrq, Removed, controlState, driverState, Typed
<1>5. /\ DOMAIN seen' = Contexts
      /\ \A u \in Contexts : seen'[u] # {} => u # "core" /\ seen'[u] = seen[u]
  BY <1>1, <1>2, <1>4 DEF Typed, Task
<1>6. ASSUME NEW r, s # Created \/ phase' = "bound" PROVE UsersQuiet(r)
  BY <1>3, <1>6 DEF UsersQuiet
<1>7. ASSUME NEW r, phase' = "probing" => s # ProbeTasks /\ phase = "probing",
             phase' = "bound" => s # ProbeTasks /\ phase = "probing", phase' # "down"
      PROVE  ~ lost' => ~ lost /\ Switched(r)
  BY <1>1, <1>4, <1>7 DEF Switched, Switches, Enabled
<1>8. /\ k = "irq" => phase = "probing" /\ s = ProbeRest /\ Tail(s) = Creating /\ Probing(s)
      /\ k \in {"ready", "calibrated"} =>
           phase = "probing" /\ Probing(s) /\ \E r \in Seq(ProbeTask) : Tail(s) = r \o ProbeRest
      /\ k = "create" => phase = "probing" /\ s = Creating
      /\ k = "bind" => phase = "probing" /\ s = Created
      /\ k = "cancel" => phase = "removing" /\ s = RemoveTasks
      /\ k = "destroy" => phase = "removing" /\ s = Tail(RemoveTasks)
      /\ k = "free_irq" => phase = "removing" /\ s = Freeing
      /\ k = "removed" => phase = "removing" /\ s = <<Do("removed")>>
  <2>1. Typed /\ CorePlan(s) /\ s # << >>
    BY <1>1, <1>3
  <2> HIDE DEF s
  <2>2. \/ phase = "probing" /\ s = ProbeTasks /\ k = "set"
        \/ phase = "probing" /\ Probing(s) /\ k \in {"irq", "ready", "calibrated", "set"}
        \/ phase = "probing" /\ s = Creating /\ k = "create"
        \/ phase = "probing" /\ s = Created /\ k = "bind"
        \/ phase = "removing" /\ s = RemoveTasks /\ k = "cancel"
        \/ phase = "removing" /\ s = Tail(RemoveTasks) /\ k = "destroy"
        \/ phase = "removing" /\ s = Freeing /\ k = "free_irq"
        \/ phase = "removing" /\ s = Tail(Freeing) /\ k = "clear"
        \/ phase = "removing" /\ s = <<Do("removed")>> /\ k = "removed"
        \/ phase = "down" /\ s = <<Clear("enable")>> /\ k = "clear"
    BY <2>1, CoreHead
  <2>3. Probing(s) =>
          \/ k = "irq" /\ s = ProbeRest /\ Tail(s) = Creating
          \/ k \in {"ready", "calibrated"} /\ \E r \in Seq(ProbeTask) : Tail(s) = r \o ProbeRest
          \/ k = "set"
    BY ProbingHead
  <2> QED BY <2>2, <2>3
<1>9. k \in {"irq", "ready", "calibrated"} => s \notin {ProbeTasks, Creating, Created}
  <2>1. Head(ProbeTasks)[1] = "set" /\ Head(Creating)[1] = "create" /\ Head(Created)[1] = "bind"
    BY Probe1 DEF Creating, Created, Do, Set
  <2> QED BY <2>1
<1>10. handlers \in Nat /\ (~ stray /\ phase \in {"probing", "bound", "removing"} => handlers <= 1)
  BY <1>1 DEF Typed, Registered
<1> HIDE DEF s, k
\* A probe that fails before the device is made.
<1>11. ASSUME k \in {"irq", "ready", "calibrated"}, Fail("core"),
              UNCHANGED <<registered, handlers, stray>>
       PROVE  ControllerInv'
  <2>1. phase = "probing" /\ phase' = "absent" /\ Start("core", << >>)
    BY <1>8, <1>11 DEF Fail
  <2>2. CorePlan(<< >>)'
    BY <2>1 DEF CorePlan
  <2>3. registered' = {} /\ (~ stray' => handlers' = 0)
    BY <1>1, <1>9, <1>11, <2>1 DEF Registered, Withdrawn, Unrequested, s
  <2>4. Leaves(<< >>)
    BY <1>10, <2>1, <2>3 DEF Leaves
  <2> QED BY <1>3, <1>4, <1>5, <1>6, <1>7, <1>9, <1>10, <1>11, <2>1, <2>2, <2>4, CoreSettles
<1>12. CASE CheckReady("core") \/ CheckCalibrated("core")
  <2>1. k \in {"ready", "calibrated"} /\ UNCHANGED <<registered, handlers, stray>>
    BY <1>12 DEF CheckReady, CheckCalibrated, Task, k, s
  <2>2. PICK p \in Seq(ProbeTask) : Tail(s) = p \o ProbeRest
    BY <1>8, <2>1
  <2>3. CASE Fail("core")
    BY <1>11, <2>1, <2>3
  <2>4. CASE ~ Fail("core")
    <3>1. PICK c \in {<< >>, Calibrate}, e \in {<< >>, <<Set("mode")>>} :
            Start("core", c \o e \o Tail(s)) /\ phase' = phase
      <4>1. CASE CheckReady("core")
        BY <2>4, <4>1 DEF CheckReady, s
      <4>2. CASE CheckCalibrated("core")
        <5>1. << >> \o << >> \o Tail(s) = Tail(s)
          <6>1. p \o ProbeRest \in Seq(ProbeTask \cup {Do("irq"), Do("create"), Do("bind")})
            BY DEF ProbeRest
          <6> QED BY <2>2, <6>1
        <5> QED BY <2>4, <4>2, <5>1 DEF CheckCalibrated, Continue, s
      <4> QED BY <1>12, <4>1, <4>2
    <3>2. c \o e \o p \in Seq(ProbeTask) /\ c \o e \o (p \o ProbeRest) = (c \o e \o p) \o ProbeRest
      <4>1. c \in Seq(ProbeTask) /\ e \in Seq(ProbeTask)
        BY UserLists
      <4>2. ProbeRest \in Seq({Do("irq"), Do("create"), Do("bind")})
        BY DEF ProbeRest
      <4>3. p \in Seq(ProbeTask)
        BY <2>2
      <4>4. c \o e \in Seq(ProbeTask)
        BY ONLY <4>1
      <4>5. c \o e \o p \in Seq(ProbeTask)
        BY ONLY <4>3, <4>4
      <4>6. c \o e \o (p \o ProbeRest) = (c \o e \o p) \o ProbeRest
        <5> DEFINE Any == ProbeTask \cup {Do("irq"), Do("create"), Do("bind")}
        <5>1. c \o e \in Seq(Any)
          BY ONLY <4>4
        <5>2. p \in Seq(Any)
          BY ONLY <4>3
        <5>3. ProbeRest \in Seq(Any)
          BY ONLY <4>2
        <5>4. \A x, y, z \in Seq(Any) : (x \o y) \o z = x \o (y \o z)
          BY ONLY ConcatAssociative
        <5> HIDE DEF Any
        <5> QED BY ONLY <5>1, <5>2, <5>3, <5>4
      <4> QED BY <4>5, <4>6
    <3>3. PICK r : r = c \o e \o Tail(s)
      OBVIOUS
    <3>4. Probing(r) /\ Start("core", r)
      BY <2>2, <3>1, <3>2, <3>3 DEF Probing
    <3>5. phase = "probing" /\ phase' = "probing"
      BY <1>8, <2>1, <3>1
    <3>6. CorePlan(r)'
      BY <3>4, <3>5 DEF CorePlan, Probing
    <3>7. registered' = {} /\ (~ stray' => handlers' = 0)
      BY <1>1, <1>9, <2>1, <3>5 DEF Registered, Withdrawn, Unrequested, s
    <3>8. Leaves(r)
      BY <1>10, <3>5, <3>7 DEF Leaves
    <3>9. s \notin {ProbeTasks, Created}
      BY <1>9, <2>1
    <3> QED BY <1>3, <1>4, <1>5, <1>6, <1>7, <1>10, <2>1, <3>4, <3>5, <3>6, <3>8, <3>9, CoreSettles
  <2> QED BY <2>3, <2>4
<1>13. CASE RequestIrq("core")
  <2>1. k = "irq" /\ UNCHANGED registered
    BY <1>13 DEF RequestIrq, Task, k, s
  <2>2. CASE Fail("core") /\ UNCHANGED <<handlers, stray>>
    BY <1>11, <2>1, <2>2
  <2>3. CASE ~ (Fail("core") /\ UNCHANGED <<handlers, stray>>)
    <3>1. /\ handlers' = handlers + 1 \/ handlers' = handlers
          /\ Start("core", Tail(s)) /\ phase' = phase
      BY <1>13, <2>3 DEF RequestIrq, Continue, s
    <3>2. ~ stray' => ~ stray
      BY <1>13 DEF RequestIrq
    <3>3. Tail(s) = Creating /\ phase = "probing" /\ s \notin {ProbeTasks, Creating, Created}
      BY <1>8, <1>9, <2>1
    <3>4. registered' = {} /\ (~ stray' => handlers = 0)
      BY <1>1, <2>1, <3>2, <3>3 DEF Registered, Withdrawn, Unrequested, s
    <3>5. handlers' \in Nat /\ (~ stray' => handlers' <= 1)
      BY <1>10, <3>1, <3>4
    <3>6. Start("core", Creating) /\ CorePlan(Creating)'
      BY <3>1, <3>3 DEF CorePlan
    <3>7. Leaves(Creating)
      BY <3>1, <3>3, <3>4, <3>5 DEF Leaves
    <3> QED BY <1>3, <1>4, <1>5, <1>6, <1>7, <3>1, <3>3, <3>5, <3>6, <3>7, CoreSettles
  <2> QED BY <2>2, <2>3
<1>14. CASE CreateDevice
  <2>1. k = "create" /\ handlers' = handlers /\ Idle("pm")
    BY <1>3, <1>14 DEF CreateDevice, Task, k, s
  <2>2. phase = "probing" /\ s = Creating /\ s \notin {ProbeTasks, Created}
    BY <1>8, <2>1, CorePlansApart
  <2>3. CASE registered' = Made(5) /\ Continue("core") /\ UNCHANGED <<phase, lock, stray>>
    <3>1. Start("core", Created) /\ phase' = "probing"
      BY <2>2, <2>3, CorePlansApart DEF Continue, s
    <3>2. CorePlan(Created)'
      BY <3>1 DEF CorePlan
    <3>3. Leaves(Created)
      BY <1>10, <2>1, <2>2, <2>3, <3>1 DEF Leaves
    <3> QED BY <1>3, <1>4, <1>5, <1>6, <1>7, <1>10, <2>1, <2>2, <3>1, <3>2, <3>3, CoreSettles
  <2>4. CASE \E i \in {1, 2, 4} : /\ registered' = Made(i) \ Undone(i)
                                 /\ stray' = (stray \/ handlers > 0)
                                 /\ Fail("core")
    <3>1. PICK i \in {1, 2, 4} : registered' = Made(i) \ Undone(i)
      BY <2>4
    <3>2. Start("core", << >>) /\ phase' = "absent"
      BY <2>4 DEF Fail
    <3>3. stray' = (stray \/ handlers > 0)
      BY <2>4
    <3>4. registered' = {}
      <4>1. Parts[1] = "chrdev" /\ Parts[2] = "class" /\ Parts[3] = "device"
        BY DEF Parts
      <4>2. Made(1) = {} /\ Made(2) = {"chrdev"} /\ Made(4) = {"chrdev", "class", "device"}
        BY <4>1 DEF Made
      <4> QED BY <3>1, <4>2 DEF Undone
    <3>5. ~ stray' => handlers' = 0
      <4>1. ~ stray' => ~ (handlers > 0)
        BY <3>3
      <4> QED BY <1>10, <2>1, <4>1
    <3>6. CorePlan(<< >>)'
      BY <3>2 DEF CorePlan
    <3>7. Leaves(<< >>)
      BY <3>2, <3>4, <3>5 DEF Leaves
    <3> QED BY <1>3, <1>4, <1>5, <1>6, <1>7, <1>10, <2>1, <2>2, <3>2, <3>6, <3>7, CoreSettles
  <2>5. CASE /\ registered' = Made(3)
             /\ phase' = "dead" /\ Start("core", << >>)
             /\ UNCHANGED <<lock, stray>>
    <3>1. CorePlan(<< >>)' /\ Leaves(<< >>)
      BY <2>5 DEF CorePlan, Leaves
    <3> QED BY <1>3, <1>4, <1>5, <1>6, <1>7, <1>10, <2>1, <2>2, <2>5, <3>1, CoreSettles
  <2> QED BY <1>14, <2>3, <2>4, <2>5 DEF CreateDevice
<1>15. CASE Bind
  <2>1. k = "bind" /\ phase' = "bound" /\ UNCHANGED <<registered, handlers, stray>>
    BY <1>15 DEF Bind, Task, k, s
  <2>2. phase = "probing" /\ s = Created /\ s # ProbeTasks
    BY <1>8, <2>1, CorePlansApart
  <2>3. Start("core", << >>)
    BY <1>15, <2>2, CorePlansApart DEF Bind, Continue, s
  <2>4. CorePlan(<< >>)' /\ Leaves(<< >>)
    BY <1>10, <2>1, <2>2 DEF CorePlan, Leaves
  <2> QED BY <1>3, <1>4, <1>5, <1>6, <1>7, <1>10, <2>1, <2>2, <2>3, <2>4, CoreSettles
<1>16. CASE CancelWork
  <2>1. k = "cancel" /\ UNCHANGED <<phase, registered, handlers, stray>>
    BY <1>16 DEF CancelWork, Task, driverState, k, s
  <2>2. phase = "removing" /\ s = RemoveTasks
    BY <1>8, <2>1
  <2>3. Start("core", Tail(RemoveTasks))
    BY <1>16, <2>2 DEF CancelWork, Continue, s
  <2>4. CorePlan(Tail(RemoveTasks))'
    BY <2>1, <2>2 DEF CorePlan, Removing
  <2>5. Leaves(Tail(RemoveTasks))
    BY <1>10, <2>1, <2>2, CorePlansApart DEF Leaves
  <2>6. s # Created
    BY <2>2 DEF RemoveTasks, Created
  <2> QED BY <1>3, <1>4, <1>5, <1>6, <1>7, <1>10, <2>1, <2>2, <2>3, <2>4, <2>5, <2>6, CoreSettles
<1>17. CASE DestroyDevice
  <2>1. k = "destroy" /\ UNCHANGED <<phase, handlers, stray>> /\ registered' = {}
    BY <1>17 DEF DestroyDevice, Task, k, s
  <2>2. phase = "removing" /\ s = Tail(RemoveTasks)
    BY <1>8, <2>1
  <2>3. Start("core", Freeing)
    BY <1>17, <2>2, CorePlansApart DEF DestroyDevice, Continue, s
  <2>4. CorePlan(Freeing)'
    BY <2>1, <2>2 DEF CorePlan, Removing
  <2>5. Leaves(Freeing)
    BY <1>10, <2>1, <2>2, CorePlansApart DEF Leaves
  <2>6. s # Created
    BY <2>2 DEF RemoveTasks, Created
  <2> QED BY <1>3, <1>4, <1>5, <1>6, <1>7, <1>10, <2>1, <2>2, <2>3, <2>4, <2>5, <2>6, CoreSettles
<1>18. CASE FreeIrq
  <2>1. /\ k = "free_irq" /\ UNCHANGED <<phase, registered, stray>>
        /\ handlers' = IF handlers > 0 THEN handlers - 1 ELSE 0
    BY <1>18 DEF FreeIrq, Task, k, s
  <2>2. phase = "removing" /\ s = Freeing
    BY <1>8, <2>1
  <2>3. Start("core", Tail(Freeing))
    BY <1>18, <2>2 DEF FreeIrq, Continue, s
  <2>4. CorePlan(Tail(Freeing))'
    BY <2>1, <2>2 DEF CorePlan, Removing
  <2>5. handlers' \in Nat /\ (~ stray' => handlers' = 0)
    BY <1>10, <2>1, <2>2
  <2>6. registered' = {}
    BY <1>1, <2>1, <2>2 DEF Registered, Withdrawn, s
  <2>7. Leaves(Tail(Freeing))
    BY <2>5, <2>6 DEF Leaves
  <2>8. s # Created
    BY <2>2 DEF Freeing, Created
  <2> QED BY <1>3, <1>4, <1>5, <1>6, <1>7, <2>1, <2>2, <2>3, <2>4, <2>5, <2>7, <2>8, CoreSettles
<1>19. CASE Removed
  <2>1. k = "removed" /\ UNCHANGED <<registered, handlers, stray>> /\ phase' = "absent"
    BY <1>19 DEF Removed, Task, k, s
  <2>2. phase = "removing" /\ s = <<Do("removed")>>
    BY <1>8, <2>1
  <2>3. Start("core", << >>)
    BY <1>19, <2>2 DEF Removed, Continue, s
  <2>4. CorePlan(<< >>)'
    BY <2>1 DEF CorePlan
  <2>5. registered' = {} /\ (~ stray' => handlers' = 0)
    BY <1>1, <2>1, <2>2 DEF Registered, Withdrawn, Unrequested, s
  <2>6. Leaves(<< >>)
    BY <2>1, <2>5 DEF Leaves
  <2>7. s # Created
    BY <2>2 DEF Created, Do
  <2> QED BY <1>3, <1>4, <1>5, <1>6, <1>7, <1>10, <2>1, <2>2, <2>3, <2>4, <2>6, <2>7, CoreSettles
<1> QED BY <1>12, <1>13, <1>14, <1>15, <1>16, <1>17, <1>18, <1>19

LEMMA CoreWrites ==
  ASSUME ControllerInv, WriteControl("core")
  PROVE  ControllerInv'
<1> DEFINE s == todo["core"]
           k == Head(s)[1]
<1>1. Typed /\ Plans /\ Turns /\ Registered /\ (~ lost => Switches) /\ "core" \in Contexts
  BY ContextsApart DEF ControllerInv
<1>2. /\ Start("core", Tail(s)) /\ ~ Idle("core")
      /\ UNCHANGED driverState
      /\ DOMAIN seen' = Contexts
      /\ \A u \in Contexts : seen'[u] # {} => u # "core" /\ seen'[u] = seen[u]
      /\ Task("core", "set") \/ Task("core", "clear")
      /\ ~ lost' =>
           /\ ~ lost
           /\ Task("core", "set") => control' = control \cup {Head(s)[2]}
           /\ ~ Task("core", "set") => control' = control \ {Head(s)[2]}
  BY <1>1, Writes
<1>3. /\ ~ suspended /\ Idle("pm")
      /\ s # Created => \A u \in Users : Idle(u)
      /\ CorePlan(s) /\ s # << >>
  BY <1>2, CoreTurn
<1>4. /\ UNCHANGED <<phase, suspended, registered, handlers, lowPower, stray>>
      /\ lowPower' \in BOOLEAN /\ handlers' \in Nat
      /\ phase' \in {"absent", "probing", "bound", "removing", "down", "dead"}
  BY <1>1, <1>2 DEF driverState, Typed
<1>5. k \in {"set", "clear"} /\ (Task("core", "set") <=> k = "set")
  BY <1>2 DEF Task
<1> HIDE DEF s, k
<1>6. PICK r : r = Tail(s)
  OBVIOUS
<1>7. Start("core", r)
  BY <1>2, <1>6
<1>8. \/ phase = "probing" /\ s = ProbeTasks /\ k = "set" /\ Head(s)[2] = "enable"
      \/ phase = "probing" /\ Probing(s) /\ k = "set" /\ Head(s)[2] = "mode"
      \/ phase = "removing" /\ s = Tail(Freeing) /\ k = "clear" /\ Head(s)[2] = "enable"
      \/ phase = "down" /\ s = <<Clear("enable")>> /\ k = "clear" /\ Head(s)[2] = "enable"
  <2>1. \/ phase = "probing" /\ s = ProbeTasks /\ k = "set" /\ Head(s)[2] = "enable"
        \/ /\ phase = "probing" /\ Probing(s)
           /\ k \in {"irq", "ready", "calibrated"} \/ (k = "set" /\ Head(s)[2] = "mode")
        \/ phase = "removing" /\ s = Tail(Freeing) /\ k = "clear" /\ Head(s)[2] = "enable"
        \/ phase = "down" /\ s = <<Clear("enable")>> /\ k = "clear" /\ Head(s)[2] = "enable"
    BY <1>1, <1>3, <1>5, CoreHead DEF k
  <2> QED BY <1>5, <2>1
<1>9. Head(Created)[1] = "bind" /\ Head(Creating)[1] = "create"
  BY DEF Created, Creating, Do
<1>10. s # Created /\ s # Creating
  BY <1>5, <1>9 DEF k
<1>11. UsersQuiet(r)
  BY <1>3, <1>10 DEF UsersQuiet
<1>12. CASE phase = "probing" /\ s = ProbeTasks /\ k = "set" /\ Head(s)[2] = "enable"
  <2>1. Probing(r)
    BY <1>6, <1>12, CorePlansApart
  <2>2. CorePlan(r)'
    BY <1>4, <1>12, <2>1 DEF CorePlan, Probing
  <2>3. registered' = {} /\ (~ stray' => handlers' = 0)
    BY <1>1, <1>4, <1>10, <1>12 DEF Registered, Withdrawn, Unrequested, s
  <2>4. Leaves(r)
    BY <1>4, <1>12, <2>3 DEF Leaves
  <2>5. ~ lost' => ~ lost /\ Switched(r)
    BY <1>2, <1>4, <1>5, <1>12 DEF Switched, s
  <2> QED BY <1>2, <1>3, <1>4, <1>7, <1>11, <2>2, <2>4, <2>5, CoreSettles
<1>13. CASE phase = "probing" /\ Probing(s) /\ k = "set" /\ Head(s)[2] = "mode"
  <2>1. Probing(r)
    BY <1>6, <1>13, ProbingHead DEF k
  <2>2. CorePlan(r)'
    BY <1>4, <1>13, <2>1 DEF CorePlan, Probing
  <2>3. registered' = {} /\ (~ stray' => handlers' = 0)
    BY <1>1, <1>4, <1>10, <1>13 DEF Registered, Withdrawn, Unrequested, s
  <2>4. Leaves(r)
    BY <1>4, <1>13, <2>3 DEF Leaves
  <2>5. s # ProbeTasks
    BY <1>13, Probe1 DEF Set
  <2>6. ~ lost' => ~ lost /\ Switched(r)
    BY <1>1, <1>2, <1>4, <1>5, <1>13, <2>5 DEF Switched, Switches, Enabled, s
  <2> QED BY <1>2, <1>3, <1>4, <1>7, <1>11, <2>2, <2>4, <2>6, CoreSettles
<1>14. CASE phase = "removing" /\ s = Tail(Freeing) /\ k = "clear" /\ Head(s)[2] = "enable"
  <2>1. r = <<Do("removed")>>
    BY <1>6, <1>14, CorePlansApart
  <2>2. CorePlan(r)'
    BY <1>4, <1>14, <2>1 DEF CorePlan, Removing
  <2>3. registered' = {} /\ (~ stray' => handlers' = 0)
    BY <1>1, <1>4, <1>14 DEF Registered, Withdrawn, Unrequested, s
  <2>4. Leaves(r)
    BY <1>4, <1>14, <2>3 DEF Leaves
  <2>5. ~ lost' => ~ lost /\ Switched(r)
    BY <1>2, <1>4, <1>5, <1>14 DEF Switched, s
  <2> QED BY <1>2, <1>3, <1>4, <1>7, <1>11, <2>2, <2>4, <2>5, CoreSettles
<1>15. CASE phase = "down" /\ s = <<Clear("enable")>> /\ k = "clear" /\ Head(s)[2] = "enable"
  <2>1. r = << >>
    BY <1>6, <1>15, CorePlansApart
  <2>2. CorePlan(r)' /\ Leaves(r)
    BY <1>4, <1>15, <2>1 DEF CorePlan, Leaves
  <2>3. ~ lost' => ~ lost /\ Switched(r)
    BY <1>2, <1>4, <1>5, <1>15 DEF Switched, s
  <2> QED BY <1>2, <1>3, <1>4, <1>7, <1>11, <2>2, <2>3, CoreSettles
<1> QED BY <1>8, <1>12, <1>13, <1>14, <1>15

----------------------------------------------------------------------------
(* The theorems *)

LEMMA StartHolds == ControllerStart => ControllerInv
<1> SUFFICES ASSUME ControllerStart PROVE ControllerInv
  OBVIOUS
<1>1. \A t \in Contexts : todo[t] = << >> /\ seen[t] = {}
  BY DEF ControllerStart
<1>2. Typed
  BY <1>1 DEF ControllerStart, Typed
<1>3. Plans
  <2>1. << >> \in Seq(UserTask) /\ << >> \in Seq(WorkTask)
    OBVIOUS
  <2> QED BY <1>1, <2>1, ContextsApart DEF ControllerStart, Plans, UserPlan, PmPlan, CorePlan
<1>4. Turns
  BY <1>1, ContextsApart DEF ControllerStart, Turns, Idle
<1>5. Registered /\ Switches
  BY DEF ControllerStart, Registered, Switches, Enabled, Disabled
<1> QED BY <1>2, <1>3, <1>4, <1>5 DEF ControllerInv

LEMMA StepKeeps == ControllerInv /\ [ControllerNext]_controllerVars => ControllerInv'
<1> SUFFICES ASSUME ControllerInv, [ControllerNext]_controllerVars
             PROVE  ControllerInv'
  OBVIOUS
<1>1. ASSUME NEW t \in Contexts, ReadControl(t) PROVE ControllerInv'
  BY <1>1, ReadSettles
<1>2. ASSUME NEW t \in Contexts,
             WriteControl(t) \/ CheckReady(t) \/ CheckCalibrated(t) \/ RequestIrq(t)
      PROVE  ControllerInv'
  <2>1. CASE t \in Users
    BY <1>2, <2>1, UserWrites, UserTasks
  <2>2. CASE t = "work"
    BY <1>2, <2>2, WorkSettles
  <2>3. CASE t = "pm"
    BY <1>2, <2>3, PmSettles
  <2>4. CASE t = "core"
    BY <1>2, <2>4, CoreWrites, CoreTasks
  <2> QED BY <2>1, <2>2, <2>3, <2>4 DEF Contexts
<1>3. ASSUME NEW t \in Users, Write(t) \/ LowPowerMode(t) \/ Ioctl(t) \/ Unlock(t)
      PROVE  ControllerInv'
  BY <1>3, UserStarts, UserTasks
<1>4. CASE CalibrationWork
  BY <1>4, WorkSettles
<1>5. CASE ddr_suspend \/ ddr_resume
  BY <1>5, PmSettles
<1>6. CASE StartProbe \/ StartRemove \/ ddr_shutdown
  BY <1>6, CoreStarts
<1>7. CASE CreateDevice \/ Bind \/ CancelWork \/ DestroyDevice \/ FreeIrq \/ Removed
  BY <1>7, CoreTasks
<1>8. CASE UNCHANGED controllerVars
  <2>1. Typed' /\ Plans' /\ Turns' /\ Registered'
    BY <1>8 DEF controllerVars, driverState, controlState, ControllerInv, Typed, Task, Idle, Plans,
       UserPlan, ResetPending, ResetAhead, PmPlan, CorePlan, Probing, Turns, Registered, Withdrawn,
       Unrequested
  <2>2. lost' = lost /\ (Switches => Switches')
    BY <1>8 DEF controllerVars, driverState, controlState, Switches, Enabled, Disabled, ResetPending
  <2> QED BY <2>1, <2>2 DEF ControllerInv
<1> QED BY <1>1, <1>2, <1>3, <1>4, <1>5, <1>6, <1>7, <1>8 DEF ControllerNext

(* The invariant of which the two theorems below are consequences: what each context still has to
   do, who may run, what is registered and, as long as no change to the control register was
   overwritten, what the register holds halfway through each of these tasks. *)
THEOREM ControllerInvHolds == ControllerSpec => []ControllerInv
<1> QED BY StartHolds, StepKeeps, PTL DEF ControllerSpec

(* ddr_driver.c leaves nothing registered behind, whichever step of ddr_probe fails and whatever
   processes, work and sleep do in between, for any number of processes. *)
THEOREM GoneLeavesNothingSafe == ControllerSpec => []GoneLeavesNothing
<1>1. ControllerInv => GoneLeavesNothing
  BY DEF ControllerInv, Registered, Withdrawn, Unrequested, GoneLeavesNothing
<1> QED BY <1>1, ControllerInvHolds, PTL

(* ddr_driver.c leaves the controller enabled or not as it should be whenever nothing is under way,
   unless one context has overwritten what another wrote. *)
THEOREM SwitchedRightSafe == ControllerSpec => []SwitchedRight
<1>1. ASSUME ControllerInv PROVE SwitchedRight
  <2>1. SUFFICES ASSUME \A t \in Contexts : Idle(t), ~ lost, phase \in {"bound", "down"}
                 PROVE  /\ "reset" \notin control
                        /\ "enable" \in control <=> ~ (phase = "down" \/ (suspended /\ lowPower))
                        /\ suspended /\ lowPower => "low_power" \in control
    BY DEF SwitchedRight
  <2>2. /\ todo["pm"] = << >> /\ todo["core"] = << >>
        /\ \A u \in Users : ~ ResetPending(todo[u])
    BY <2>1, ContextsApart DEF Idle, ResetPending
  <2>3. Switches /\ (suspended => phase = "bound")
    BY <1>1, <2>1 DEF ControllerInv, Turns
  <2>4. /\ phase = "bound" /\ ~ (suspended /\ lowPower) => "enable" \in control
        /\ phase = "down" \/ (suspended /\ lowPower) => "enable" \notin control
    BY <2>2, <2>3, PmPlansApart DEF Switches, Enabled, Disabled
  <2> QED BY <2>1, <2>2, <2>3, <2>4 DEF Switches
<1> QED BY <1>1, ControllerInvHolds, PTL

=============================================================================
