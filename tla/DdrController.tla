---------------------------- MODULE DdrController ----------------------------
(***************************************************************************)
(* kernel/drivers/ddr_driver/ddr_driver.c, the half that drives the        *)
(* controller: the control register, the registrations of the interrupt    *)
(* handler, the calibration work, the commands written to the device, the  *)
(* ioctls that reset and calibrate, probe, remove, shutdown, suspend and   *)
(* resume.  DdrDriver is the other half: memory, counters, timers.         *)
(*                                                                         *)
(* ddr_set_bit and ddr_clear_bit read the control register, then write it; *)
(* no lock is held in between but that of an ioctl, and what another       *)
(* thread wrote meanwhile is lost.  What a thread still has to do is a     *)
(* sequence of tasks; each task is a step, a change of the control         *)
(* register two.                                                           *)
(*                                                                         *)
(* The controller may not be ready, and may not calibrate.  System sleep   *)
(* freezes the processes, not the work queue; the driver is removed when   *)
(* no file is open, and shut down when no process is left.  Left out: the  *)
(* configuration registers, for ddr_hw_config hangs before it writes any   *)
(* (DdrDriver); what the interrupt handler does; messages and counters.    *)
(***************************************************************************)
EXTENDS Integers, Sequences, FiniteSets

CONSTANTS
  Users,           \* processes
  Nobody,          \* the owner of dev->lock when it is free
  MaxHandlers      \* bound on the registrations of the interrupt handler

ASSUME ControllerAssumption ==
  /\ Nobody \notin Users
  /\ Users \cap {"work", "pm", "core"} = {}
  /\ MaxHandlers \in Nat \ {0}

\* Processes; the calibration work; system sleep; the driver core.
Contexts == Users \cup {"work", "pm", "core"}

\* "mode" stands for the bits that are set and never cleared: CALIBRATE, ECC, PERF and DEBUG.
Bits == {"enable", "reset", "low_power", "mode"}

VARIABLES
  phase,           \* "absent", "probing", "bound", "removing", "down" or "dead" (an oops)
  control,         \* the control register
  registered,      \* what ddr_create_device has made
  handlers,        \* registrations of ddr_irq_handler
  lock,            \* dev->lock
  lowPower,        \* dev->low_power_mode
  suspended,       \* dev->suspended
  todo,            \* per context, its tasks
  seen,            \* per context, {the control register as it read it}
  lost,            \* a change to the control register was overwritten
  stray            \* a reset went well, or a probe failed with the interrupt requested

driverState == <<phase, registered, handlers, lowPower, suspended, stray>>
controlState == <<control, lost>>
controllerVars == <<driverState, controlState, lock, todo, seen>>

ControllerStart ==
  /\ phase = "absent"
  /\ control = {}
  /\ registered = {} /\ handlers = 0
  /\ lock = Nobody /\ lowPower = FALSE /\ suspended = FALSE
  /\ todo = [t \in Contexts |-> << >>]
  /\ seen = [t \in Contexts |-> {}]
  /\ lost = FALSE /\ stray = FALSE

(***************************************************************************)
(* Tasks                                                                   *)
(***************************************************************************)

Set(b)   == <<"set", b>>
Clear(b) == <<"clear", b>>
Do(what) == <<what>>

HwInit  == <<Set("enable"), Do("ready"), Do("irq")>>
HwReset == <<Set("reset"), Clear("reset")>> \o HwInit
Calibrate == <<Set("mode"), Do("calibrated")>>

\* "debug" and "perf" set a mode; "info" and "stats" do nothing.
Commands == {HwReset, <<Set("mode")>>, <<Set("low_power"), Do("low_power_mode")>>}
Ioctls   == {HwReset \o <<Do("unlock")>>, Calibrate \o <<Do("unlock")>>}

Idle(t)    == todo[t] = << >>
Task(t, k) == ~ Idle(t) /\ Head(todo[t])[1] = k
Start(t, tasks) == todo' = [todo EXCEPT ![t] = tasks]
Continue(t) == Start(t, Tail(todo[t]))

\* A read of the register, then a write of what was read with a bit set or cleared.
ReadControl(t) ==
  /\ Task(t, "set") \/ Task(t, "clear")
  /\ seen[t] = {}
  /\ seen' = [seen EXCEPT ![t] = {control}]
  /\ UNCHANGED <<driverState, controlState, lock, todo>>

WriteControl(t) ==
  \E value \in seen[t] :
    LET bit == {Head(todo[t])[2]}
    IN  /\ control' = IF Task(t, "set") THEN value \cup bit ELSE value \ bit
        /\ lost' = (lost \/ value # control)
        /\ seen' = [seen EXCEPT ![t] = {}]
        /\ Continue(t)
        /\ UNCHANGED <<driverState, lock>>

(***************************************************************************)
(* What hw_init checks, and what becomes of it                             *)
(***************************************************************************)

\* A process returns, with the lock if it has it; a probe destroys the work queue.
Fail(t) ==
  /\ Start(t, << >>)
  /\ lock' = IF lock = t THEN Nobody ELSE lock
  /\ phase' = IF t = "core" THEN "absent" ELSE phase

\* Ready, with calibration to do or not and ECC on, now or before, or not; or not ready.
CheckReady(t) ==
  /\ Task(t, "ready")
  /\ \/ /\ \E calibration \in {<< >>, Calibrate}, ecc \in {<< >>, <<Set("mode")>>} :
             Start(t, calibration \o ecc \o Tail(todo[t]))
        /\ UNCHANGED <<lock, phase>>
     \/ Fail(t)
  /\ UNCHANGED <<registered, handlers, lowPower, suspended, stray, controlState, seen>>

\* The calibration work goes on whether it went well or not.
CheckCalibrated(t) ==
  /\ Task(t, "calibrated")
  /\ \/ Continue(t) /\ UNCHANGED <<lock, phase>>
     \/ Fail(t)
  /\ UNCHANGED <<registered, handlers, lowPower, suspended, stray, controlState, seen>>

\* request_irq, once more with every reset; or no interrupt was found.
RequestIrq(t) ==
  /\ Task(t, "irq")
  /\ \/ /\ handlers < MaxHandlers
        /\ handlers' = handlers + 1
        /\ stray' = (stray \/ t # "core")
        /\ Continue(t) /\ UNCHANGED <<lock, phase>>
     \/ Continue(t) /\ UNCHANGED <<handlers, stray, lock, phase>>
     \/ Fail(t) /\ UNCHANGED <<handlers, stray>>
  /\ UNCHANGED <<registered, lowPower, suspended, controlState, seen>>

(***************************************************************************)
(* Files and work                                                          *)
(***************************************************************************)

Awake == ~ suspended /\ Idle("pm")

\* A command written to the device.
Write(t) ==
  /\ Idle(t) /\ Awake
  /\ "cdev" \in registered /\ phase \in {"probing", "bound"}
  /\ \E c \in Commands : Start(t, c)
  /\ UNCHANGED <<driverState, controlState, lock, seen>>

LowPowerMode(t) ==
  /\ Task(t, "low_power_mode")
  /\ lowPower' = TRUE
  /\ Continue(t)
  /\ UNCHANGED <<phase, registered, handlers, suspended, stray, controlState, lock, seen>>

Ioctl(t) ==
  /\ Idle(t) /\ Awake
  /\ "cdev" \in registered /\ phase \in {"probing", "bound"}
  /\ lock = Nobody
  /\ lock' = t
  /\ \E c \in Ioctls : Start(t, c)
  /\ UNCHANGED <<driverState, controlState, seen>>

Unlock(t) ==
  /\ Task(t, "unlock")
  /\ lock' = Nobody
  /\ Continue(t)
  /\ UNCHANGED <<driverState, controlState, seen>>

\* Every hour until it is cancelled, asleep or not, and after a shutdown.
CalibrationWork ==
  /\ Idle("work")
  /\ phase \in {"bound", "down"}
  /\ Start("work", Calibrate)
  /\ UNCHANGED <<driverState, controlState, lock, seen>>

(***************************************************************************)
(* Sleep.  Processes return before they are frozen.                        *)
(***************************************************************************)

ddr_suspend ==
  /\ phase = "bound" /\ Awake
  /\ \A t \in Users \cup {"core"} : Idle(t)
  /\ suspended' = TRUE
  /\ Start("pm", IF lowPower THEN <<Clear("enable"), Set("low_power")>> ELSE << >>)
  /\ UNCHANGED <<phase, registered, handlers, lowPower, stray, controlState, lock, seen>>

\* Mutant: the controller is not enabled again.
ResumeTasksDisabled == <<Clear("low_power"), Set("mode")>>

ResumeTasks == <<Clear("low_power"), Set("enable"), Set("mode")>>

ddr_resume ==
  /\ suspended /\ Idle("pm")
  /\ suspended' = FALSE
  /\ Start("pm", ResumeTasks)
  /\ UNCHANGED <<phase, registered, handlers, lowPower, stray, controlState, lock, seen>>

(***************************************************************************)
(* Probe, remove and shutdown                                              *)
(***************************************************************************)

\* The driver's data are new.
StartProbe ==
  /\ phase = "absent"
  /\ phase' = "probing"
  /\ lowPower' = FALSE
  /\ Start("core", HwInit \o <<Do("create"), Do("bind")>>)
  /\ UNCHANGED <<registered, handlers, suspended, stray, controlState, lock, seen>>

Parts == <<"chrdev", "class", "device", "cdev">>
Made(i) == {Parts[j] : j \in 1 .. i - 1}

\* Mutant: the class is not destroyed.
UndoneButClass(i) == Made(i) \ {"class"}

\* The labels out_unregister, out_destroy_class and out_destroy_device, in reverse.
Undone(i) ==
  CASE i = 1 -> {}
    [] i = 2 -> {"chrdev"}
    [] i = 3 -> {"chrdev", "class"}
    [] i = 4 -> {"chrdev", "class", "device"}

\* When the device cannot be created, the message about it uses the error for a device.
CreateDevice ==
  /\ Task("core", "create")
  /\ \/ /\ registered' = Made(5)
        /\ Continue("core") /\ UNCHANGED <<phase, lock, stray>>
     \/ \E i \in {1, 2, 4} :
          /\ registered' = Made(i) \ Undone(i)
          /\ stray' = (stray \/ handlers > 0)
          /\ Fail("core")
     \/ /\ registered' = Made(3)
        /\ phase' = "dead" /\ Start("core", << >>)
        /\ UNCHANGED <<lock, stray>>
  /\ UNCHANGED <<handlers, lowPower, suspended, controlState, seen>>

\* The proc entry, the timers, the work.
Bind ==
  /\ Task("core", "bind")
  /\ phase' = "bound"
  /\ Continue("core")
  /\ UNCHANGED <<registered, handlers, lowPower, suspended, stray, controlState, lock, seen>>

\* No file is open.
StartRemove ==
  /\ phase = "bound" /\ Awake
  /\ \A t \in Users \cup {"core"} : Idle(t)
  /\ phase' = "removing"
  /\ Start("core", <<Do("cancel"), Do("destroy"), Do("free_irq"), Clear("enable"), Do("removed")>>)
  /\ UNCHANGED <<registered, handlers, lowPower, suspended, stray, controlState, lock, seen>>

CancelWork ==
  /\ Task("core", "cancel") /\ Idle("work")
  /\ Continue("core")
  /\ UNCHANGED <<driverState, controlState, lock, seen>>

DestroyDevice ==
  /\ Task("core", "destroy")
  /\ registered' = {}
  /\ Continue("core")
  /\ UNCHANGED <<phase, handlers, lowPower, suspended, stray, controlState, lock, seen>>

\* One registration.
FreeIrq ==
  /\ Task("core", "free_irq")
  /\ handlers' = IF handlers > 0 THEN handlers - 1 ELSE 0
  /\ Continue("core")
  /\ UNCHANGED <<phase, registered, lowPower, suspended, stray, controlState, lock, seen>>

Removed ==
  /\ Task("core", "removed")
  /\ phase' = "absent"
  /\ Continue("core")
  /\ UNCHANGED <<registered, handlers, lowPower, suspended, stray, controlState, lock, seen>>

ddr_shutdown ==
  /\ phase = "bound" /\ Awake
  /\ \A t \in Users \cup {"core"} : Idle(t)
  /\ phase' = "down"
  /\ Start("core", <<Clear("enable")>>)
  /\ UNCHANGED <<registered, handlers, lowPower, suspended, stray, controlState, lock, seen>>

ControllerNext ==
  \/ \E t \in Contexts :
       \/ ReadControl(t) \/ WriteControl(t)
       \/ CheckReady(t) \/ CheckCalibrated(t) \/ RequestIrq(t)
  \/ \E t \in Users : Write(t) \/ LowPowerMode(t) \/ Ioctl(t) \/ Unlock(t)
  \/ CalibrationWork
  \/ ddr_suspend \/ ddr_resume
  \/ StartProbe \/ CreateDevice \/ Bind
  \/ StartRemove \/ CancelWork \/ DestroyDevice \/ FreeIrq \/ Removed
  \/ ddr_shutdown

ControllerSpec == ControllerStart /\ [][ControllerNext]_controllerVars

(***************************************************************************)
(* What must hold                                                          *)
(***************************************************************************)

(* With nothing under way, and as long as no change to the control register was overwritten, the
   controller is out of reset, enabled unless it is shut down or asleep in low power, and told so
   when it is: after failed resets and probes, calibrations at any time, sleep and wake-up, in
   any order. *)
SwitchedRight ==
  (\A t \in Contexts : Idle(t)) /\ ~ lost /\ phase \in {"bound", "down"} =>
    /\ "reset" \notin control
    /\ "enable" \in control <=> ~ (phase = "down" \/ (suspended /\ lowPower))
    /\ suspended /\ lowPower => "low_power" \in control

(* A driver that was removed, or failed to probe at whichever point, leaves nothing registered;
   and no interrupt handler, unless a reset requested it once more or the probe failed after it
   was requested. *)
GoneLeavesNothing ==
  phase = "absent" => registered = {} /\ (~ stray => handlers = 0)

=============================================================================
