------------------------------ MODULE DdrInit ------------------------------
(***************************************************************************)
(* src/uboot-ddr-init/ddr_init.c: U-Boot's DDR controller code.  ddr_init  *)
(* saves a configuration and then brings the PHY, the controller, the      *)
(* timings, the calibration and a memory test up, stopping at the first    *)
(* that fails; setters change one setting of an initialized controller.    *)
(* U-Boot is single-threaded: an operation is one step.                    *)
(*                                                                         *)
(* A setting is the frequency, the voltage or the timings; the copies the  *)
(* code keeps of each, and the registers that hold it, are functions of    *)
(* the setting.  The PHY and controller registers that only these steps    *)
(* use, and the memory the test overwrites, are left out: what the         *)
(* hardware answers is a choice of the step at which ddr_init fails.       *)
(*                                                                         *)
(* The timings are packed into their registers with shifts that lose bits, *)
(* so what is in force is never compared with what was asked for but by    *)
(* way of Pack.                                                            *)
(***************************************************************************)
EXTENDS Integers

CONSTANTS
  Values,          \* the values of the frequency and of the voltage
  CallerTimings,   \* the timings that callers pass
  NoTiming,        \* the timings of a variable that nothing has set: zeros
  Pack             \* what the timing registers hold for timings that are written

ASSUME TimingsAssumption == DOMAIN Pack = CallerTimings \cup {NoTiming}

Settings == {"frequency", "voltage", "timing"}
Stages   == {"phy", "controller", "calibration", "test", "done"}

VARIABLES
  initialized,     \* g_ddr_initialized
  config,          \* g_ddr_config, as saved by the last ddr_init and the setters
  timing,          \* g_ddr_timing
  info,            \* g_ddr_info: the frequency and the voltage
  regs,            \* the timing, frequency and voltage registers; 0 after a reset
  settled          \* ghost: the settings that a failed ddr_init has not touched since they were
                   \*   last set; with "saved" if ddr_init was the last to set the timings

controllerVars == <<initialized, config, timing, info, regs, settled>>

Unavailable == [error |-> "ENODEV"]

Configs == [frequency : Values, voltage : Values, timing : CallerTimings]

\* The registers after a reset of the controller.
Reset == [frequency |-> 0, voltage |-> 0, timing |-> Pack[NoTiming]]

ControllerStart ==
  /\ initialized = FALSE
  /\ config = [frequency |-> 0, voltage |-> 0, timing |-> NoTiming]
  /\ timing = NoTiming
  /\ info = [s \in {"frequency", "voltage"} |-> 0]
  /\ regs = Reset
  /\ settled = {}

\* Mutant: set_timing does not save the timings it writes.
TimingUnsaved(value) == timing

TimingSaved(value) == value

\* ddr_timing_init: the timings given, packed, and the frequency and voltage of the saved
\* configuration.
TimingWritten(c, value) == [c EXCEPT !["timing"] = Pack[value]]

\* What the registers hold when a step of ddr_init times out, or the memory test fails: the PHY
\* has registers of its own, the reset of the controller clears those of the settings or does
\* not, and from then on the timings are written.
PhyFails(stage)         == stage = "phy" /\ regs' = regs
ControllerFails(stage)  == stage = "controller" /\ regs' \in {regs, Reset}
CalibrationFails(stage, c) == stage = "calibration" /\ regs' = TimingWritten(c, c["timing"])
TestFails(stage, c)     == stage = "test" /\ regs' = TimingWritten(c, c["timing"])

\* ddr_init(c), which ends at a stage: a failed one leaves the configuration saved and the
\* flag as it was.
ControllerInit(c, stage) ==
  /\ config' = c
  /\ timing' = c["timing"]
  /\ \/ /\ \/ PhyFails(stage) \/ ControllerFails(stage)
           \/ CalibrationFails(stage, c) \/ TestFails(stage, c)
        /\ settled' = {}
        /\ UNCHANGED <<info, initialized>>
     \/ /\ stage = "done"
        /\ regs' = TimingWritten(c, c["timing"])
        /\ info' = [s \in {"frequency", "voltage"} |-> c[s]]
        /\ initialized' = TRUE
        /\ settled' = Settings \cup {"saved"}

\* ddr_set_timing leaves the timings of the saved configuration as they were.
SetTiming(value) ==
  /\ initialized
  /\ regs' = TimingWritten(config, value)
  /\ timing' = TimingSaved(value)
  /\ settled' = (settled \ {"saved"}) \cup {"timing"}
  /\ UNCHANGED <<initialized, config, info>>

\* ddr_set_frequency and ddr_set_voltage.
SetSetting(s, value) ==
  /\ initialized
  /\ regs' = [regs EXCEPT ![s] = value]
  /\ config' = [config EXCEPT ![s] = value]
  /\ info' = [info EXCEPT ![s] = value]
  /\ settled' = settled \cup {s}
  /\ UNCHANGED <<initialized, timing>>

\* What the getters copy out, when they do.
ddr_get_info   == IF initialized THEN info ELSE Unavailable
ddr_get_config == IF initialized THEN config ELSE Unavailable

ControllerNext ==
  \/ \E c \in Configs, stage \in Stages : ControllerInit(c, stage)
  \/ \E t \in CallerTimings : SetTiming(t)
  \/ \E s \in {"frequency", "voltage"}, v \in Values : SetSetting(s, v)

ControllerSpec == ControllerStart /\ [][ControllerNext]_controllerVars

----------------------------------------------------------------------------
(* Properties *)

(* What the code believes of a setting is what the controller's registers hold, in every copy:
   what ddr_get_config and ddr_get_info return of the frequency and the voltage, and for the
   timings, which the registers hold packed, g_ddr_timing and the copy in g_ddr_config.
   A failed ddr_init breaks this for every setting (the flag stays set and the new configuration
   is saved without being in force) until the setting is set again or ddr_init succeeds, and
   ddr_set_timing breaks it for the copy in g_ddr_config until ddr_init succeeds. *)
BelievedSettings ==
  /\ \A s \in settled \cap {"frequency", "voltage"} :
       ddr_get_config[s] = regs[s] /\ ddr_get_info[s] = regs[s]
  /\ "timing" \in settled => regs["timing"] = Pack[timing]
  /\ "saved" \in settled => regs["timing"] = Pack[ddr_get_config["timing"]]

=============================================================================
