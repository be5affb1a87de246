---------------------------- MODULE BoardMemory ----------------------------
(***************************************************************************)
(* src/ddr_config/board_memory.c: what the program knows of the boards it  *)
(* supports.  Three definitions, each with a memory configuration and a    *)
(* memory layout; the board is found by the model name in the device tree  *)
(* and, when that says nothing, by the machine name in sysfs.              *)
(*                                                                         *)
(* Addresses and sizes of regions count units of 16 MB, the largest unit   *)
(* that divides them all.  A configuration keeps what sizes and limits are *)
(* taken from; the on-die termination and the feature bits are left out.   *)
(***************************************************************************)
EXTENDS Integers

Boards == {"edge2", "rock3b", "orange5"}

Validated   == {"bootloader", "uboot", "kernel", "dtb", "reserved",
                "npu", "gpu", "vpu", "system"}
RegionNames == Validated \cup {"secure", "dma", "user"}

Region(start, size) == [start |-> start, size |-> size]
Unset == Region(0, 0)

(***************************************************************************)
(* Layouts                                                                 *)
(***************************************************************************)

\* What all three boards have below 512 MB, and the regions none of them sets.
BootRegions ==
  [bootloader |-> Region(0, 1),   uboot    |-> Region(1, 1),
   kernel     |-> Region(2, 14),  dtb      |-> Region(16, 1),
   reserved   |-> Region(17, 15), secure   |-> Unset,
   dma        |-> Unset,          user     |-> Unset]

\* A layout with its accelerators one after the other from 512 MB, and the system after them.
Above(npu, gpu, vpu, system) ==
  [npu    |-> Region(32, npu),
   gpu    |-> Region(32 + npu, gpu),
   vpu    |-> Region(32 + npu + gpu, vpu),
   system |-> Region(32 + npu + gpu + vpu, system)]

LayoutOf(high) ==
  [n \in RegionNames |-> IF n \in DOMAIN high THEN high[n] ELSE BootRegions[n]]

edge2_layout   == LayoutOf(Above(8, 8, 16, 192))
rock3b_layout  == LayoutOf(Above(16, 16, 32, 448))
orange5_layout == LayoutOf(Above(16, 16, 16, 176))

(***************************************************************************)
(* Configurations                                                          *)
(***************************************************************************)

Timings(tCL, tRCD, tRP, tRAS, tRC) ==
  [tCL |-> tCL, tRCD |-> tRCD, tRP |-> tRP, tRAS |-> tRAS, tRC |-> tRC]

edge2_default_config ==
  [type |-> "LPDDR4", size_mb |-> 4096, frequency_mhz |-> 1800, voltage_mv |-> 1100,
   timings |-> Timings(18, 18, 18, 42, 60)]
rock3b_default_config ==
  [type |-> "DDR4", size_mb |-> 8192, frequency_mhz |-> 1600, voltage_mv |-> 1200,
   timings |-> Timings(16, 16, 16, 36, 60)]
orange5_default_config ==
  [type |-> "LPDDR4X", size_mb |-> 4096, frequency_mhz |-> 2133, voltage_mv |-> 1050,
   timings |-> Timings(20, 20, 20, 48, 60)]

board_definitions ==
  [edge2   |-> [config |-> edge2_default_config,   layout |-> edge2_layout],
   rock3b  |-> [config |-> rock3b_default_config,  layout |-> rock3b_layout],
   orange5 |-> [config |-> orange5_default_config, layout |-> orange5_layout]]

(***************************************************************************)
(* Detection and queries                                                   *)
(***************************************************************************)

\* What the device tree, and sysfs, can answer on a machine that is the board b.
FromDts(b)   == {b, "unknown"}
FromSysfs(b) == {b, "unknown"}

ddr_board_detect(dts, sysfs) == IF dts # "unknown" THEN dts ELSE sysfs

Detected(b) == {ddr_board_detect(d, s) : d \in FromDts(b), s \in FromSysfs(b)}

\* The code returns it in one static structure, which the next call overwrites; nothing in the
\* program keeps it.
BoardInfo(b) ==
  LET c == board_definitions[b].config
  IN  [max_freq |-> c.frequency_mhz,  min_freq |-> c.frequency_mhz \div 2,
       max_voltage |-> c.voltage_mv,  min_voltage |-> c.voltage_mv - 100,
       max_size |-> c.size_mb,        ddr_type |-> c.type]

\* ddr_board_get_default_layout and ddr_config_get_default refuse the other types.
HasDefinition(b) == b \in Boards

DefaultLayout(b) == board_definitions[b].layout
DefaultConfig(b) == board_definitions[b].config

=============================================================================
