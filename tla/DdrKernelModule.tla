-------------------------- MODULE DdrKernelModule --------------------------
(***************************************************************************)
(* kernel/ddr_kernel_module.c: the module behind /dev/ddr_manager.         *)
(* Processes open it and send ioctls, which run one at a time under        *)
(* dev->mutex; reads, the proc and debugfs files and two kernel threads    *)
(* look at the same data without it.  The device can be opened from        *)
(* cdev_add on, before its registers are mapped, its hardware is asked and *)
(* its regions are listed; loading goes on without dev->mutex meanwhile.   *)
(*                                                                         *)
(* Addresses and sizes are in MB.  A step is what happens between two      *)
(* points where another thread can see a difference.  Copies to and from   *)
(* user memory, allocations and the creation of a thread may fail, and the *)
(* controller may settle on another value than the one written to it.      *)
(*                                                                         *)
(* Not modelled: mmap of the registers; the counters of errors, peaks and  *)
(* totals; ddr_dma_alloc and ddr_dma_free, which nothing calls; what goes  *)
(* on inside a device whose initialisation failed while a process had it   *)
(* open, for it has been freed.                                            *)
(***************************************************************************)
EXTENDS Integers, FiniteSets, Sums

CONSTANTS
  Users,           \* processes
  Nobody,          \* the owner of dev->mutex when it is free
  Addresses,       \* where alloc_pages can put a block, in MB
  Sizes,           \* the sizes asked for, in MB
  TotalMemory,     \* what register 0x04 says, in MB
  Configs,         \* what CONFIG is asked for: records of Settings
  Values,          \* the values of a setting
  DefaultTiming,   \* the timings ddr_hw_init puts in dev->config
  Unlisted         \* the regions whose descriptor may fail to be allocated

Settings == {"frequency", "voltage", "timing"}
Threads  == {"monitor", "health"}

\* alloc_pages gives out memory that is there; a block is aligned to its size.
ASSUME ModuleAssumption ==
  /\ Nobody \notin Users
  /\ \A a \in Addresses, s \in Sizes : a % s = 0 => a + s <= TotalMemory
  /\ Addresses \subseteq Nat /\ Sizes \subseteq Nat \ {0} /\ TotalMemory \in Nat
  /\ Configs \subseteq [Settings -> Values] /\ DefaultTiming \in Values

VARIABLES
  phase,           \* how far ddr_device_init or ddr_device_exit has come
  mapped,          \* dev->regs is mapped
  regions,         \* dev->regions
  total,           \* dev->total_memory
  mutex,           \* dev->mutex: its owner
  files,           \* the users with an open file
  live,            \* the blocks allocated and not freed
  used, count,     \* used_memory and stats.current_allocations
  config, hw,      \* dev->config, and the registers
  astray,          \* a CONFIG that has not ended well, a user of the debugfs files or a late
                   \* store of the loading changed a frequency since hw and config agreed
  reg,             \* the local reg of ddr_hw_init while the module is loaded
  overtaken,       \* a CONFIG changed the frequency since reg was read
  thread,          \* per kernel thread: "none", "awake", "asleep" or "exited"
  stop,            \* dev->stop_threads
  stopping,        \* the threads that kthread_stop waits for
  pc, block, want  \* per user: control, the block and the configuration at hand

device   == <<phase, mapped, regions, total>>
memory   == <<live, used, count>>
settings == <<config, hw, astray, reg, overtaken>>
threads  == <<thread, stop, stopping>>
request  == <<block, want>>
moduleVars == <<device, mutex, files, memory, settings, threads, pc, request>>

(***************************************************************************)
(* Regions                                                                 *)
(***************************************************************************)

FixedRegions ==
  [bootloader |-> [start |-> 0,   end |-> 16],   uboot |-> [start |-> 16,  end |-> 32],
   kernel     |-> [start |-> 32,  end |-> 256],  dtb   |-> [start |-> 256, end |-> 272],
   npu        |-> [start |-> 512, end |-> 640],  gpu   |-> [start |-> 640, end |-> 768],
   vpu        |-> [start |-> 768, end |-> 1024]]

RegionNames == DOMAIN FixedRegions \cup {"system"}

\* ddr_region_add of the region n.
Region(n) ==
  IF n = "system" THEN [start |-> 1024, end |-> total] ELSE FixedRegions[n]

\* Regions do not overlap, so that the first one found is the only one.
ddr_region_check(addr, size) ==
  \E r \in regions : r.start <= addr /\ addr < r.end /\ addr + size <= r.end

(***************************************************************************)
(* Loading                                                                 *)
(***************************************************************************)

NoBlock  == [ptr |-> 0, size |-> 0]
Unset(v) == [s \in Settings |-> v]

ModuleStart ==
  /\ phase = "absent" /\ mapped = FALSE /\ regions = {} /\ total = 0
  /\ mutex = Nobody /\ files = {}
  /\ live = {} /\ used = 0 /\ count = 0
  /\ \E v \in Values : config = Unset(v) /\ hw = Unset(v)
  /\ astray = TRUE /\ reg = Nobody /\ overtaken = FALSE
  /\ thread = [k \in Threads |-> "none"] /\ stop = FALSE /\ stopping = {}
  /\ pc = [u \in Users |-> "out"]
  /\ block = [u \in Users |-> NoBlock]
  /\ want = [u \in Users |-> Nobody]

\* Up to cdev_add: the device can be opened.
AddDevice ==
  /\ phase = "absent"
  /\ phase' = "added"
  /\ UNCHANGED <<mapped, regions, total, mutex, files, memory, settings, threads, pc, request>>

MapRegisters ==
  /\ phase = "added"
  /\ phase' = "mapped" /\ mapped' = TRUE
  /\ UNCHANGED <<regions, total, mutex, files, memory, settings, threads, pc, request>>

\* ddr_hw_init in loading: a CONFIG can come between what is read and what is stored.
ReadFrequency ==
  /\ phase = "mapped"
  /\ phase' = "freqRead"
  /\ total' = TotalMemory /\ reg' = hw.frequency /\ overtaken' = FALSE
  /\ UNCHANGED <<mapped, regions, mutex, files, memory, config, hw, astray, threads, pc, request>>

StoreFrequency ==
  /\ phase = "freqRead"
  /\ phase' = "freqSet"
  /\ config' = [config EXCEPT !.frequency = reg]
  /\ astray' = overtaken
  /\ reg' = Nobody /\ overtaken' = FALSE
  /\ UNCHANGED <<mapped, regions, total, mutex, files, memory, hw, threads, pc, request>>

ReadVoltage ==
  /\ phase = "freqSet"
  /\ phase' = "voltRead"
  /\ reg' = hw.voltage
  /\ UNCHANGED <<mapped, regions, total, mutex, files, memory, config, hw, astray, overtaken,
                 threads, pc, request>>

\* The default timings are not written to the hardware.
StoreVoltage ==
  /\ phase = "voltRead"
  /\ phase' = "asked"
  /\ config' = [config EXCEPT !.voltage = reg, !.timing = DefaultTiming]
  /\ reg' = Nobody
  /\ UNCHANGED <<mapped, regions, total, mutex, files, memory, hw, astray, overtaken, threads, pc,
                 request>>

\* What ddr_region_add returns is not looked at.
AddRegions ==
  /\ phase = "asked"
  /\ phase' = "listed"
  /\ \E lost \in SUBSET Unlisted : regions' = {Region(n) : n \in RegionNames \ lost}
  /\ UNCHANGED <<mapped, total, mutex, files, memory, settings, threads, pc, request>>

\* proc and debugfs files were created, and are taken away again when a thread fails.
StartMonitor ==
  /\ phase = "listed" /\ thread["monitor"] = "none"
  /\ thread' = [thread EXCEPT !["monitor"] = "awake"]
  /\ UNCHANGED <<device, mutex, files, memory, settings, stop, stopping, pc, request>>

StartHealth ==
  /\ phase = "listed" /\ thread["monitor"] # "none" /\ stopping = {}
  /\ \/ phase' = "ready" /\ thread' = [thread EXCEPT !["health"] = "awake"]
        /\ UNCHANGED stopping
     \/ stopping' = {"monitor"} /\ UNCHANGED <<phase, thread>>
  /\ UNCHANGED <<mapped, regions, total, mutex, files, memory, settings, stop, pc, request>>

\* ioremap or a thread failed: unmapped, deleted and freed, whoever has the device open.
\* The list of regions is lost.
InitFails ==
  /\ \/ phase = "added"
     \/ phase = "listed" /\ thread["monitor"] = "none"
     \/ phase = "listed" /\ stopping # {} /\ thread["monitor"] = "exited"
  /\ \A u \in Users : pc[u] # "proc"
  /\ phase' = "failed" /\ mapped' = FALSE /\ stopping' = {}
  /\ UNCHANGED <<regions, total, mutex, files, memory, settings, thread, stop, pc, request>>

(***************************************************************************)
(* File operations                                                         *)
(***************************************************************************)

Present == phase \in {"added", "mapped", "freqRead", "freqSet", "voltRead", "asked", "listed",
                      "ready"}

ddr_open(u) ==
  /\ Present /\ u \notin files /\ pc[u] = "out"
  /\ mutex = Nobody
  /\ files' = files \cup {u}
  /\ UNCHANGED <<device, mutex, memory, settings, threads, pc, request>>

\* ddr_release frees nothing: the blocks of a process outlive it.
ddr_release(u) ==
  /\ Present /\ u \in files /\ pc[u] = "out"
  /\ files' = files \ {u}
  /\ UNCHANGED <<device, mutex, memory, settings, threads, pc, request>>

Goto(u, label) == pc' = [pc EXCEPT ![u] = label]

Leave(u) ==
  /\ mutex' = Nobody
  /\ Goto(u, "out")
  /\ block' = [block EXCEPT ![u] = NoBlock]
  /\ want' = [want EXCEPT ![u] = Nobody]

ddr_ioctl(u) ==
  /\ Present /\ u \in files /\ pc[u] = "out"
  /\ mutex = Nobody
  /\ mutex' = u
  /\ Goto(u, "ioctl")
  /\ UNCHANGED <<device, files, memory, settings, threads, request>>

\* GET_INFO, STATS, a number the module does not know, a copy or an allocation that fails.
IoctlReturns(u) ==
  /\ pc[u] = "ioctl"
  /\ Leave(u)
  /\ UNCHANGED <<device, files, memory, settings, threads>>

Covers(b) == b.ptr .. b.ptr + b.size - 1
InUse     == UNION {Covers(b) : b \in live}

\* alloc_pages: a block is aligned to its size.
AllocPages(u) ==
  /\ pc[u] = "ioctl"
  /\ \E b \in [ptr : Addresses, size : Sizes] :
       /\ b.ptr % b.size = 0 /\ Covers(b) \cap InUse = {}
       /\ live' = live \cup {b}
       /\ block' = [block EXCEPT ![u] = b]
  /\ Goto(u, "check")
  /\ UNCHANGED <<device, mutex, files, used, count, settings, threads, want>>

CountBlock(b)   == used' = used + b.size /\ count' = count + 1
UncountBlock(b) == used' = used - b.size /\ count' = count - 1

\* ddr_alloc: a block outside the regions is given back before it is counted.
CheckRegion(u) ==
  /\ pc[u] = "check"
  /\ IF ddr_region_check(block[u].ptr, block[u].size)
     THEN CountBlock(block[u]) /\ Goto(u, "copy")
     ELSE Goto(u, "free") /\ UNCHANGED <<used, count>>
  /\ UNCHANGED <<device, mutex, files, live, settings, threads, request>>

\* Mutant: a block whose address cannot be copied out is forgotten.
CopyForgotten(u) ==
  /\ pc[u] = "copy"
  /\ UncountBlock(block[u]) /\ Leave(u)
  /\ UNCHANGED <<device, files, live, settings, threads>>

\* The caller gets the address, or ddr_free takes the block back.
CopyOut(u) ==
  /\ pc[u] = "copy"
  /\ \/ Leave(u) /\ UNCHANGED <<used, count>>
     \/ UncountBlock(block[u]) /\ Goto(u, "free") /\ UNCHANGED <<mutex, request>>
  /\ UNCHANGED <<device, files, live, settings, threads>>

\* FREE takes the word of its caller, who passes a block it was given.
Uncount(u) ==
  /\ pc[u] = "ioctl"
  /\ \E b \in live :
       /\ UncountBlock(b)
       /\ block' = [block EXCEPT ![u] = b]
  /\ Goto(u, "free")
  /\ UNCHANGED <<device, mutex, files, live, settings, threads, want>>

FreePages(u) ==
  /\ pc[u] = "free"
  /\ live' = live \ {block[u]}
  /\ Leave(u)
  /\ UNCHANGED <<device, files, used, count, settings, threads>>

StartConfig(u) ==
  /\ pc[u] = "ioctl" /\ mapped
  /\ \E c \in Configs : want' = [want EXCEPT ![u] = c]
  /\ Goto(u, "frequency")
  /\ UNCHANGED <<device, mutex, files, memory, settings, threads, block>>

\* Where ddr_hw_config goes when it has written the setting s.
Following(s) ==
  CASE s = "frequency" -> "voltage" [] s = "voltage" -> "timing" [] s = "timing" -> "verify"

\* A write of ddr_hw_config: the controller settles on the value written or on another one.
WriteSetting(u, s) ==
  /\ pc[u] = s
  /\ \E v \in Values :
       /\ hw' = [hw EXCEPT ![s] = v]
       /\ IF s = "frequency" /\ v # hw.frequency
          THEN astray' = TRUE /\ overtaken' = (phase = "freqRead")
          ELSE UNCHANGED <<astray, overtaken>>
  /\ Goto(u, Following(s))
  /\ UNCHANGED <<device, mutex, files, memory, config, reg, threads, request>>

\* Mutant: the configuration is kept whatever the controller did.
VerifyNothing(u) ==
  /\ pc[u] = "verify"
  /\ config' = want[u] /\ astray' = FALSE
  /\ Leave(u)
  /\ UNCHANGED <<device, files, memory, hw, reg, overtaken, threads>>

\* Only the frequency is read back; a configuration that fails leaves all as it was written.
Verify(u) ==
  /\ pc[u] = "verify"
  /\ IF hw.frequency = want[u].frequency
     THEN config' = want[u] /\ astray' = FALSE
     ELSE UNCHANGED <<config, astray>>
  /\ Leave(u)
  /\ UNCHANGED <<device, files, memory, hw, reg, overtaken, threads>>

\* RESET is ddr_hw_init with the mutex held, without which nothing writes to the hardware.
IoctlReset(u) ==
  /\ pc[u] = "ioctl" /\ mapped
  /\ total' = TotalMemory
  /\ config' = [config EXCEPT !.frequency = hw.frequency] /\ astray' = FALSE
  /\ Goto(u, "reset")
  /\ UNCHANGED <<phase, mapped, regions, mutex, files, memory, hw, reg, overtaken, threads, request>>

ResetRest(u) ==
  /\ pc[u] = "reset"
  /\ config' = [config EXCEPT !.voltage = hw.voltage, !.timing = DefaultTiming]
  /\ Leave(u)
  /\ UNCHANGED <<device, files, memory, hw, astray, reg, overtaken, threads>>

\* CONFIG or RESET before the registers are mapped: the process dies with the mutex held.
Oops(u) ==
  /\ pc[u] = "ioctl" /\ ~ mapped
  /\ Goto(u, "dead")
  /\ files' = files \ {u}
  /\ UNCHANGED <<device, mutex, memory, settings, threads, request>>

\* The proc and debugfs files hold no module: they are there until they are taken away.
FilesShown == phase \in {"listed", "ready", "exiting", "stuck"}

\* The debugfs files write frequency and voltage of dev->config and nothing else.
WriteDebugfs ==
  /\ FilesShown
  /\ \E s \in {"frequency", "voltage"}, v \in Values : config' = [config EXCEPT ![s] = v]
  /\ astray' = TRUE
  /\ UNCHANGED <<device, mutex, files, memory, hw, reg, overtaken, threads, pc, request>>

\* ddr_proc_show walks the regions without a lock; remove_proc_entry waits for it.
StartProc(u) ==
  /\ FilesShown /\ pc[u] = "out"
  /\ Goto(u, "proc")
  /\ UNCHANGED <<device, mutex, files, memory, settings, threads, request>>

EndProc(u) ==
  /\ pc[u] = "proc"
  /\ Goto(u, "out")
  /\ UNCHANGED <<device, mutex, files, memory, settings, threads, request>>

(***************************************************************************)
(* Kernel threads and unloading                                            *)
(***************************************************************************)

\* One round of ddr_monitor_thread or ddr_health_thread, from the test of stop_threads on.
Round(k) ==
  /\ thread[k] = "awake"
  /\ thread' = [thread EXCEPT ![k] = IF stop THEN "exited" ELSE "asleep"]
  /\ UNCHANGED <<device, mutex, files, memory, settings, stop, stopping, pc, request>>

WakeUp(k) ==
  /\ thread[k] = "asleep"
  /\ thread' = [thread EXCEPT ![k] = IF k \in stopping THEN "exited" ELSE "awake"]
  /\ UNCHANGED <<device, mutex, files, memory, settings, stop, stopping, pc, request>>

\* Mutant: open files do not hold the module.
ExitWhileOpen ==
  /\ phase = "ready"
  /\ phase' = "exiting" /\ stop' = TRUE
  /\ UNCHANGED <<mapped, regions, total, mutex, files, memory, settings, thread, stopping, pc,
                 request>>

\* An open file holds the module: ddr_module_exit starts when there is none.
StartExit ==
  /\ phase = "ready" /\ files = {}
  /\ phase' = "exiting" /\ stop' = TRUE
  /\ UNCHANGED <<mapped, regions, total, mutex, files, memory, settings, thread, stopping, pc,
                 request>>

\* kthread_stop waits for the thread k.  When k has seen stop_threads and left by itself, its task
\* may have been freed, and rmmod dies of it.
kthread_stop(k) ==
  /\ \/ stopping' = {k} /\ UNCHANGED phase
     \/ thread[k] = "exited" /\ phase' = "stuck" /\ UNCHANGED stopping
  /\ UNCHANGED <<mapped, regions, total, mutex, files, memory, settings, thread, stop, pc, request>>

StopMonitor ==
  /\ phase = "exiting" /\ stopping = {}
  /\ kthread_stop("monitor")

StopHealth ==
  /\ phase = "exiting" /\ stopping = {"monitor"} /\ thread["monitor"] = "exited"
  /\ kthread_stop("health")

\* The debugfs and proc files go, which waits for who is in them; then registers and regions.
Teardown ==
  /\ phase = "exiting" /\ stopping = {"health"} /\ thread["health"] = "exited"
  /\ \A u \in Users : pc[u] # "proc"
  /\ phase' = "gone" /\ mapped' = FALSE /\ regions' = {} /\ stopping' = {}
  /\ UNCHANGED <<total, mutex, files, memory, settings, thread, stop, pc, request>>

LoadStep ==
  \/ AddDevice \/ MapRegisters \/ ReadFrequency \/ StoreFrequency \/ ReadVoltage \/ StoreVoltage
  \/ AddRegions \/ StartMonitor \/ StartHealth \/ InitFails

IoctlStep(u) ==
  \/ IoctlReturns(u) \/ AllocPages(u) \/ CheckRegion(u) \/ CopyOut(u)
  \/ Uncount(u) \/ FreePages(u)
  \/ StartConfig(u) \/ (\E s \in Settings : WriteSetting(u, s)) \/ Verify(u)
  \/ IoctlReset(u) \/ ResetRest(u) \/ Oops(u)

\* What any process can do; the file operations of a device that was freed have no meaning.
UserStep(u) ==
  \/ ddr_open(u) \/ ddr_release(u) \/ ddr_ioctl(u)
  \/ Present /\ IoctlStep(u)
  \/ StartProc(u) \/ EndProc(u)

ThreadStep(k) == Round(k) \/ WakeUp(k)
ExitStep == StartExit \/ StopMonitor \/ StopHealth \/ Teardown

(***************************************************************************)
(* What must hold                                                          *)
(***************************************************************************)

\* What the debugfs file and a read of the device show, without the mutex.
ddr_debugfs_info == [total |-> total, used |-> used, frequency |-> config.frequency]

ddr_read == [used |-> used, free |-> total - used, frequency |-> config.frequency]

Bytes == SizeSum(live)

(* The books match the blocks: no reader, who takes no lock, sees more memory in use than is
   allocated or than there is, so that the free memory a read of the device shows does not wrap;
   and between ioctls they agree to the byte.  The order of the steps of ddr_alloc, ddr_free and
   of the failing copy is what keeps it. *)
AccountsExact ==
  /\ ddr_debugfs_info.used <= Bytes /\ count <= Cardinality(live)
  /\ ddr_read.free >= 0
  /\ mutex = Nobody => used = Bytes /\ count = Cardinality(live)

(* The frequency the module reports, to a read as in its debugfs file, is the one the controller
   runs at, unless a CONFIG has changed it and is under way or failed, somebody wrote to the
   debugfs files, or the loading stored what it had read before a CONFIG changed it: only then,
   and only until the next RESET or CONFIG that ends well. *)
FrequencyBelieved ==
  ~ astray => {ddr_debugfs_info.frequency, ddr_read.frequency} = {hw.frequency}

(* From the start of unloading no file is open and no process is in a file operation, also when
   rmmod dies of a thread that had left before it was stopped; once the module is gone nobody
   reads the proc file and no thread is left; and while a thread may read the status register it
   is mapped. *)
QuietAfterExit ==
  /\ phase \in {"exiting", "stuck", "gone"} =>
       /\ files = {}
       /\ \A u \in Users : pc[u] \in {"out", "dead", "proc"}
  /\ phase = "gone" =>
       /\ \A u \in Users : pc[u] # "proc"
       /\ \A k \in Threads : thread[k] = "exited"
  /\ thread["health"] \in {"awake", "asleep"} => mapped

=============================================================================
