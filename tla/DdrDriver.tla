----------------------------- MODULE DdrDriver -----------------------------
(***************************************************************************)
(* kernel/drivers/ddr_driver/ddr_driver.c: a platform driver with one      *)
(* character device.  Processes read it, send it ioctls and map memory     *)
(* through it; every allocation is put on a tracking list, under a         *)
(* spinlock, and counted, under the mutex dev->lock, which an ioctl holds  *)
(* from its start to its end.  Two timers and two work items rearm         *)
(* themselves until ddr_remove stops them; ddr_remove then frees what is   *)
(* on the tracking list.                                                   *)
(*                                                                         *)
(* A step is what happens between two acquisitions of dev->lock, or        *)
(* between two points where another thread can see a difference.  A copy   *)
(* to or from user memory, the page allocator, kzalloc and remap may fail. *)
(*                                                                         *)
(* The registers, the interrupt, power management and the commands written *)
(* to the device are in DdrController.  Not modelled: the info the monitor *)
(* timer copies; peak and since-boot counters.                             *)
(***************************************************************************)
EXTENDS Integers, Sequences, FiniteSets, FiniteSetsExt, SequencesExt, Sums

CONSTANTS
  Users,           \* processes
  Nobody,          \* the owner of dev->lock when it is free
  Addresses,       \* where the page allocator can place a block
  Sizes,           \* the sizes asked for
  TotalMemory      \* dev->total_memory

ASSUME DriverAssumption ==
  /\ Nobody \notin Users
  /\ Sizes \subseteq Nat \ {0}
  /\ TotalMemory \in Nat

Timers    == {"monitor", "health"}
Works     == {"calibration", "refresh"}
Callbacks == Timers \cup Works

\* The ioctls: those that only read, reset or calibrate, and those that take dev->lock again.
Relocking == {"config", "free", "alloc", "dma_alloc"}
Requests  == {"query"} \cup Relocking

VARIABLES
  phase,           \* "absent", "bound", "removing" or "gone"
  lock,            \* dev->lock: its owner
  opened,          \* the users with an open file
  maps,            \* the blocks that user memory maps
  live,            \* the blocks the driver allocated and did not free
  tracked,         \* dev->allocations
  used, count,     \* used_memory, and stats.current_allocations
  pending,         \* the timers and work items that are armed or queued
  running,         \* the callbacks under way
  canceling,       \* the work items that cancel_delayed_work_sync is waiting for
  stop,            \* dev->stop_threads
  removal,         \* where ddr_remove is
  pc, request, block   \* per user: control, the ioctl or size asked for, the block

memory == <<maps, live, tracked, used, count>>
teardown == <<pending, running, canceling, stop, removal>>
vars == <<phase, lock, opened, memory, teardown, pc, request, block>>

NoBlock  == [ptr |-> Nobody, size |-> 0]
BlockSet == [ptr : Addresses, size : Sizes]

Init ==
  /\ phase = "absent"
  /\ lock = Nobody
  /\ opened = {} /\ maps = {} /\ live = {} /\ tracked = <<>>
  /\ used = 0 /\ count = 0
  /\ pending = {} /\ running = {} /\ canceling = {}
  /\ stop = FALSE
  /\ removal = "none"
  /\ pc = [t \in Users |-> "idle"]
  /\ request = [t \in Users |-> "none"]
  /\ block = [t \in Users |-> NoBlock]

\* ddr_probe, when it succeeds; a failed one leaves no device.
Probe ==
  /\ phase = "absent"
  /\ phase' = "bound"
  /\ pending' = Callbacks
  /\ UNCHANGED <<lock, opened, memory, running, canceling, stop, removal, pc, request, block>>

----------------------------------------------------------------------------
(* File operations *)

Goto(t, label) == pc' = [pc EXCEPT ![t] = label]

Return(t) ==
  /\ Goto(t, "idle")
  /\ request' = [request EXCEPT ![t] = "none"]
  /\ block' = [block EXCEPT ![t] = NoBlock]

\* ddr_open: a trylock, -EBUSY while anyone holds the lock.
Open(t) ==
  /\ phase = "bound" /\ t \notin opened
  /\ lock = Nobody
  /\ opened' = opened \cup {t}
  /\ UNCHANGED <<phase, lock, memory, teardown, pc, request, block>>

\* ddr_release frees nothing, and unmapping does not come back to the driver.
Release(t) ==
  /\ t \in opened /\ pc[t] = "idle"
  /\ opened' = opened \ {t}
  /\ UNCHANGED <<phase, lock, memory, teardown, pc, request, block>>

Unmap(b) ==
  /\ b \in maps
  /\ maps' = maps \ {b}
  /\ UNCHANGED <<phase, lock, opened, live, tracked, used, count, teardown, pc, request, block>>

\* ddr_ioctl; ddr_read takes the lock for a copy, as a query does.
StartIoctl(t) ==
  /\ t \in opened /\ pc[t] = "idle"
  /\ \E r \in Requests : request' = [request EXCEPT ![t] = r]
  /\ Goto(t, "lock")
  /\ UNCHANGED <<phase, lock, opened, memory, teardown, block>>

Lock(t) ==
  /\ pc[t] = "lock"
  /\ lock = Nobody
  /\ lock' = t
  /\ Goto(t, "held")
  /\ UNCHANGED <<phase, opened, memory, teardown, request, block>>

\* Mutant: the error path forgets to unlock.
EndIoctlLocked(t) == Return(t) /\ UNCHANGED lock

\* The end of ddr_ioctl, for a query and for a request that fails before it takes the lock again.
EndIoctl(t) == lock' = Nobody /\ Return(t)

IoctlReturns(t) ==
  /\ pc[t] = "held"
  /\ EndIoctl(t)
  /\ UNCHANGED <<phase, opened, memory, teardown>>

FreeAddresses == Addresses \ {b.ptr : b \in live}

\* Mutant: when kzalloc fails the block stays allocated.
AllocateUntracked(t, b) ==
  /\ b.ptr \in FreeAddresses
  /\ live' = live \cup {b}
  /\ block' = [block EXCEPT ![t] = b]
  /\ UNCHANGED tracked

\* A block put at a free place and tracked.
Allocate(t, b) ==
  /\ b.ptr \in FreeAddresses
  /\ live' = live \cup {b}
  /\ tracked' = Append(tracked, b)
  /\ block' = [block EXCEPT ![t] = b]

\* ddr_alloc looks at used_memory; ddr_dma_alloc does not.
IoctlAllocates(t) ==
  /\ pc[t] = "held"
  /\ request[t] \in {"alloc", "dma_alloc"}
  /\ \E b \in BlockSet :
       /\ request[t] = "alloc" => used + b.size <= TotalMemory
       /\ Allocate(t, b)
  /\ Goto(t, "stuck")
  /\ UNCHANGED <<phase, lock, opened, maps, used, count, teardown, request>>

\* ddr_hw_config takes the lock first of all.
IoctlRelocks(t) ==
  /\ pc[t] = "held"
  /\ request[t] = "config"
  /\ Goto(t, "stuck")
  /\ UNCHANGED <<phase, lock, opened, memory, teardown, request, block>>

\* ddr_free and ddr_dma_free, of any address: its first entry is off the tracking list before
\* they take the lock; an address that is not listed is freed all the same, but for the lock.
IoctlFrees(t) ==
  /\ pc[t] = "held"
  /\ request[t] = "free"
  /\ \/ Goto(t, "stuck") /\ UNCHANGED <<tracked, block>>
     \/ /\ \E b \in ToSet(tracked) : /\ tracked' = RemoveFirst(tracked, b)
                                    /\ block' = [block EXCEPT ![t] = b]
        /\ Goto(t, "stuckFree")
  /\ UNCHANGED <<phase, lock, opened, maps, live, used, count, teardown, request>>

\* ddr_mmap: the allocation, which may also fail and return.
StartMmap(t) ==
  /\ t \in opened /\ pc[t] = "idle"
  /\ \E b \in BlockSet : Allocate(t, b)
  /\ Goto(t, "count")
  /\ UNCHANGED <<phase, lock, opened, maps, used, count, teardown, request>>

\* The bytes are counted, and then, with the lock still held, the allocation: /proc reads both
\* without it.
CountBytes(t) ==
  /\ pc[t] = "count"
  /\ lock = Nobody
  /\ lock' = t
  /\ used' = used + block[t].size
  /\ Goto(t, "countOne")
  /\ UNCHANGED <<phase, opened, maps, live, tracked, count, teardown, request, block>>

CountOne(t) ==
  /\ pc[t] = "countOne"
  /\ count' = count + 1
  /\ lock' = Nobody
  /\ Goto(t, "map")
  /\ UNCHANGED <<phase, opened, maps, live, tracked, used, teardown, request, block>>

\* remap_pfn_range succeeds and the block is tracked a second time.
MapBlock(t) ==
  /\ pc[t] = "map"
  /\ maps' = maps \cup {block[t]}
  /\ tracked' = Append(tracked, block[t])
  /\ Return(t)
  /\ UNCHANGED <<phase, lock, opened, live, used, count, teardown>>

\* remap_pfn_range or the second tracking fails, and ddr_dma_free takes the first entry off
\* the list, if an ioctl that frees has not.
MapFails(t) ==
  /\ pc[t] = "map"
  /\ tracked' = RemoveFirst(tracked, block[t])
  /\ Goto(t, "discount")
  /\ UNCHANGED <<phase, lock, opened, maps, live, used, count, teardown, request, block>>

DiscountBytes(t) ==
  /\ pc[t] = "discount"
  /\ lock = Nobody
  /\ lock' = t
  /\ used' = used - block[t].size
  /\ Goto(t, "discountOne")
  /\ UNCHANGED <<phase, opened, maps, live, tracked, count, teardown, request, block>>

\* Mutant: only the bytes are taken back.
NoneLess == count

OneLess == count - 1

DiscountOne(t) ==
  /\ pc[t] = "discountOne"
  /\ count' = OneLess
  /\ lock' = Nobody
  /\ Goto(t, "free")
  /\ UNCHANGED <<phase, opened, maps, live, tracked, used, teardown, request, block>>

FreeBlock(t) ==
  /\ pc[t] = "free"
  /\ live' = live \ {block[t]}
  /\ Return(t)
  /\ UNCHANGED <<phase, lock, opened, maps, tracked, used, count, teardown>>

----------------------------------------------------------------------------
(* Timers and work items: a timer's callback returns at once when stop_threads is set, and
   rearms itself otherwise; a work item always does, and is refused while it is cancelled. *)

Fire(c) ==
  /\ c \in pending \ running
  /\ pending' = pending \ {c}
  /\ running' = IF c \in Timers /\ stop THEN running ELSE running \cup {c}
  /\ UNCHANGED <<phase, lock, opened, memory, canceling, stop, removal, pc, request, block>>

Rearm(c) ==
  /\ c \in running
  /\ running' = running \ {c}
  /\ pending' = IF c \in canceling THEN pending ELSE pending \cup {c}
  /\ UNCHANGED <<phase, lock, opened, memory, canceling, stop, removal, pc, request, block>>

----------------------------------------------------------------------------
(* ddr_remove, when the module is unloaded: no file is open and nothing is mapped, since both
   hold the module.  It stops the callbacks one after the other. *)

NextStop(c) ==
  CASE c = "monitor"     -> "health"
    [] c = "health"      -> "calibration"
    [] c = "calibration" -> "refresh"
    [] c = "refresh"     -> "free"

StartRemove ==
  /\ phase = "bound"
  /\ opened = {} /\ maps = {}
  /\ phase' = "removing"
  /\ stop' = TRUE
  /\ removal' = "monitor"
  /\ UNCHANGED <<lock, opened, memory, pending, running, canceling, pc, request, block>>

\* Mutants: a callback that is running is not waited for; one that is armed is.
NotWaitedFor(c) == TRUE
WaitedUnarmed(c) == c \notin running \cup pending

AtRest(c) == c \notin running

\* del_timer_sync waits for the callback and takes the timer off.
StopTimer(c) ==
  /\ removal = c /\ c \in Timers
  /\ AtRest(c)
  /\ pending' = pending \ {c}
  /\ removal' = NextStop(c)
  /\ UNCHANGED <<phase, lock, opened, memory, running, canceling, stop, pc, request, block>>

\* cancel_delayed_work_sync: off the queue, kept off it, and waited for.
CancelWork(c) ==
  /\ removal = c /\ c \in Works \ canceling
  /\ pending' = pending \ {c}
  /\ canceling' = canceling \cup {c}
  /\ UNCHANGED <<phase, lock, opened, memory, running, stop, removal, pc, request, block>>

WorkCancelled(c) ==
  /\ removal = c /\ c \in canceling
  /\ AtRest(c)
  /\ canceling' = canceling \ {c}
  /\ removal' = NextStop(c)
  /\ UNCHANGED <<phase, lock, opened, memory, pending, running, stop, pc, request, block>>

\* An entry of the list is freed; one whose block is gone already is a double free.
FreeTracked ==
  /\ removal = "free" /\ tracked # <<>>
  /\ IF Head(tracked) \in live
       THEN live' = live \ {Head(tracked)} /\ UNCHANGED removal
       ELSE removal' = "bugFree" /\ UNCHANGED live
  /\ tracked' = Tail(tracked)
  /\ UNCHANGED <<phase, lock, opened, maps, used, count, pending, running, canceling, stop, pc,
                 request, block>>

\* The workqueue, the device and, by devm, the driver's data are gone.
EndRemove ==
  /\ removal = "free" /\ tracked = <<>>
  /\ removal' = "none"
  /\ phase' = "gone"
  /\ UNCHANGED <<lock, opened, memory, pending, running, canceling, stop, pc, request, block>>

----------------------------------------------------------------------------
(* ddr_proc_show takes no lock but the spinlock, around the list; it lists 51 entries.  In bytes,
   not megabytes; free is negative where the unsigned difference wraps, and a division by zero
   gives zero on arm64. *)

Usage == IF TotalMemory = 0 THEN 0 ELSE (used * 100) \div TotalMemory

ddr_proc_show ==
  [total |-> TotalMemory, used |-> used, free |-> TotalMemory - used, usage |-> Usage,
   active |-> count, allocations |-> SubSeq(tracked, 1, Min({51, Len(tracked)}))]

----------------------------------------------------------------------------
\* What a file operation does once it is under way.
Step(t) ==
  \/ Lock(t) \/ IoctlReturns(t) \/ IoctlAllocates(t) \/ IoctlRelocks(t) \/ IoctlFrees(t)
  \/ CountBytes(t) \/ CountOne(t) \/ MapBlock(t) \/ MapFails(t)
  \/ DiscountBytes(t) \/ DiscountOne(t) \/ FreeBlock(t)

RemoveStep ==
  \/ \E c \in Callbacks : StopTimer(c) \/ CancelWork(c) \/ WorkCancelled(c)
  \/ FreeTracked
  \/ EndRemove

Next ==
  \/ Probe
  \/ \E t \in Users : Open(t) \/ Release(t) \/ StartIoctl(t) \/ StartMmap(t) \/ Step(t)
  \/ \E b \in maps : Unmap(b)
  \/ \E c \in Callbacks : Fire(c) \/ Rearm(c)
  \/ StartRemove
  \/ RemoveStep

Spec == Init /\ [][Next]_vars

(* A thread in a file operation runs on, and gets a lock that is released again and again; a
   callback ends; ddr_remove runs on, and its waits see a callback at rest. *)
FairSpec ==
  /\ Spec
  /\ \A t \in Users : SF_vars(Step(t))
  /\ \A c \in Callbacks : WF_vars(Rearm(c))
  /\ SF_vars(RemoveStep)

----------------------------------------------------------------------------
(* Properties *)

(* Some thread waits for dev->lock and holds it. *)
SelfDeadlocked == \E t \in Users : pc[t] \in {"stuck", "stuckFree"} /\ lock = t

InHand(labels) == {block[t] : t \in {u \in Users : pc[u] \in labels}}

(* The operations that took an entry off the list and have not freed its block. *)
Unlisting == {"discount", "discountOne", "free", "stuckFree"}

(* No memory is lost: every block is on the tracking list, for ddr_remove to free, or is in the
   hands of a ddr_mmap that failed or of an ioctl that frees it (which hangs, and its block is
   lost with it); unloading, which no hung ioctl lets happen, leaves no block behind. *)
NothingLost ==
  /\ \A b \in live : b \in ToSet(tracked) \/ b \in InHand(Unlisting)
  /\ phase = "gone" => live = {}

(* Each figure of /proc, when it is read, while the device is bound.  No lock orders the reads,
   so each is compared with the blocks of its own moment: used_memory is the sum, and the active
   allocations the number, of all blocks but those in the hands of a thread that has allocated
   one and not yet counted it in that figure, has discounted it there and not yet freed it, or
   hung after the allocation.  What is listed are blocks in use, and, unless the list stops at
   the 51st entry, every one that is in used_memory among them but those that a thread has
   taken off the list to free them. *)
AccountsExact ==
  LET inUse   == live \ InHand({"count", "stuck", "discountOne", "free"})
      counted == live \ InHand({"count", "countOne", "stuck", "free"})
      listed  == ToSet(ddr_proc_show.allocations)
  IN  phase = "bound" =>
        /\ ddr_proc_show.used = SizeSum(inUse)
        /\ ddr_proc_show.active = Cardinality(counted)
        /\ listed \subseteq live
        /\ Len(tracked) <= 51 => inUse \ InHand(Unlisting) \subseteq listed

(* A callback never outlives the driver: when ddr_remove gets to the tracking list, which is
   after destroy_workqueue, no timer or work item is armed, queued or running, although each
   rearms itself. *)
QuietAfterRemove ==
  removal \in {"free", "bugFree"} \/ phase = "gone" => pending = {} /\ running = {}

(* A file operation that starts returns, unless a thread waits for the lock it holds itself. *)
OperationsReturn ==
  \A t \in Users : pc[t] # "idle" ~> (pc[t] = "idle" \/ SelfDeadlocked)

(* ddr_remove ends: the waits for callbacks that rearm themselves end, and so does the loop over
   the list, unless it frees a block twice. *)
RemoveEnds == phase = "removing" ~> (phase = "gone" \/ removal = "bugFree")

(* What ddr_ioctl.h says of each ioctl: it returns 0 or an error code. *)
EveryIoctlReturns == \A t \in Users : pc[t] = "held" ~> pc[t] = "idle"

=============================================================================
