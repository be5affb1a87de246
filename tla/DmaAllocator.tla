---------------------------- MODULE DmaAllocator ----------------------------
(***************************************************************************)
(* kernel/drivers/memory_allocator/dma_allocator.c: a platform driver that *)
(* hands out DMA memory from the one pool its probe creates.  Callers and  *)
(* a health thread work under global_mutex; the pool's own mutex and       *)
(* spinlock are only taken under it, or when nobody else is left, and are  *)
(* not modelled.  /proc and debugfs read the counters with no lock at all: *)
(* each counter is written in a step of its own, those of one critical     *)
(* section in any order.                                                   *)
(*                                                                         *)
(* An allocation is rounded up to a power of two.  Its descriptor goes to  *)
(* the used list and, when it is freed, to the free list, where nothing    *)
(* takes it from again.  Defragmentation merges neighbours of the free     *)
(* list whose memory is adjacent, frees the second descriptor and then     *)
(* goes on to it: the kernel stops the thread, which keeps its mutexes.    *)
(*                                                                         *)
(* dma_alloc_coherent is a kernel library: any free pages, or a failure.   *)
(* The pool has DMA_FLAG_CONTIGUOUS or no flag at all, so that no call     *)
(* reaches its gen_pool.  Not modelled: the error and since-boot counters, *)
(* the statistics timer, which only logs, and failures of probe.           *)
(***************************************************************************)
EXTENDS Integers, Sequences, FiniteSets, Sums

CONSTANTS
  Clients,         \* threads of other modules calling the exported functions
  Health,          \* the dma_health kthread
  Nobody,          \* the owner of global_mutex when it is free
  Pages,           \* the pages dma_alloc_coherent allocates from
  PageSize,        \* in bytes
  Sizes,           \* what callers ask for, in bytes
  Powers,          \* the powers of two from DMA_MIN_ALLOC_SIZE to DMA_MAX_ALLOC_SIZE
  PoolSize,        \* the pool's size, and so total_size, in bytes
  MaxBlocks        \* bound: how many descriptors kzalloc can provide

Threads == Clients \cup {Health}

ASSUME DmaAssumption ==
  /\ Health \notin Clients /\ Nobody \notin Threads
  /\ Pages \subseteq Nat
  /\ PageSize \in Nat \ {0} /\ PoolSize \in Nat \ {0} /\ MaxBlocks \in Nat
  /\ Sizes \subseteq Nat \ {0} /\ Powers \subseteq Nat \ {0}

VARIABLES
  phase,           \* "absent", "bound", then dma_allocator_remove: "removing", "joined",
                   \*   "emptied" and "gone"
  contiguous,      \* the pool's flags: DMA_FLAG_CONTIGUOUS, or none
  mutex,           \* global_mutex: its owner
  used,            \* the pool's used_list
  free,            \* the pool's free_list
  counts,          \* the pool's used_blocks, free_blocks, total_blocks and current_allocated
                   \*   (used, free, total, bytes), and the allocator's used_size and
                   \*   current_allocations (size, calls)
  todo,            \* the counters that the owner of global_mutex has still to write before it
                   \*   leaves the critical section it is in
  owned,           \* what callers hold: [ptr, asked]
  pc, arg          \* per thread: control, and the call's arguments

pool  == <<used, free>>
books == <<counts, todo>>
vars  == <<phase, contiguous, mutex, pool, books, owned, pc, arg>>

Counters == {"used", "free", "total", "bytes", "size", "calls"}

Block   == [ptr : Pages, size : Powers]
Holding == [ptr : Pages, asked : Sizes]
NoCall  == [op |-> "none"]

Init ==
  /\ phase = "absent"
  /\ contiguous = FALSE
  /\ mutex = Nobody
  /\ used = {} /\ free = <<>>
  /\ counts = [f \in Counters |-> 0]
  /\ todo = {}
  /\ owned = {}
  /\ pc = [t \in Threads |-> "idle"]
  /\ arg = [t \in Threads |-> NoCall]

\* A region of the device tree makes a contiguous pool, its absence the default one.
Probe ==
  /\ phase = "absent"
  /\ phase' = "bound"
  /\ contiguous' \in BOOLEAN
  /\ UNCHANGED <<mutex, pool, books, owned, pc, arg>>

----------------------------------------------------------------------------
(* Calls of other modules, while the driver is bound. *)

Calls(t, call) ==
  /\ phase = "bound" /\ pc[t] = "idle"
  /\ pc' = [pc EXCEPT ![t] = "lock"]
  /\ arg' = [arg EXCEPT ![t] = call]
  /\ UNCHANGED <<phase, contiguous, mutex, pool, books>>

\* dma_align_size
IsAligned(asked, size) ==
  /\ size \in Powers /\ asked <= size
  /\ \A p \in Powers : asked <= p => size <= p

CallAlloc(t) ==
  /\ \E asked \in Sizes, size \in Powers :
       /\ IsAligned(asked, size)
       /\ Calls(t, [op |-> "alloc", asked |-> asked, size |-> size])
  /\ UNCHANGED owned

\* A caller frees what it was given, once, with the size it asked for.
CallFree(t) ==
  \E h \in owned :
    /\ Calls(t, [op |-> "free", ptr |-> h.ptr, asked |-> h.asked])
    /\ owned' = owned \ {h}

CallDefrag(t) == Calls(t, [op |-> "defrag"]) /\ UNCHANGED owned

Lock(t) ==
  /\ pc[t] = "lock"
  /\ mutex = Nobody
  /\ mutex' = t
  /\ pc' = [pc EXCEPT ![t] = "pool"]
  /\ UNCHANGED <<phase, contiguous, pool, books, owned, arg>>

Return(t) ==
  /\ mutex' = Nobody
  /\ pc' = [pc EXCEPT ![t] = "idle"]
  /\ arg' = [arg EXCEPT ![t] = NoCall]

----------------------------------------------------------------------------
(* dma_allocator_alloc *)

\* The pages of a block; dma_alloc_coherent allocates whole pages.
PagesOf(b) == b.ptr .. (b.ptr + (b.size - 1) \div PageSize)

Apart(b, c) == PagesOf(b) \cap PagesOf(c) = {}

\* dma_pool_alloc, when the pool's flags match and it has memory and a descriptor: the block
\* is on the used list, and the counters of its critical section are yet to be written.
AllocInPool(t) ==
  /\ pc[t] = "pool" /\ arg[t].op = "alloc"
  /\ contiguous /\ Cardinality(used) + Len(free) < MaxBlocks
  /\ \E p \in Pages :
       LET b == [ptr |-> p, size |-> arg[t].size]
       IN  /\ PagesOf(b) \subseteq Pages
           /\ \A c \in used : Apart(b, c)
           /\ used' = used \cup {b}
           /\ arg' = [arg EXCEPT ![t] = [op |-> "alloc", asked |-> arg[t].asked,
                                         size |-> arg[t].size, ptr |-> p]]
  /\ todo' = {"used", "total", "bytes"}
  /\ pc' = [pc EXCEPT ![t] = "listed"]
  /\ UNCHANGED <<phase, contiguous, mutex, free, counts, owned>>

\* Mutant: the failure returns with the mutex held.
FailKeepingMutex(t) ==
  /\ pc' = [pc EXCEPT ![t] = "idle"]
  /\ arg' = [arg EXCEPT ![t] = NoCall]
  /\ UNCHANGED mutex

Fail(t) == Return(t)

\* No flag in common, no descriptor, or no memory.
AllocFails(t) ==
  /\ pc[t] = "pool" /\ arg[t].op = "alloc"
  /\ Fail(t)
  /\ UNCHANGED <<phase, contiguous, pool, books, owned>>

\* The caller is given the block, and the mutex is released.
EndAlloc(t) ==
  /\ pc[t] = "count" /\ arg[t].op = "alloc" /\ todo = {}
  /\ owned' = owned \cup {[ptr |-> arg[t].ptr, asked |-> arg[t].asked]}
  /\ Return(t)
  /\ UNCHANGED <<phase, contiguous, pool, books>>

----------------------------------------------------------------------------
(* dma_allocator_free *)

\* Mutant: an address inside the block finds it.
FoundInside(b, ptr) == ptr - 1 \in PagesOf(b) \/ ptr \in PagesOf(b)

\* dma_block_find_by_virt
Found(b, ptr) == b.ptr = ptr

\* dma_pool_free: it always finds the block, and takes it off the used list.
FreeInPool(t) ==
  /\ pc[t] = "pool" /\ arg[t].op = "free"
  /\ \E b \in used :
       /\ Found(b, arg[t].ptr)
       /\ used' = used \ {b}
       /\ arg' = [arg EXCEPT ![t] = [op |-> "free", ptr |-> arg[t].ptr, asked |-> arg[t].asked,
                                     size |-> b.size]]
  /\ todo' = {"used", "bytes"}
  /\ pc' = [pc EXCEPT ![t] = "unlisted"]
  /\ UNCHANGED <<phase, contiguous, mutex, free, counts, owned>>

Handled(t) == [ptr |-> arg[t].ptr, size |-> arg[t].size]

\* The memory is freed, and a second critical section adds the block to the free list.
Dispose(t) ==
  /\ pc[t] = "unlisted" /\ todo = {}
  /\ free' = Append(free, Handled(t))
  /\ todo' = {"free"}
  /\ pc' = [pc EXCEPT ![t] = "disposed"]
  /\ UNCHANGED <<phase, contiguous, mutex, used, counts, owned, arg>>

EndFree(t) ==
  /\ pc[t] = "count" /\ arg[t].op = "free" /\ todo = {}
  /\ Return(t)
  /\ UNCHANGED <<phase, contiguous, pool, books, owned>>

----------------------------------------------------------------------------
(* The counters *)

\* Mutant: the size asked for is charged.
ChargedAsAsked(call) == call.asked

Charged(call) == call.size

AllocChange(call) ==
  [used |-> 1, free |-> 0, total |-> 1, bytes |-> call.size, size |-> Charged(call), calls |-> 1]

\* Mutant: the size the caller names is taken back.
TakenAsAsked(call) == call.asked

Taken(call) == call.size

\* used_size goes down by the size the caller names, which is not rounded.
FreeChange(call) ==
  [used |-> -1, free |-> 1, total |-> 0, bytes |-> -Taken(call), size |-> -call.asked,
   calls |-> -1]

Change(call) == IF call.op = "alloc" THEN AllocChange(call) ELSE FreeChange(call)

\* A call in the middle of its updates.
Writing == {"listed", "unlisted", "disposed", "count"}

WriteCounter(t) ==
  /\ pc[t] \in Writing
  /\ \E f \in todo :
       /\ counts' = [counts EXCEPT ![f] = @ + Change(arg[t])[f]]
       /\ todo' = todo \ {f}
  /\ UNCHANGED <<phase, contiguous, mutex, pool, owned, pc, arg>>

\* Back from the pool, the call has the allocator's own counters left.
LeavePool(t) ==
  /\ pc[t] \in {"listed", "disposed"} /\ todo = {}
  /\ todo' = {"size", "calls"}
  /\ pc' = [pc EXCEPT ![t] = "count"]
  /\ UNCHANGED <<phase, contiguous, mutex, pool, counts, owned, arg>>

----------------------------------------------------------------------------
(* dma_allocator_defrag, called by others and by the health thread *)

Mergeable ==
  \E i \in 1..(Len(free) - 1) :
    free[i].ptr * PageSize + free[i].size = free[i + 1].ptr * PageSize

\* dma_block_merge: a merge follows the descriptor it has just freed.
Defrag(t) ==
  /\ pc[t] = "pool" /\ arg[t].op = "defrag"
  /\ IF Mergeable
       THEN /\ pc' = [pc EXCEPT ![t] = "bugMerge"]
            /\ UNCHANGED <<mutex, arg>>
       ELSE Return(t)
  /\ UNCHANGED <<phase, contiguous, pool, books, owned>>

\* Mutant: the loop looks at neither stop_health nor kthread_should_stop.
StopIgnored == FALSE

StopSeen == phase = "removing"

\* The health thread reads used_size without a lock, every ten seconds.
HealthHigh ==
  /\ pc[Health] = "idle" /\ phase # "absent" /\ ~StopSeen
  /\ counts.size * 10 > PoolSize * 9
  /\ pc' = [pc EXCEPT ![Health] = "lock"]
  /\ arg' = [arg EXCEPT ![Health] = [op |-> "defrag"]]
  /\ UNCHANGED <<phase, contiguous, mutex, pool, books, owned>>

HealthStops ==
  /\ pc[Health] = "idle" /\ StopSeen
  /\ pc' = [pc EXCEPT ![Health] = "exited"]
  /\ UNCHANGED <<phase, contiguous, mutex, pool, books, owned, arg>>

----------------------------------------------------------------------------
(* What the readers are told, without a lock but in dma_allocator_get_stats; each figure may be
   read at a moment of its own.  Bytes, not megabytes; free is negative where the code's
   unsigned difference wraps. *)

Fragmentation == IF counts.total > 0 THEN (counts.free * 100) \div counts.total ELSE 0

dma_pool_stats ==
  [size |-> PoolSize, used |-> counts.bytes, free |-> PoolSize - counts.bytes,
   blocks |-> <<counts.used, counts.total>>, freeBlocks |-> counts.free,
   fragmentation |-> Fragmentation]

dma_allocator_get_stats ==
  [current_allocations |-> counts.calls, total_allocated |-> PoolSize,
   current_allocated |-> counts.size]

dma_debugfs_show ==
  [total |-> PoolSize, used |-> counts.size, active |-> counts.calls,
   pools |-> <<dma_pool_stats>>]

----------------------------------------------------------------------------
(* dma_allocator_remove, at rmmod: no caller is left. *)

Goes(from, to) == phase = from /\ phase' = to

StartRemove ==
  /\ Goes("bound", "removing")
  /\ \A t \in Clients : pc[t] = "idle"
  /\ UNCHANGED <<contiguous, mutex, pool, books, owned, pc, arg>>

\* kthread_stop
JoinHealth ==
  /\ Goes("removing", "joined")
  /\ pc[Health] = "exited"
  /\ UNCHANGED <<contiguous, mutex, pool, books, owned, pc, arg>>

\* dma_pool_destroy frees what is still in use; its gen_pool is empty.
EmptyPool ==
  /\ Goes("joined", "emptied")
  /\ used' = {} /\ free' = <<>>
  /\ UNCHANGED <<contiguous, mutex, books, owned, pc, arg>>

UnlistPool ==
  /\ Goes("emptied", "gone")
  /\ mutex = Nobody
  /\ UNCHANGED <<contiguous, mutex, pool, books, owned, pc, arg>>

----------------------------------------------------------------------------
Step(t) ==
  \/ Lock(t)
  \/ AllocInPool(t) \/ AllocFails(t) \/ EndAlloc(t)
  \/ FreeInPool(t) \/ Dispose(t) \/ EndFree(t)
  \/ WriteCounter(t) \/ LeavePool(t)
  \/ Defrag(t)

RemoveStep == JoinHealth \/ EmptyPool \/ UnlistPool

Next ==
  \/ Probe
  \/ \E t \in Clients : CallAlloc(t) \/ CallFree(t) \/ CallDefrag(t)
  \/ \E t \in Threads : Step(t)
  \/ HealthHigh \/ HealthStops
  \/ StartRemove
  \/ RemoveStep

Spec == Init /\ [][Next]_vars

(* A thread in a call runs on, and gets a mutex that is released again and again; the health
   thread's sleep ends, and so does dma_allocator_remove's wait for it. *)
FairSpec ==
  /\ Spec
  /\ \A t \in Threads : SF_vars(Step(t))
  /\ WF_vars(HealthStops)
  /\ WF_vars(RemoveStep)

----------------------------------------------------------------------------
(* Properties *)

Bound == phase \in {"bound", "removing", "joined"}

Stopped == \E t \in Threads : pc[t] = "bugMerge"

(* dma_allocator_free takes the caller's size off used_size, dma_allocator_alloc adds the rounded
   one: used_size, unsigned, is never below what the pool has handed out, and so never wraps,
   whenever nobody holds global_mutex.  (It may be far above, and stay there.) *)
UsedNeverUnder == Bound /\ mutex = Nobody => counts.size >= counts.bytes

(* What a caller holds is on the pool's used list, with at least the bytes it asked for, and a
   search by its address finds nothing else: a free never frees another's memory. *)
OwnedIsUsed ==
  Bound => \A h \in owned :
             \E b \in used : /\ b.ptr = h.ptr /\ b.size >= h.asked
                            /\ \A c \in used : c.ptr = h.ptr => c = b

(* The lists as a call in the middle of its updates found them, and as it leaves them. *)
Before(t) ==
  [used |-> IF arg[t].op = "alloc" THEN used \ {Handled(t)} ELSE used \cup {Handled(t)},
   free |-> IF arg[t].op = "free" /\ pc[t] # "unlisted" THEN Len(free) - 1 ELSE Len(free)]

After(t) ==
  [used |-> used, free |-> IF pc[t] = "unlisted" THEN Len(free) + 1 ELSE Len(free)]

Views ==
  LET writers == {t \in Threads : pc[t] \in Writing}
  IN  IF writers = {} THEN {[used |-> used, free |-> Len(free)]}
                      ELSE {Before(t) : t \in writers} \cup {After(t) : t \in writers}

(* At every moment, whatever counters are written, each figure that debugfs reads without a lock
   is the one of the lists before the call at work on them or the one after it: a block that is
   on neither list, on its way from one to the other, is missed by no figure, and the free blocks
   are never more than all blocks.  A caller of dma_allocator_get_stats, who holds global_mutex,
   is told of as many allocations as there are blocks in use, which are those that callers hold
   and those they have called to free, and every figure is then exact.  (One reading of several
   figures is no snapshot: each is right for its own moment.) *)
AccountsExact ==
  Bound =>
    /\ \A shown \in Range(dma_debugfs_show.pools) :
         /\ shown.used \in {SizeSum(view.used) : view \in Views}
         /\ shown.blocks[1] \in {Cardinality(view.used) : view \in Views}
         /\ shown.blocks[2] \in {Cardinality(view.used) + view.free : view \in Views}
         /\ shown.freeBlocks \in {view.free : view \in Views}
         /\ shown.freeBlocks <= shown.blocks[2]
    /\ dma_debugfs_show.active \in {Cardinality(view.used) : view \in Views}
    /\ mutex = Nobody =>
         LET told == dma_allocator_get_stats.current_allocations
         IN  /\ Views = {[used |-> used, free |-> Len(free)]}
             /\ told = Cardinality(owned) + Cardinality({t \in Clients : arg[t].op = "free"})

(* A call that starts returns, unless a merge of free blocks stopped a thread in the kernel. *)
CallsReturn == \A t \in Clients : pc[t] # "idle" ~> (pc[t] = "idle" \/ Stopped)

(* dma_allocator_remove ends, however high the health thread finds the usage. *)
RemoveEnds == phase = "removing" ~> (phase = "gone" \/ Stopped)

=============================================================================
