----------------------------- MODULE PoolManager -----------------------------
(***************************************************************************)
(* kernel/drivers/memory_allocator/pool_manager.c: a kernel module that    *)
(* keeps a list of memory pools, each a gen_pool over a physical range,    *)
(* and serves allocations from the first pool of the wanted type that has  *)
(* room.  Its callers, its monitoring thread and rmmod run concurrently    *)
(* under one global mutex and one mutex per pool; every acquisition of a   *)
(* mutex is a step of its own here, and so is every access to shared       *)
(* state that the code makes without the mutex.                            *)
(*                                                                         *)
(* gen_pool is a kernel library: modelled from its use here as a bitmap of *)
(* pages, first fit, that stops the calling thread (BUG_ON) when a pool    *)
(* with reserved pages is destroyed or pages that are not reserved are     *)
(* freed.  A thread stopped so keeps the mutexes it holds.                 *)
(*                                                                         *)
(* The debugfs file is in PoolDebugfs.  Not modelled: names, log text, the *)
(* statistics timer (it only reads), the counters that nothing reads back  *)
(* (errors, peak, totals since boot), ZERO_INIT, and free_size, which the  *)
(* code always moves opposite to used_size.                                *)
(***************************************************************************)
EXTENDS Integers, Sequences, FiniteSets, Sums

CONSTANTS
  Clients,        \* threads of other modules calling the exported functions
  Monitor,        \* the pool_manager kthread
  Rmmod,          \* the thread that unloads the module
  Readers,        \* processes that read the debugfs file (PoolDebugfs)
  NoThread,       \* the owner of a mutex nobody holds
  Types,          \* POOL_TYPE_*
  Regions,        \* the ranges callers make pools of: [type, first, count],
                  \*   first and count in pages
  DefaultRegion,  \* the range of the pool that pool_manager_init creates
  Requests,       \* what callers ask for: [size, align] in bytes, align = 0
                  \*   through pool_manager_alloc, else pool_manager_alloc_aligned
  Operations,     \* bound: which of "alloc", "free", "walk", "create", "destroy" they call,
                  \*   and "monitor" if the monitor walks while the module runs
  PageSize,       \* POOL_ALIGNMENT and 1 << PAGE_SHIFT, in bytes
  MaxPools,       \* POOL_MAX_COUNT
  MinCount,       \* POOL_MIN_SIZE and POOL_MAX_SIZE, in pages
  MaxCount,
  MaxStructs      \* bound: how many struct memory_pool kzalloc can provide

Threads == Clients \cup {Monitor, Rmmod}
Handles == 1..MaxStructs          \* addresses of struct memory_pool
None    == 0                      \* the NULL handle, and the NULL page

ASSUME ThreadsAssumption ==
  /\ IsFiniteSet(Clients) /\ Clients # {}
  /\ Monitor \notin Clients /\ Rmmod \notin Clients /\ Monitor # Rmmod
  /\ NoThread \notin Threads /\ Readers \cap (Threads \cup {NoThread}) = {}

\* Physical page 0 is never in a pool: gen_pool reports failure as address 0.
ASSUME RegionsAssumption ==
  /\ Regions \subseteq [type : Types, first : Nat \ {0}, count : Nat \ {0}]
  /\ DefaultRegion \in Regions

ASSUME SizesAssumption ==
  /\ PageSize \in Nat \ {0}
  /\ Requests \subseteq [size : Nat \ {0}, align : Nat]
  /\ MaxPools \in Nat \ {0} /\ MinCount \in Nat /\ MaxCount \in Nat
  /\ MaxStructs \in Nat \ {0}

PagesIn(r) == r.first .. (r.first + r.count - 1)

\* The ranges of the board's memory map do not overlap; pool_create never checks.
ASSUME RegionsDisjoint ==
  \A r, s \in Regions : r # s => PagesIn(r) \cap PagesIn(s) = {}

VARIABLES
  globalMutex,    \* manager->global_mutex: its owner
  poolMutex,      \* pool->mutex of every pool: its owner
  list,           \* manager->pools
  poolCount,      \* manager->pool_count
  nextId,         \* manager->next_id
  totalSize,      \* manager->total_size, in pages
  usedSize,       \* manager->used_size, in bytes
  active,         \* manager->active_allocations
  pool,           \* every struct memory_pool, see Pool
  reserved,       \* the bitmap of every pool's gen_pool: the pages in use
  blocks,         \* the allocations gen_pool made and nobody freed
  owned,          \* those of them that a caller holds
  slack,          \* pages reserved for alignment beyond the size asked for
  phase,          \* the module: "running", "stopping" or "gone"
  pc, arg, cur, hnd, tmp   \* per thread: control, request, and locals

manager == <<poolCount, nextId, totalSize, usedSize, active>>
locals  == <<arg, cur, hnd, tmp>>
vars == <<globalMutex, poolMutex, list, manager, pool, reserved, blocks, owned,
          slack, phase, pc, locals>>

\* A pool is "free" (no struct), "new" (not listed yet), "up" (listed),
\* "dying" (listed, its gen_pool destroyed) or "freed".
Pool == [st : {"free", "new", "up", "dying", "freed"}, id : Nat,
         region : Regions, used : Int, active : Int]

\* x is the least element of S: a search upwards ends at it.
Least(x, S) == \A y \in S : x <= y

\* Whole pages that gen_pool reserves for, or clears on the free of, size bytes.
PageCount(size) == (size + PageSize - 1) \div PageSize
Span(ptr, size) == ptr .. (ptr + PageCount(size) - 1)
BlockPages(b)   == Span(b.ptr, b.size)

\* Mutant: gen_pool_free clears whole pages only.
ClearedRounded(b)  == b.ptr .. (b.ptr + (b.size \div PageSize) - 1)

\* The pages that the free of a block of that address and size gives back.
Cleared(b) == Span(b.ptr, b.size)

\* The kernel's ALIGN.
AlignUp(size, align) == ((size + align - 1) \div align) * align

\* pool_alloc_aligned raises the alignment to a page and rounds the size up to it.
Granule(r) == IF r.align < PageSize THEN PageSize ELSE r.align

\* Mutant: the size is rounded down to the alignment.
GrantRoundedDown(r) == IF r.align = 0 THEN r.size ELSE (r.size \div Granule(r)) * Granule(r)

GrantSize(r)   == IF r.align = 0 THEN r.size ELSE AlignUp(r.size, Granule(r))

\* Mutant: the last byte is not counted.
GrantedShort(r, p) == Span(p, GrantSize(r) - 1)

Granted(r, p)  == Span(p, GrantSize(r))
StartsOk(r, p) == r.align = 0 \/ (p * PageSize) % Granule(r) = 0

\* Where gen_pool could place request r in pool h; it takes the lowest.
Places(h, r) ==
  {p \in PagesIn(pool[h].region) :
     /\ Granted(r, p) \subseteq PagesIn(pool[h].region) \ reserved[h]
     /\ StartsOk(r, p)}

----------------------------------------------------------------------------
Init ==
  /\ globalMutex = NoThread
  /\ poolMutex = [h \in Handles |-> NoThread]
  /\ \/ list = <<1>> /\ nextId = 2 /\ poolCount = 1
        /\ totalSize = DefaultRegion.count
     \/ list = <<>> /\ nextId = 1 /\ poolCount = 0 /\ totalSize = 0
  /\ usedSize = 0
  /\ active = 0
  /\ pool = [h \in Handles |->
               [st |-> IF h = 1 /\ list # <<>> THEN "up" ELSE "free",
                id |-> IF h = 1 /\ list # <<>> THEN 1 ELSE 0,
                region |-> DefaultRegion, used |-> 0, active |-> 0]]
  /\ reserved = [h \in Handles |-> {}]
  /\ blocks = {}
  /\ owned = {}
  /\ slack = [h \in Handles |-> {}]
  /\ phase = "running"
  /\ pc = [t \in Threads |-> "idle"]
  /\ arg = [t \in Threads |-> [op |-> "none"]]
  /\ cur = [t \in Threads |-> 0]
  /\ hnd = [t \in Threads |-> None]
  /\ tmp = [t \in Threads |-> 0]

\* The end of a call: t's locals are gone.
ReturnTo(t, label) ==
  /\ pc' = [pc EXCEPT ![t] = label]
  /\ arg' = [arg EXCEPT ![t] = [op |-> "none"]]
  /\ cur' = [cur EXCEPT ![t] = 0]
  /\ hnd' = [hnd EXCEPT ![t] = None]
  /\ tmp' = [tmp EXCEPT ![t] = 0]

Return(t) == ReturnTo(t, "idle")

----------------------------------------------------------------------------
(* Calls.  A caller is in one call at a time and calls only while the module is loaded;
   rmmod waits for the callers' modules to be gone. *)

Calls(t, request, label) ==
  /\ pc[t] = "idle"
  /\ arg' = [arg EXCEPT ![t] = request]
  /\ pc' = [pc EXCEPT ![t] = label]
  /\ UNCHANGED <<globalMutex, poolMutex, list, manager, pool, reserved, blocks, slack,
                 phase, cur, hnd, tmp>>

CallAlloc(t) ==
  /\ "alloc" \in Operations /\ phase = "running"
  /\ \E type \in Types, r \in Requests :
       Calls(t, [op |-> "alloc", type |-> type, size |-> r.size, align |-> r.align], "lockG")
  /\ UNCHANGED owned

\* A caller frees what it was given, once, with the size it asked for.
CallFree(t) ==
  /\ "free" \in Operations /\ phase = "running"
  /\ \E b \in owned :
       /\ Calls(t, [op |-> "free", ptr |-> b.ptr, size |-> b.size], "lockG")
       /\ owned' = owned \ {b}

\* pool_manager_get_stats and pool_manager_defrag take the same steps; defrag alone touches
\* the gen_pools, which UseDestroyed may or may not be hit by, and so stands for both.
CallWalk(t) ==
  /\ "walk" \in Operations /\ phase = "running"
  /\ Calls(t, [op |-> "defrag"], "lockG")
  /\ UNCHANGED owned

\* A caller makes no pool of a range that a pool, or a call under way, already uses.
InUse(r) ==
  \/ \E h \in Handles : pool[h].st \in {"new", "up", "dying"} /\ pool[h].region = r
  \/ \E t \in Clients : pc[t] # "idle" /\ arg[t].op = "create" /\ arg[t].region = r

CallCreate(t) ==
  /\ "create" \in Operations /\ phase = "running"
  /\ \E r \in Regions :
       /\ ~InUse(r)
       /\ Calls(t, [op |-> "create", region |-> r], "cCheck")
  /\ UNCHANGED owned

\* The id of any pool that was listed once.  Two pools may have one id, and each caller
\* that was given it may destroy it, both at once too.
CallDestroy(t) ==
  /\ "destroy" \in Operations /\ phase = "running"
  /\ \E h \in Handles : /\ pool[h].st \in {"up", "dying", "freed"}
                        /\ Calls(t, [op |-> "destroy", id |-> pool[h].id], "dFind")
  /\ UNCHANGED owned

----------------------------------------------------------------------------
(* The scan of the pools, common to alloc, free, get_stats, defrag and the monitor:
   global_mutex for the whole list, the pool's mutex for each pool it picks. *)

\* Mutant: phys <= pool->phys_end.
WantedToEnd(t, h) ==
  CASE arg[t].op = "alloc" -> pool[h].region.type = arg[t].type
    [] arg[t].op = "free"  -> arg[t].ptr - 1 \in PagesIn(pool[h].region)
                              \/ arg[t].ptr \in PagesIn(pool[h].region)
    [] OTHER               -> TRUE

\* The pools that t's request concerns: of the type, of the address, or all.
Wanted(t, h) ==
  CASE arg[t].op = "alloc" -> pool[h].region.type = arg[t].type
    [] arg[t].op = "free"  -> arg[t].ptr \in PagesIn(pool[h].region)
    [] OTHER               -> TRUE

\* t's scan goes on from position i of the list: to the first pool it wants, or to its end.
Scan(t, i) ==
  LET S == {j \in i..Len(list) : Wanted(t, list[j])}
  IN  \/ /\ S = {}
         /\ cur' = [cur EXCEPT ![t] = 0]
         /\ pc' = [pc EXCEPT ![t] = "done"]
      \/ \E j \in S :
           /\ Least(j, S)
           /\ cur' = [cur EXCEPT ![t] = j]
           /\ pc' = [pc EXCEPT ![t] = "lockP"]

\* Mutant: a walk does not wait for global_mutex, like pool_debugfs_show.
LockGlobalUnlessWalk(t) ==
  /\ pc[t] = "lockG"
  /\ globalMutex = NoThread \/ arg[t].op \in {"defrag", "monitor"}
  /\ globalMutex' = IF arg[t].op \in {"defrag", "monitor"} THEN globalMutex ELSE t
  /\ tmp' = [tmp EXCEPT ![t] = 0]
  /\ Scan(t, 1)
  /\ UNCHANGED <<poolMutex, list, manager, pool, reserved, blocks, owned, slack, phase,
                 arg, hnd>>

LockGlobal(t) ==
  /\ pc[t] = "lockG"
  /\ globalMutex = NoThread
  /\ globalMutex' = t
  /\ tmp' = [tmp EXCEPT ![t] = 0]
  /\ Scan(t, 1)
  /\ UNCHANGED <<poolMutex, list, manager, pool, reserved, blocks, owned, slack, phase,
                 arg, hnd>>

Here(t) == list[cur[t]]

LockPool(t) ==
  /\ pc[t] = "lockP"
  /\ poolMutex[Here(t)] = NoThread
  /\ poolMutex' = [poolMutex EXCEPT ![Here(t)] = t]
  /\ pc' = [pc EXCEPT ![t] = "inPool"]
  /\ UNCHANGED <<globalMutex, list, manager, pool, reserved, blocks, owned, slack, phase,
                 locals>>

UnlockPool(h) == poolMutex' = [poolMutex EXCEPT ![h] = NoThread]

\* The counters of pool h after size bytes and n allocations more.
Counted(h, size, n) ==
  LET sized == [pool EXCEPT ![h].used = @ + size]
  IN  [sized EXCEPT ![h].active = @ + n]

\* pool_alloc and pool_alloc_aligned_wrapper: the gen_pool and the pool's counters.
\* gen_pool_destroy unlinks every chunk: memory that still reads as the destroyed gen_pool has
\* none to search, and a thread that reads anything else there is UseDestroyed.
AllocInPool(t) ==
  LET h == Here(t)
      places == IF pool[h].st = "up" THEN Places(h, arg[t]) ELSE {}
  IN  /\ pc[t] = "inPool" /\ arg[t].op = "alloc"
      /\ UnlockPool(h)
      /\ IF places = {}
           THEN /\ Scan(t, cur[t] + 1)
                /\ UNCHANGED <<pool, reserved, blocks, slack, tmp>>
           ELSE \E p \in places :
                  LET b == [ptr |-> p, size |-> arg[t].size]
                  IN  /\ Least(p, places)
                      /\ reserved' = [reserved EXCEPT ![h] = @ \cup Granted(arg[t], p)]
                      /\ slack' = [slack EXCEPT ![h] = @ \cup (Granted(arg[t], p) \ BlockPages(b))]
                      /\ blocks' = blocks \cup {b}
                      /\ pool' = Counted(h, arg[t].size, 1)
                      /\ tmp' = [tmp EXCEPT ![t] = p]
                      /\ pc' = [pc EXCEPT ![t] = "done"]
                      /\ UNCHANGED cur
      /\ UNCHANGED <<globalMutex, list, manager, owned, phase, arg, hnd>>

\* The manager counts size bytes for the allocation, if there is one, and returns it.
SettleAlloc(t, size) ==
  /\ pc[t] = "done" /\ arg[t].op = "alloc"
  /\ IF tmp[t] = None
       THEN UNCHANGED <<usedSize, active, owned>>
       ELSE /\ usedSize' = usedSize + size
            /\ active' = active + 1
            /\ owned' = owned \cup {[ptr |-> tmp[t], size |-> arg[t].size]}
  /\ globalMutex' = NoThread
  /\ Return(t)
  /\ UNCHANGED <<poolMutex, list, poolCount, nextId, totalSize, pool, reserved, blocks, slack,
                 phase>>

\* Mutant: the manager counts what was reserved, not what was asked for.
FinishAllocGranted(t) == SettleAlloc(t, GrantSize(arg[t]))

FinishAlloc(t) == SettleAlloc(t, arg[t].size)

\* pool_free: gen_pool_free stops the thread when a page to clear is not reserved.
FreeInPool(t) ==
  LET h == Here(t)
      b == [ptr |-> arg[t].ptr, size |-> arg[t].size]
  IN  /\ pc[t] = "inPool" /\ arg[t].op = "free"
      /\ IF pool[h].st # "up" \/ ~(Cleared(b) \subseteq reserved[h])
           THEN /\ pc' = [pc EXCEPT ![t] = "bugFree"]
                /\ UNCHANGED <<poolMutex, pool, reserved, blocks, tmp>>
           ELSE /\ reserved' = [reserved EXCEPT ![h] = @ \ Cleared(b)]
                /\ blocks' = blocks \ {b}
                /\ pool' = Counted(h, - b.size, -1)
                /\ tmp' = [tmp EXCEPT ![t] = b.ptr]
                /\ UnlockPool(h)
                /\ pc' = [pc EXCEPT ![t] = "done"]
      /\ UNCHANGED <<globalMutex, list, manager, owned, slack, phase, arg, cur, hnd>>

\* An address in no pool's range is -ENOENT and changes nothing.
FinishFree(t) ==
  /\ pc[t] = "done" /\ arg[t].op = "free"
  /\ IF tmp[t] = None
       THEN UNCHANGED <<usedSize, active>>
       ELSE usedSize' = usedSize - arg[t].size /\ active' = active - 1
  /\ globalMutex' = NoThread
  /\ Return(t)
  /\ UNCHANGED <<poolMutex, list, poolCount, nextId, totalSize, pool, reserved, blocks, owned,
                 slack, phase>>

WalkOps == {"defrag", "monitor"}

\* Mutant: pool_defrag returns with the pool's mutex held.
VisitPoolKeepingMutex(t) ==
  /\ pc[t] = "inPool" /\ arg[t].op \in WalkOps
  /\ tmp' = [tmp EXCEPT ![t] = @ + pool[Here(t)].used]
  /\ Scan(t, cur[t] + 1)
  /\ UNCHANGED <<globalMutex, poolMutex, list, manager, pool, reserved, blocks, owned, slack,
                 phase, arg, hnd>>

\* pool_get_stats and pool_defrag: tmp sums the used_size a walk has seen.  gen_pool_merge
\* moves no allocation, and stats.fragmentation is never set to anything but 0.
VisitPool(t) ==
  /\ pc[t] = "inPool" /\ arg[t].op \in WalkOps
  /\ tmp' = [tmp EXCEPT ![t] = @ + pool[Here(t)].used]
  /\ UnlockPool(Here(t))
  /\ Scan(t, cur[t] + 1)
  /\ UNCHANGED <<globalMutex, list, manager, pool, reserved, blocks, owned, slack, phase,
                 arg, hnd>>

FinishWalk(t) ==
  /\ pc[t] = "done" /\ arg[t].op \in WalkOps
  /\ globalMutex' = NoThread
  /\ Return(t)
  /\ UNCHANGED <<poolMutex, list, manager, pool, reserved, blocks, owned, slack, phase>>

\* pool_destroy frees the gen_pool while the pool is still listed: a scan that reaches
\* it in between follows a dangling pointer, and may stop there.
UseDestroyed(t) ==
  /\ pc[t] = "inPool" /\ arg[t].op \in {"alloc", "defrag"}
  /\ pool[Here(t)].st = "dying"
  /\ pc' = [pc EXCEPT ![t] = "bugUse"]
  /\ UNCHANGED <<globalMutex, poolMutex, list, manager, pool, reserved, blocks, owned, slack,
                 phase, locals>>

----------------------------------------------------------------------------
(* pool_create.  The count check and next_id++ run without the global mutex, and
   next_id++ is a read and a write. *)

FreeStructs == {h \in Handles : pool[h].st = "free"}

\* Mutant: the check lets one pool too many in.
RoomForOneMore == poolCount <= MaxPools

RoomForPool == poolCount < MaxPools

\* The count and size checks, then kzalloc, which may fail.
CreateCheck(t) ==
  LET r == arg[t].region
  IN  /\ pc[t] = "cCheck"
      /\ \/ Return(t) /\ UNCHANGED pool
         \/ /\ RoomForPool
            /\ r.count \in MinCount..MaxCount
            /\ \E h \in FreeStructs :
                 /\ Least(h, FreeStructs)
                 /\ hnd' = [hnd EXCEPT ![t] = h]
                 /\ pool' = [pool EXCEPT ![h] = [st |-> "new", id |-> 0, region |-> r,
                                                 used |-> 0, active |-> 0]]
            /\ pc' = [pc EXCEPT ![t] = "cRead"]
            /\ UNCHANGED <<arg, cur, tmp>>
      /\ UNCHANGED <<globalMutex, poolMutex, list, manager, reserved, blocks, owned, slack,
                     phase>>

CreateReadId(t) ==
  /\ pc[t] = "cRead"
  /\ tmp' = [tmp EXCEPT ![t] = nextId]
  /\ pc' = [pc EXCEPT ![t] = "cWrite"]
  /\ UNCHANGED <<globalMutex, poolMutex, list, manager, pool, reserved, blocks, owned, slack,
                 phase, arg, cur, hnd>>

\* Then gen_pool_create and gen_pool_add: when one fails the struct is freed, the id is not.
CreateWriteId(t) ==
  /\ pc[t] = "cWrite"
  /\ nextId' = tmp[t] + 1
  /\ \/ /\ pool' = [pool EXCEPT ![hnd[t]].id = tmp[t]]
        /\ pc' = [pc EXCEPT ![t] = "cLockG"]
        /\ UNCHANGED locals
     \/ /\ pool' = [pool EXCEPT ![hnd[t]].st = "freed"]
        /\ Return(t)
  /\ UNCHANGED <<globalMutex, poolMutex, list, poolCount, totalSize, usedSize, active, reserved,
                 blocks, owned, slack, phase>>

CreateLock(t) ==
  /\ pc[t] = "cLockG"
  /\ globalMutex = NoThread
  /\ globalMutex' = t
  /\ pc' = [pc EXCEPT ![t] = "cAdd"]
  /\ UNCHANGED <<poolMutex, list, manager, pool, reserved, blocks, owned, slack, phase, locals>>

CreateAdd(t) ==
  /\ pc[t] = "cAdd"
  /\ list' = Append(list, hnd[t])
  /\ poolCount' = poolCount + 1
  /\ totalSize' = totalSize + pool[hnd[t]].region.count
  /\ pool' = [pool EXCEPT ![hnd[t]].st = "up"]
  /\ globalMutex' = NoThread
  /\ pc' = [pc EXCEPT ![t] = "cLog"]
  /\ UNCHANGED <<poolMutex, nextId, usedSize, active, reserved, blocks, owned, slack, phase,
                 locals>>

\* The pool is listed and no mutex is held: its name and id are read for the log and for the
\* caller, from memory that a pool_destroy may have freed meanwhile (UseFreed).
CreateReturn(t) ==
  /\ pc[t] = "cLog"
  /\ Return(t)
  /\ UNCHANGED <<globalMutex, poolMutex, list, manager, pool, reserved, blocks, owned, slack,
                 phase>>

----------------------------------------------------------------------------
(* pool_manager_destroy_pool, and pool_destroy, which rmmod calls too. *)

\* pool_manager_get_pool: under the global mutex, released before the pool is used.
DestroyFind(t) ==
  LET S == {i \in 1..Len(list) : pool[list[i]].id = arg[t].id}
  IN  /\ pc[t] = "dFind"
      /\ globalMutex = NoThread
      /\ IF S = {}
           THEN Return(t)
           ELSE /\ \E i \in S : /\ Least(i, S)
                                /\ hnd' = [hnd EXCEPT ![t] = list[i]]
                /\ pc' = [pc EXCEPT ![t] = "dLockP"]
                /\ UNCHANGED <<arg, cur, tmp>>
      /\ UNCHANGED <<globalMutex, poolMutex, list, manager, pool, reserved, blocks, owned, slack,
                     phase>>

DestroyLockPool(t) ==
  /\ pc[t] = "dLockP"
  /\ poolMutex[hnd[t]] = NoThread
  /\ poolMutex' = [poolMutex EXCEPT ![hnd[t]] = t]
  /\ pc' = [pc EXCEPT ![t] = "dPool"]
  /\ UNCHANGED <<globalMutex, list, manager, pool, reserved, blocks, owned, slack, phase, locals>>

\* Mutant: the pool's mutex is held until the pool is off the list.
DestroyPoolKeepingMutex(t) ==
  /\ pc[t] = "dPool"
  /\ reserved[hnd[t]] = {}
  /\ pool' = [pool EXCEPT ![hnd[t]].st = "dying"]
  /\ pc' = [pc EXCEPT ![t] = "dLockG"]
  /\ UNCHANGED <<globalMutex, poolMutex, list, manager, reserved, blocks, owned, slack, phase,
                 locals>>

\* The check for active allocations looks at used_list, to which nothing is ever added:
\* it never returns -EBUSY, and gen_pool_destroy is reached with pages reserved.  A second
\* destroy of the pool finds no chunk in the gen_pool, or stops there (UseFreed).
DestroyPool(t) ==
  LET h == hnd[t]
  IN  /\ pc[t] = "dPool"
      /\ IF reserved[h] # {}
           THEN /\ pc' = [pc EXCEPT ![t] = "bugDestroy"]
                /\ UNCHANGED <<poolMutex, pool>>
           ELSE /\ pool' = [pool EXCEPT ![h].st = IF @ = "up" THEN "dying" ELSE @]
                /\ UnlockPool(h)
                /\ pc' = [pc EXCEPT ![t] = "dLockG"]
      /\ UNCHANGED <<globalMutex, list, manager, reserved, blocks, owned, slack, phase, locals>>

DestroyLockGlobal(t) ==
  /\ pc[t] = "dLockG"
  /\ globalMutex = NoThread
  /\ globalMutex' = t
  /\ pc' = [pc EXCEPT ![t] = "dDel"]
  /\ UNCHANGED <<poolMutex, list, manager, pool, reserved, blocks, owned, slack, phase, locals>>

\* list_del: the list without its element h.
Without(h) ==
  LET i == CHOOSE j \in 1..Len(list) : list[j] = h
  IN  [j \in 1..(Len(list) - 1) |-> IF j < i THEN list[j] ELSE list[j + 1]]

\* The manager's used_size and active_allocations are left as they are.
Unlist(t, rest, n) ==
  /\ pc[t] = "dDel" /\ pool[hnd[t]].st # "freed"
  /\ list' = rest
  /\ poolCount' = poolCount - n
  /\ totalSize' = totalSize - pool[hnd[t]].region.count
  /\ pool' = [pool EXCEPT ![hnd[t]].st = "freed"]
  /\ globalMutex' = NoThread
  /\ ReturnTo(t, IF t = Rmmod THEN "xNext" ELSE "idle")
  /\ UNCHANGED <<poolMutex, nextId, usedSize, active, reserved, blocks, owned, slack, phase>>

\* Mutant: list_del is forgotten.
DestroyDelStillListed(t) == Unlist(t, list, 1)

DestroyDel(t) == Unlist(t, Without(hnd[t]), 1)

\* A pool found by its id, or made, is used after the global mutex is let go, and another
\* pool_destroy may have freed it, or its gen_pool, by then.  What is read there may be as it
\* was, and the thread goes on; or the thread stops, with the mutexes it holds.  list_del
\* poisons the links it takes out: the second list_del of a pool always stops.
UseFreed(t) ==
  /\ \/ /\ pc[t] \in {"cLog", "dLockP"} /\ pool[hnd[t]].st = "freed"
        /\ pc' = [pc EXCEPT ![t] = "bugLost"]
     \/ /\ pc[t] = "dPool" /\ pool[hnd[t]].st # "up"
        /\ pc' = [pc EXCEPT ![t] = "bugTwice"]
     \/ /\ pc[t] = "dDel" /\ pool[hnd[t]].st = "freed"
        /\ pc' = [pc EXCEPT ![t] = "bugDel"]
  /\ UNCHANGED <<globalMutex, poolMutex, list, manager, pool, reserved, blocks, owned, slack,
                 phase, locals>>

----------------------------------------------------------------------------
(* The monitoring thread and the end of the module. *)

\* Mutant: the loop does not look at stop_manager.
StopIgnored == FALSE

StopSeen == phase # "running"

\* The top of the loop: after each sleep of ten seconds it stops or walks the pools.
MonitorWake ==
  /\ pc[Monitor] = "idle"
  /\ StopSeen \/ "monitor" \in Operations
  /\ pc' = [pc EXCEPT ![Monitor] = IF StopSeen THEN "exited" ELSE "lockG"]
  /\ arg' = [arg EXCEPT ![Monitor] = [op |-> "monitor"]]
  /\ UNCHANGED <<globalMutex, poolMutex, list, manager, pool, reserved, blocks, owned, slack,
                 phase, cur, hnd, tmp>>

\* rmmod starts when no caller is left, and sets stop_manager.
ExitBegin ==
  /\ phase = "running"
  /\ \A t \in Clients : pc[t] = "idle"
  /\ phase' = "stopping"
  /\ pc' = [pc EXCEPT ![Rmmod] = "xStop"]
  /\ UNCHANGED <<globalMutex, poolMutex, list, manager, pool, reserved, blocks, owned, slack,
                 locals>>

\* kthread_stop keeps the monitor's task and waits for its end; of a monitor that saw
\* stop_manager and left before the call the task may be gone.
ExitStop ==
  /\ pc[Rmmod] = "xStop"
  /\ \/ pc' = [pc EXCEPT ![Rmmod] = "xJoin"]
     \/ pc[Monitor] = "exited" /\ pc' = [pc EXCEPT ![Rmmod] = "bugJoin"]
  /\ UNCHANGED <<globalMutex, poolMutex, list, manager, pool, reserved, blocks, owned, slack,
                 phase, locals>>

ExitJoin ==
  /\ pc[Rmmod] = "xJoin"
  /\ pc[Monitor] = "exited"
  /\ pc' = [pc EXCEPT ![Rmmod] = "xNext"]
  /\ UNCHANGED <<globalMutex, poolMutex, list, manager, pool, reserved, blocks, owned, slack,
                 phase, locals>>

ExitNext ==
  /\ pc[Rmmod] = "xNext"
  /\ IF list = <<>>
       THEN /\ phase' = "gone"
            /\ pc' = [pc EXCEPT ![Rmmod] = "exited"]
            /\ UNCHANGED hnd
       ELSE /\ hnd' = [hnd EXCEPT ![Rmmod] = Head(list)]
            /\ pc' = [pc EXCEPT ![Rmmod] = "dLockP"]
            /\ UNCHANGED phase
  /\ UNCHANGED <<globalMutex, poolMutex, list, manager, pool, reserved, blocks, owned, slack,
                 arg, cur, tmp>>

----------------------------------------------------------------------------
Call(t) == CallAlloc(t) \/ CallFree(t) \/ CallWalk(t) \/ CallCreate(t) \/ CallDestroy(t)

\* What t does once it is in a call.
Step(t) ==
  \/ LockGlobal(t) \/ LockPool(t)
  \/ AllocInPool(t) \/ FreeInPool(t) \/ VisitPool(t) \/ UseDestroyed(t)
  \/ FinishAlloc(t) \/ FinishFree(t) \/ FinishWalk(t)
  \/ CreateCheck(t) \/ CreateReadId(t) \/ CreateWriteId(t) \/ CreateLock(t) \/ CreateAdd(t)
  \/ CreateReturn(t)
  \/ DestroyFind(t) \/ DestroyLockPool(t) \/ DestroyPool(t)
  \/ DestroyLockGlobal(t) \/ DestroyDel(t) \/ UseFreed(t)

ExitStep == ExitStop \/ ExitJoin \/ ExitNext

Next ==
  \/ \E t \in Clients : Call(t)
  \/ \E t \in Threads : Step(t)
  \/ MonitorWake
  \/ ExitBegin
  \/ ExitStep

Spec == Init /\ [][Next]_vars

(* A thread inside the manager keeps running, and a mutex that is released again and again is
   one day granted to each waiter (kernel mutexes queue them); the monitor's sleep ends.
   Whether callers call, and whether the module is unloaded, is up to them. *)
Fairness ==
  /\ \A t \in Threads : SF_vars(Step(t))
  /\ WF_vars(MonitorWake)
  /\ WF_vars(ExitStep)

FairSpec == Spec /\ Fairness

----------------------------------------------------------------------------
(* Properties *)

Faults == {"bugFree", "bugUse", "bugDestroy", "bugLost", "bugTwice", "bugDel", "bugJoin"}

Labels == {"idle", "lockG", "lockP", "inPool", "done", "cCheck", "cRead", "cWrite", "cLockG",
           "cAdd", "cLog", "dFind", "dLockP", "dPool", "dLockG", "dDel", "xStop", "xJoin", "xNext", "exited"}
          \cup Faults

Pages     == UNION {PagesIn(r) : r \in Regions}
BlockSet  == [ptr : Pages, size : {r.size : r \in Requests}]
Arguments ==
  [op : {"none", "defrag", "monitor"}]
  \cup [op : {"alloc"}, type : Types, size : {r.size : r \in Requests},
        align : {r.align : r \in Requests}]
  \cup [op : {"free"}, ptr : Pages, size : {r.size : r \in Requests}]
  \cup [op : {"create"}, region : Regions]
  \cup [op : {"destroy"}, id : Nat]

(* Types; poolCount, unsigned in the code, never passes below zero. *)
TypeOK ==
  /\ globalMutex \in Threads \cup {NoThread}
  /\ poolMutex \in [Handles -> Threads \cup Readers \cup {NoThread}]
  /\ list \in Seq(Handles)
  /\ poolCount \in Nat /\ nextId \in Nat /\ totalSize \in Int
  /\ usedSize \in Int /\ active \in Int
  /\ pool \in [Handles -> Pool]
  /\ reserved \in [Handles -> SUBSET Pages]
  /\ blocks \subseteq BlockSet
  /\ owned \subseteq blocks
  /\ slack \in [Handles -> SUBSET Pages]
  /\ phase \in {"running", "stopping", "gone"}
  /\ pc \in [Threads -> Labels]
  /\ arg \in [Threads -> Arguments]
  /\ cur \in [Threads -> Nat]
  /\ hnd \in [Threads -> Handles \cup {None}]
  /\ tmp \in [Threads -> Int]

Stopped == \E t \in Threads : pc[t] \in Faults

Listed == {list[i] : i \in 1..Len(list)}

(* Two allocations never share a page, whichever pools, alignments and threads they come from
   (pool_manager_alloc and pool_manager_free route by type and by address range). *)
NoOverlap ==
  \A b, c \in blocks : b # c => BlockPages(b) \cap BlockPages(c) = {}

\* The allocations in the range of pool h.
BlocksIn(h) == {b \in blocks : b.ptr \in PagesIn(pool[h].region)}

(* The unsigned counters never pass below zero, whatever the interleaving, and
   when nobody holds global_mutex the manager's counters are exact: used_size and
   active_allocations over the live allocations, pool_count and total_size over the list,
   and each pool's own counters over the allocations in its range. *)
ManagerAccounts ==
  /\ usedSize >= 0 /\ active >= 0 /\ totalSize >= 0
  /\ \A h \in Handles : pool[h].used >= 0 /\ pool[h].active >= 0
  /\ globalMutex = NoThread =>
       /\ usedSize = SizeSum(blocks) /\ active = Cardinality(blocks)
       /\ poolCount = Len(list)
       /\ totalSize = SumOver([h \in Listed |-> pool[h].region.count], Listed)
       /\ \A h \in Listed : /\ pool[h].used = SizeSum(BlocksIn(h))
                            /\ pool[h].active = Cardinality(BlocksIn(h))

(* A pool's bitmap holds exactly the pages of its live allocations and the pages lost to
   alignment: pool_manager_free gives back the size the caller names, so what
   pool_alloc_aligned reserved beyond it is never given back, and nothing else is lost. *)
PagesAccounted ==
  \A h \in Listed :
    reserved[h] = slack[h] \cup UNION {BlockPages(b) : b \in BlocksIn(h)}

(* pool_manager_free clears pages only in the pool that made the allocation: the address-range
   search never leads gen_pool_free to pages that are not reserved, or to a dead gen_pool. *)
FreeFindsItsPool == \A t \in Threads : pc[t] # "bugFree"

(* A thread that holds a pool's mutex waits for no mutex: global_mutex is always taken first,
   and pool_destroy releases the pool's before it takes the global one.  No cycle of waiting
   threads can close. *)
LockOrder ==
  \A t \in Threads :
    (\E h \in Handles : poolMutex[h] = t) =>
      pc[t] \notin {"lockG", "lockP", "cLockG", "dFind", "dLockP", "dLockG"}

(* A struct memory_pool is used after its kfree, or its gen_pool destroyed twice, by nobody but
   callers of pool_manager_create_pool and pool_manager_destroy_pool, which keep a pool they let
   others destroy.  A scan under global_mutex (alloc, free, get_stats, defrag, the monitor) comes
   to no freed pool, although a destroy unlists it in a critical section of its own; and the
   unloading module meets none, although it finds the pools without a lock. *)
OnlyCallersMeetFreed ==
  \A t \in Threads :
    /\ pc[t] \in {"lockP", "inPool", "bugUse", "bugFree"} => pool[Here(t)].st \in {"up", "dying"}
    /\ pc[t] \in {"bugLost", "bugTwice", "bugDel"} =>
         t \in Clients /\ arg[t].op \in {"create", "destroy"}
    /\ t = Rmmod /\ pc[t] \in {"dLockP", "dPool"} => pool[hnd[t]].st = "up"

(* pool_create checks pool_count without the mutex: callers that race past the check exceed
   POOL_MAX_COUNT, but by no more than one pool each. *)
PoolCountBound == poolCount <= MaxPools + Cardinality(Clients) - 1

(* A walk under global_mutex (get_stats, defrag, the monitor) sees pool counters that add up to
   the manager's used_size, although allocations and frees update the two in separate steps. *)
WalkConsistent ==
  \A t \in Threads : pc[t] = "done" /\ arg[t].op \in WalkOps => tmp[t] = usedSize

(* A call that starts returns, unless a thread was stopped by a kernel BUG while it held a
   mutex of the manager. *)
CallsReturn ==
  \A t \in Clients : pc[t] # "idle" ~> (pc[t] = "idle" \/ Stopped)

(* rmmod ends: the monitor notices stop_manager and every pool is destroyed. *)
ExitEnds == phase = "stopping" ~> (phase = "gone" \/ Stopped)

(* The comment "Check for active allocations" in pool_destroy: a pool with active allocations
   is refused with -EBUSY and its gen_pool is not touched. *)
DestroyRefusesActive ==
  \A t \in Threads : pc[t] = "bugDestroy" => pool[hnd[t]].active = 0

(* The allocator the manager is: the memory of the pools that have a gen_pool. *)
Managed == UNION {PagesIn(pool[h].region) : h \in {g \in Handles : pool[g].st = "up"}}
Abstract == INSTANCE PageAllocator WITH
  Blocks <- BlockSet, Extents <- {PagesIn(r) : r \in Regions}, PagesOf <- BlockPages,
  mem <- Managed, live <- blocks

(* The manager implements the page allocator. *)
ImplementsAllocator == Abstract!Spec

=============================================================================
