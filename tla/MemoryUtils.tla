----------------------------- MODULE MemoryUtils -----------------------------
(***************************************************************************)
(* user-space/libraries/libmemory_utils/memory_utils.c: a list of the      *)
(* blocks a program tells it of, and an array of memory pools, in one      *)
(* context under one lock.  Most calls look at the context before they     *)
(* take the lock and not again after: such a call is a step that looks and *)
(* a step that acts.  Nothing else sees what happens under the lock.       *)
(*                                                                         *)
(* memory_utils_cleanup calls other functions of the library while it      *)
(* holds the lock, and they take it again; it is not recursive.            *)
(*                                                                         *)
(* The address space is small and wraps as the machine's does.  malloc     *)
(* aligns less than pools do; malloc, calloc and fopen may fail.  Logging  *)
(* and the times, places and peaks that are recorded are left out, and     *)
(* what calls make of a context that a pool was written over.              *)
(***************************************************************************)
EXTENDS Integers, Sequences, FiniteSets, SequencesExt, Sums

CONSTANTS
  Threads,         \* of the program
  Nobody,          \* the owner of the lock when it is free
  Addresses,       \* of the blocks the program tracks
  SizeOf,          \* their sizes
  MaxTracked,      \* bound on the length of the list
  MaxPools,        \* MAX_POOLS
  Memories,        \* what malloc can give a pool
  Bases,           \* where such memory starts
  AddressSpace,    \* the size of the address space
  PoolSize, Align, \* the size and the alignment pools are created with
  AlignedUp,       \* memory_utils_align_up by Align, for each address
  PieceSizes,      \* the sizes asked of a pool
  Overlays         \* what the names of pools are where they are written over pool_count,
                   \* current_allocated and current_blocks

ASSUME UtilsAssumption ==
  /\ Nobody \notin Threads
  /\ SizeOf \in [Addresses -> Nat \ {0}]
  /\ MaxPools \in Nat \ {0} /\ PoolSize \in Nat \ {0} /\ Align \in Nat \ {0}
  /\ AddressSpace \in Nat /\ Bases \subseteq Nat /\ PieceSizes \subseteq 0 .. AddressSpace - 1
  /\ \A b \in Bases : b + PoolSize + Align <= AddressSpace
  /\ \A a \in 0 .. AddressSpace - Align : AlignedUp[a] \in a .. a + Align - 1
  /\ Overlays \subseteq [count : Int, current : Int, blocks : Int]

VARIABLES
  initialized,     \* g_ctx.initialized
  config,          \* leak_detection_enabled and block_tracking_enabled
  blocks,          \* g_ctx.blocks, newest first
  stats,           \* current_allocated and current_blocks
  stale,           \* blocks were in the list when the library was initialised
  pools,           \* g_ctx.pools: the slots that are initialised
  poolCount,       \* g_ctx.pool_count
  overtaken,       \* creates that wait for the lock while another one took a slot
  overrun,         \* a pool was written past the array, over the rest of the context
  allocated,       \* the memories that are allocated
  wild,            \* the memories of pools that gave out a piece whose end wraps
  pieces,          \* what the other pools gave out and nobody reset or destroyed
  ids,             \* the pool ids the program was given
  lock,            \* g_ctx.lock: its owner
  pc, arg          \* per thread: control, the argument of its call

tracking == <<blocks, stats, stale>>
memories == <<allocated, pieces, wild>>
poolState == <<pools, poolCount, overtaken, overrun, memories>>
utilsVars == <<initialized, config, tracking, poolState, ids, lock, pc, arg>>

Configs == [leak : BOOLEAN, track : BOOLEAN]
Slots   == 0 .. MaxPools - 1

\* After the constructor.
UtilsStart ==
  /\ initialized = TRUE
  /\ config = [leak |-> TRUE, track |-> TRUE]
  /\ blocks = << >> /\ stats = [current |-> 0, count |-> 0] /\ stale = FALSE
  /\ pools = << >> /\ poolCount = 0 /\ overtaken = {} /\ overrun = FALSE
  /\ allocated = {} /\ pieces = {} /\ wild = {} /\ ids = {}
  /\ lock = Nobody
  /\ pc = [t \in Threads |-> "idle"]
  /\ arg = [t \in Threads |-> 0]

\* A call that has looked at the context goes on to the lock.
Proceed(t, call, a) ==
  /\ pc' = [pc EXCEPT ![t] = call]
  /\ arg' = [arg EXCEPT ![t] = a]

Return(t) == Proceed(t, "idle", 0)

Begin(t, call, args) ==
  /\ pc[t] = "idle"
  /\ \E a \in args : Proceed(t, call, a)
  /\ UNCHANGED <<initialized, config, tracking, poolState, ids, lock>>

\* A call that has the lock.
Inside(t, call) == pc[t] = call /\ lock = Nobody

(***************************************************************************)
(* Initialisation                                                          *)
(***************************************************************************)

\* The list is not touched.  When the log file cannot be opened the configuration stays as set.
memory_utils_init(t) ==
  /\ pc[t] = "idle" /\ lock = Nobody
  /\ ~ initialized
  /\ config' \in Configs
  /\ \/ initialized' = TRUE
        /\ stats' = [current |-> 0, count |-> 0] /\ stale' = (blocks # << >>)
     \/ UNCHANGED <<initialized, stats, stale>>
  /\ UNCHANGED <<blocks, poolState, ids, lock, pc, arg>>

BeginSetConfig(t) == initialized /\ Begin(t, "set_config", {0})

SetConfig(t) ==
  /\ Inside(t, "set_config")
  /\ config' \in Configs
  /\ Return(t)
  /\ UNCHANGED <<initialized, tracking, poolState, ids, lock>>

LivePools == {i \in DOMAIN pools : i < poolCount}

\* With leak detection on, memory_utils_detect_leaks takes the lock again; with it off, the list
\* is freed with what it lists, and memory_utils_pool_destroy takes the lock again, if a pool is
\* left.  The slots beyond pool_count are forgotten.
memory_utils_cleanup(t) ==
  /\ pc[t] = "idle" /\ lock = Nobody
  /\ initialized
  /\ IF config.leak
     THEN /\ lock' = t /\ Proceed(t, "stuck", 0)
          /\ UNCHANGED <<initialized, blocks, poolCount>>
     ELSE /\ blocks' = << >>
          /\ IF LivePools # {}
             THEN /\ lock' = t /\ Proceed(t, "stuck", 0)
                  /\ UNCHANGED <<initialized, poolCount>>
             ELSE /\ initialized' = FALSE /\ poolCount' = 0
                  /\ UNCHANGED <<lock, pc, arg>>
  /\ UNCHANGED <<config, stats, stale, pools, overtaken, overrun, memories, ids>>

(***************************************************************************)
(* Tracking                                                                *)
(***************************************************************************)

BeginTrackAlloc(t) == initialized /\ config.track /\ Begin(t, "track_alloc", Addresses)
BeginTrackFree(t)  == initialized /\ config.track /\ Begin(t, "track_free", Addresses)

\* memory_utils_track_alloc, also for memory_utils_strdup and strndup.
TrackAlloc(t) ==
  /\ Inside(t, "track_alloc")
  /\ Len(blocks) < MaxTracked
  /\ \/ /\ blocks' = <<arg[t]>> \o blocks
        /\ stats' = [current |-> stats.current + SizeOf[arg[t]], count |-> stats.count + 1]
     \/ UNCHANGED <<blocks, stats>>
  /\ Return(t)
  /\ UNCHANGED <<initialized, config, stale, poolState, ids, lock>>

\* The first entry for the address leaves the list.
TrackFree(t) ==
  /\ Inside(t, "track_free")
  /\ IF Contains(blocks, arg[t])
     THEN /\ blocks' = RemoveFirst(blocks, arg[t])
          /\ stats' = [current |-> stats.current - SizeOf[arg[t]], count |-> stats.count - 1]
     ELSE UNCHANGED <<blocks, stats>>
  /\ Return(t)
  /\ UNCHANGED <<initialized, config, stale, poolState, ids, lock>>

BeginClearLeaks(t) == initialized /\ Begin(t, "clear_leaks", {0})

\* Mutant: the number of blocks is forgotten.
ClearLeaksBytes(t) ==
  /\ Inside(t, "clear_leaks")
  /\ blocks' = << >> /\ stats' = [stats EXCEPT !.current = 0] /\ stale' = FALSE
  /\ Return(t)
  /\ UNCHANGED <<initialized, config, poolState, ids, lock>>

ClearLeaks(t) ==
  /\ Inside(t, "clear_leaks")
  /\ blocks' = << >> /\ stats' = [current |-> 0, count |-> 0] /\ stale' = FALSE
  /\ Return(t)
  /\ UNCHANGED <<initialized, config, poolState, ids, lock>>

\* get_config, find_block, get_stats, detect_leaks and print_leaks change nothing.
BeginQuery(t) == initialized /\ Begin(t, "query", {0})

Query(t) ==
  /\ Inside(t, "query")
  /\ Return(t)
  /\ UNCHANGED <<initialized, config, tracking, poolState, ids, lock>>

(***************************************************************************)
(* Pools                                                                   *)
(***************************************************************************)

\* Mutant: a count that is MAX_POOLS passes.
BeginCreateFull(t) ==
  /\ initialized /\ poolCount <= MaxPools
  /\ Begin(t, "create", {0})

\* The count is looked at before the lock is taken.
BeginCreate(t) ==
  /\ initialized /\ poolCount < MaxPools
  /\ Begin(t, "create", {0})

\* The slot is the count, which is not the first free one once another pool was destroyed: a pool
\* that is there is overwritten, and its memory lost.  Below 0 the slot is one of traces, which
\* nothing uses.
TakeSlot(t, m, b) ==
  /\ poolCount < MaxPools
  /\ pools' = [i \in DOMAIN pools \cup ({poolCount} \cap Slots) |->
                 IF i = poolCount THEN [memory |-> m, start |-> b, current |-> b] ELSE pools[i]]
  /\ poolCount' = poolCount + 1
  /\ overtaken' = (overtaken \cup {u \in Threads : pc[u] = "create"}) \ {t}
  /\ Proceed(t, "created", 0)
  /\ UNCHANGED <<stats, overrun, lock>>

\* Past the array are pool_count, the statistics and the lock: the pool's name lies over the first
\* two, a flag and a mutex over the lock, which may be left taken; then the count is raised.
Overrun(t) ==
  /\ poolCount >= MaxPools
  /\ overrun' = TRUE
  /\ \E o \in Overlays :
       poolCount' = o.count + 1 /\ stats' = [current |-> o.current, count |-> o.blocks]
  /\ lock' \in {Nobody, t}
  /\ Proceed(t, "created", 0)
  /\ UNCHANGED <<pools, overtaken>>

PoolCreate(t) ==
  /\ Inside(t, "create")
  /\ \/ \E m \in Memories \ allocated, b \in Bases :
          allocated' = allocated \cup {m} /\ (TakeSlot(t, m, b) \/ Overrun(t))
     \/ Return(t) /\ overtaken' = overtaken \ {t}
        /\ UNCHANGED <<pools, allocated, poolCount, stats, overrun, lock>>
  /\ UNCHANGED <<initialized, config, blocks, stale, pieces, wild, ids>>

\* What is returned is computed from the count after the lock was let go; what is negative looks
\* like an error.
Created(t) ==
  /\ pc[t] = "created"
  /\ ids' = ids \cup {i \in {poolCount - 1} : i >= 0}
  /\ Return(t)
  /\ UNCHANGED <<initialized, config, tracking, poolState, lock>>

BeginPool(t, call) == Begin(t, call, {i \in ids : i < poolCount})

\* ptr + size may wrap: the piece then ends before it starts.
Piece(p, s) ==
  LET ptr == AlignedUp[p.current]
  IN  [memory |-> p.memory, from |-> ptr, to |-> (ptr + s) % AddressSpace]

\* Mutant: current moves on from where it was, not from the piece.
MovedOnUnaligned(p, s) == [p EXCEPT !.current = @ + s]

MovedOn(p, s) == [p EXCEPT !.current = Piece(p, s).to]

HasRoom(i, s) ==
  i \in DOMAIN pools /\ Piece(pools[i], s).to <= pools[i].start + PoolSize

\* memory_utils_pool_alloc: NULL when the slot is empty or has no room.
PoolAlloc(t) ==
  /\ Inside(t, "pool_alloc")
  /\ \E s \in PieceSizes :
       IF HasRoom(arg[t], s)
       THEN LET pool == pools[arg[t]]
                new  == Piece(pool, s)
            IN  /\ wild' = wild \cup IF new.to < new.from THEN {pool.memory} ELSE {}
                /\ pieces' = {p \in pieces \cup {new} : p.memory \notin wild'}
                /\ pools' = [pools EXCEPT ![arg[t]] = MovedOn(pool, s)]
       ELSE UNCHANGED <<pieces, wild, pools>>
  /\ Return(t)
  /\ UNCHANGED <<initialized, config, tracking, poolCount, overtaken, overrun, allocated, ids,
                 lock>>

PiecesOf(m) == {p \in pieces : p.memory = m}

PoolReset(t) ==
  /\ Inside(t, "pool_reset")
  /\ IF arg[t] \in DOMAIN pools
     THEN /\ pools' = [pools EXCEPT ![arg[t]].current = pools[arg[t]].start]
          /\ pieces' = pieces \ PiecesOf(pools[arg[t]].memory)
          /\ wild' = wild \ {pools[arg[t]].memory}
     ELSE UNCHANGED <<pools, pieces, wild>>
  /\ Return(t)
  /\ UNCHANGED <<initialized, config, tracking, poolCount, overtaken, overrun, allocated, ids,
                 lock>>

\* Whichever pool goes, the count goes down.
PoolDestroy(t) ==
  /\ Inside(t, "pool_destroy")
  /\ IF arg[t] \in DOMAIN pools
     THEN LET m == pools[arg[t]].memory
          IN  /\ allocated' = allocated \ {m}
              /\ pieces' = pieces \ PiecesOf(m)
              /\ wild' = wild \ {m}
              /\ pools' = [i \in DOMAIN pools \ {arg[t]} |-> pools[i]]
              /\ poolCount' = poolCount - 1
     ELSE UNCHANGED <<memories, pools, poolCount>>
  /\ Return(t)
  /\ UNCHANGED <<initialized, config, tracking, overtaken, overrun, ids, lock>>

UtilsStep(t) ==
  \/ memory_utils_init(t) \/ memory_utils_cleanup(t)
  \/ BeginSetConfig(t) \/ SetConfig(t)
  \/ BeginTrackAlloc(t) \/ TrackAlloc(t) \/ BeginTrackFree(t) \/ TrackFree(t)
  \/ BeginClearLeaks(t) \/ ClearLeaks(t) \/ BeginQuery(t) \/ Query(t)
  \/ BeginCreate(t) \/ PoolCreate(t) \/ Created(t)
  \/ \E call \in {"pool_alloc", "pool_reset", "pool_destroy"} : BeginPool(t, call)
  \/ PoolAlloc(t) \/ PoolReset(t) \/ PoolDestroy(t)

\* After an overrun there is no telling what calls do.
UtilsNext == ~ overrun /\ \E t \in Threads : UtilsStep(t)

UtilsSpec == UtilsStart /\ [][UtilsNext]_utilsVars

(***************************************************************************)
(* What must hold                                                          *)
(***************************************************************************)

Total(s) == SumOver([i \in DOMAIN s |-> SizeOf[s[i]]], DOMAIN s)

(* Whenever a call can read it, what an initialised library reports as allocated is what its
   list holds, in bytes and in blocks, unless a call that had looked at the context before a
   cleanup added to the list after it, and was inherited by the next initialisation; or a pool
   was written over the statistics. *)
AccountsExact ==
  initialized /\ lock = Nobody /\ ~ stale /\ ~ overrun =>
    stats = [current |-> Total(blocks), count |-> Len(blocks)]

(* A create that looked at the count before it waited for the lock still finds room in the array,
   and writes no pool over the count, the statistics and the lock, unless another create took a
   slot in between: whatever destroys, cleanups and failing creates did meanwhile. *)
OverrunsOnlyOvertaken ==
  /\ \A t \in Threads :
       pc[t] = "create" /\ t \notin overtaken /\ ~ overrun => poolCount < MaxPools
  /\ overrun => overtaken # {}

memory_utils_pool_stats(i) ==
  LET gone == pools[i].current - pools[i].start IN [used |-> gone, free |-> PoolSize - gone]

(* What pools gave out lies in memory that is still allocated, whichever pools were created over,
   destroyed or reset in between and by whichever threads.  No two pieces of a pool share any of
   it, all of them lie in its memory, and what it reports as used covers them and as free does not
   wrap.  None of this is said of a pool that, since it was created or reset, was asked for a piece
   so large that its end wraps. *)
PiecesApart ==
  /\ \A p \in pieces : p.memory \in allocated
  /\ \A i \in DOMAIN pools : pools[i].memory \notin wild =>
       /\ memory_utils_pool_stats(i).free >= 0
       /\ \A p \in PiecesOf(pools[i].memory) :
            /\ p.from >= pools[i].start
            /\ p.to - pools[i].start <= memory_utils_pool_stats(i).used
  /\ \A p, q \in pieces :
       p # q /\ p.memory = q.memory => p.to <= q.from \/ q.to <= p.from

=============================================================================
