----------------------------- MODULE PoolDebugfs -----------------------------
(***************************************************************************)
(* The debugfs file of pool_manager.c, composed with the manager: a        *)
(* process that reads it walks the list of pools without global_mutex and  *)
(* takes the mutex of each pool it comes to for a copy of its statistics.  *)
(* An open file pins the module (.owner of its operations): rmmod waits    *)
(* for the reader to be gone.  A pool_destroy that a caller asks for waits *)
(* for nobody.  A reader that comes to a pool that was freed is stopped,   *)
(* and nothing is said of what that kernel does next.                      *)
(*                                                                         *)
(* The statistics timer, which reads the manager's counters only, and the  *)
(* text of the file are left out.                                          *)
(***************************************************************************)
EXTENDS PoolManager

CONSTANT Reader    \* the process that reads the file

ASSUME ReaderAssumption == Reader \in Readers

VARIABLES
  at,              \* the reader: "out", waiting to "lock" a pool, copying its "stats",
                   \*   going on to the "next", or "stopped" at a pool that was freed
  shown,           \* the pool the reader has come to
  destroyed        \* ghost: the pools freed by callers

debugfsVars == <<at, shown, destroyed>>

DebugfsInit == Init /\ at = "out" /\ shown = None /\ destroyed = {}

Freed(h) == pool[h].st = "freed"

\* The reader at a pool whose memory is gone.
Stop ==
  /\ at' = "stopped"
  /\ UNCHANGED <<poolMutex, shown>>

\* list_for_each_entry: the pool at position i, or the end of the list.
Visit(i) ==
  IF i <= Len(list) THEN at' = "lock" /\ shown' = list[i] ELSE at' = "out" /\ shown' = None

StartShow ==
  /\ phase = "running" /\ at = "out"
  /\ Visit(1)
  /\ UNCHANGED poolMutex

LockShown ==
  /\ at = "lock"
  /\ IF Freed(shown) THEN Stop
     ELSE /\ poolMutex[shown] = NoThread
          /\ poolMutex' = [poolMutex EXCEPT ![shown] = Reader]
          /\ at' = "stats"
          /\ UNCHANGED shown

\* pool_get_stats: the copy, and the mutex let go.
CopyStats ==
  /\ at = "stats"
  /\ IF Freed(shown) THEN Stop
     ELSE /\ poolMutex' = [poolMutex EXCEPT ![shown] = NoThread]
          /\ at' = "next"
          /\ UNCHANGED shown

\* The rest of the pool's lines is printed and its link followed.
NextShown ==
  /\ at = "next"
  /\ IF Freed(shown) THEN Stop
     ELSE /\ \E i \in 1..Len(list) : list[i] = shown /\ Visit(i + 1)
          /\ UNCHANGED poolMutex

pool_debugfs_show == StartShow \/ LockShown \/ CopyStats \/ NextShown

\* Mutant: the file operations have no .owner.
PinnedByNobody == FALSE

\* The module is in use while the file is open.
Pinned == at # "out"

\* t frees the pool that a caller asked it to destroy.
Frees(t) == pc[t] = "dDel" /\ pc'[t] = "idle"

DebugfsNext ==
  \/ /\ at # "stopped"
     /\ Next
     /\ Pinned => phase' = "running"
     /\ destroyed' = destroyed \cup {hnd[t] : t \in {c \in Clients : Frees(c)}}
     /\ UNCHANGED <<at, shown>>
  \/ /\ pool_debugfs_show
     /\ UNCHANGED <<globalMutex, list, manager, pool, reserved, blocks, owned, slack, phase, pc,
                    locals, destroyed>>

DebugfsSpec == DebugfsInit /\ [][DebugfsNext]_<<vars, debugfsVars>>

(* pool_debugfs_show walks the list without a lock that keeps it, yet only a pool_destroy that a
   caller asked for can free the pool that the reader has come to: the end of the module never
   does, because the open file keeps the module loaded, and neither does a pool_create that
   fails, because its pool is not on the list. *)
OnlyDestroyStopsReader == at # "out" /\ Freed(shown) => shown \in destroyed

=============================================================================
