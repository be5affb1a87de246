--------------------------- MODULE LibDdrManager ---------------------------
(***************************************************************************)
(* user-space/libraries/libddr_manager/ddr_manager.c, as the programs that *)
(* link it meet it.  A constructor calls ddr_init before main.  ddr_init   *)
(* takes the lock of the context, which is not recursive, opens the        *)
(* device, and calls ddr_get_info, which asks ddr_is_initialized, which    *)
(* takes the lock: a program that can open the device never gets to main.  *)
(* One that cannot goes on, and every other function tells it that the     *)
(* library is not initialised.                                             *)
(*                                                                         *)
(* A program has one thread.  What the functions would do after that       *)
(* question is left out, for none gets further.                            *)
(***************************************************************************)
CONSTANT Programs

VARIABLES
  where,           \* per program: "constructor", "open", "get_info", "main", "call" or "ended"
  ctxLocked,       \* g_ctx.lock is held
  fd,              \* g_ctx.fd is an open file
  initialized      \* g_ctx.initialized

libVars == <<where, ctxLocked, fd, initialized>>

LibraryStart ==
  /\ where = [p \in Programs |-> "constructor"]
  /\ ctxLocked = [p \in Programs |-> FALSE]
  /\ fd = [p \in Programs |-> FALSE]
  /\ initialized = [p \in Programs |-> FALSE]

At(p, place) == where' = [where EXCEPT ![p] = place]
Lock(p)      == ~ ctxLocked[p] /\ ctxLocked' = [ctxLocked EXCEPT ![p] = TRUE]
Unlock(p)    == ctxLocked' = [ctxLocked EXCEPT ![p] = FALSE]

\* The constructor, or a call of main.
ddr_init(p) ==
  /\ where[p] \in {"constructor", "main"}
  /\ Lock(p)
  /\ IF initialized[p] THEN At(p, "main") ELSE At(p, "open")
  /\ UNCHANGED <<fd, initialized>>

\* Mutant: the lock is not given back when the device cannot be opened.
OpenFailsLocked(p) ==
  /\ where[p] = "open"
  /\ At(p, "main")
  /\ UNCHANGED <<ctxLocked, fd, initialized>>

\* The module is not loaded, or is in an ioctl and answers -EBUSY.
OpenFails(p) ==
  /\ where[p] = "open"
  /\ Unlock(p) /\ At(p, "main")
  /\ UNCHANGED <<fd, initialized>>

ddr_open_device(p) ==
  /\ where[p] = "open"
  /\ fd' = [fd EXCEPT ![p] = TRUE]
  /\ At(p, "get_info")
  /\ UNCHANGED <<ctxLocked, initialized>>

\* ddr_alloc, ddr_free, ddr_get_info, ddr_set_config and the others.
Call(p) ==
  /\ where[p] = "main"
  /\ At(p, "call")
  /\ UNCHANGED <<ctxLocked, fd, initialized>>

\* The first thing such a function does, and ddr_get_info when ddr_init calls it: it waits for
\* the lock.  A ddr_init that got this answer would close the device.
ddr_is_initialized(p) ==
  /\ where[p] \in {"call", "get_info"}
  /\ ~ ctxLocked[p]
  /\ fd' = [fd EXCEPT ![p] = where[p] = "call" /\ fd[p]]
  /\ At(p, "main")
  /\ UNCHANGED <<ctxLocked, initialized>>

\* The destructor: nothing to close when the library is not initialised.
ddr_cleanup(p) ==
  /\ where[p] = "main"
  /\ ~ ctxLocked[p]
  /\ fd' = [fd EXCEPT ![p] = ~ initialized[p] /\ fd[p]]
  /\ initialized' = [initialized EXCEPT ![p] = FALSE]
  /\ At(p, "ended")
  /\ UNCHANGED ctxLocked

\* The process is killed; the lock was in its memory.
Killed(p) ==
  /\ where[p] # "ended"
  /\ fd' = [fd EXCEPT ![p] = FALSE]
  /\ Unlock(p) /\ At(p, "ended")
  /\ UNCHANGED initialized

\* What a program does that the device does not see.
ProgramStep(p) ==
  ddr_init(p) \/ OpenFails(p) \/ Call(p) \/ ddr_is_initialized(p) \/ ddr_cleanup(p)

(* A program has the device open only while it waits, in ddr_init, for the lock it holds; where
   ddr_init has returned, the program has neither the device nor the lock. *)
DeviceOnlyBehindLock ==
  \A p \in Programs :
    /\ fd[p] <=> where[p] = "get_info"
    /\ ctxLocked[p] <=> where[p] \in {"open", "get_info"}

=============================================================================
