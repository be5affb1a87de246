---------------------------- MODULE PageAllocator ----------------------------
(***************************************************************************)
(* What an allocator of physical pages promises its callers, whatever its  *)
(* pools, locks and counters: a block handed out lies inside the memory    *)
(* the allocator manages and shares no page with a block handed out        *)
(* earlier and not given back; memory is withdrawn from the allocator only *)
(* when no block lies in it.                                               *)
(***************************************************************************)
EXTENDS Integers

CONSTANTS
  Blocks,        \* the blocks that can be handed out
  Extents,       \* the sets of pages that can be added or withdrawn as one
  PagesOf(_)     \* the pages of a block

VARIABLES
  mem,           \* the pages under management
  live           \* the blocks handed out and not yet given back

vars == <<mem, live>>

Init ==
  /\ mem \in {{}} \cup Extents
  /\ live = {}

Apart(b, c) == PagesOf(b) \cap PagesOf(c) = {}

Allocate(b) ==
  /\ PagesOf(b) \subseteq mem
  /\ \A c \in live : Apart(b, c)
  /\ live' = live \cup {b}
  /\ UNCHANGED mem

Release(b) ==
  /\ b \in live
  /\ live' = live \ {b}
  /\ UNCHANGED mem

Extend(extent) ==
  /\ extent \cap mem = {}
  /\ mem' = mem \cup extent
  /\ UNCHANGED live

Withdraw(extent) ==
  /\ \A b \in live : PagesOf(b) \cap extent = {}
  /\ mem' = mem \ extent
  /\ UNCHANGED live

Next ==
  \/ \E b \in Blocks : Allocate(b) \/ Release(b)
  \/ \E extent \in Extents : Extend(extent) \/ Withdraw(extent)

Spec == Init /\ [][Next]_vars

(* Every block handed out lies in managed memory, and no two share a page. *)
Disjoint ==
  /\ \A b \in live : PagesOf(b) \subseteq mem
  /\ \A b, c \in live : b # c => Apart(b, c)

=============================================================================
