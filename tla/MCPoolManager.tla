---------------------------- MODULE MCPoolManager ----------------------------
(* PoolManager on adjacent ranges of two pages and one, two callers, the monitor and rmmod. *)
EXTENDS PoolManager, TLC

MCDefault  == [type |-> "general", first |-> 2, count |-> 2]
MCRegions  == {MCDefault,
               [type |-> "general",     first |-> 4, count |-> 1]}

\* A page is two bytes: a byte, two pages, and a page aligned to two pages.
MCRequests == {[size |-> 1, align |-> 0], [size |-> 2, align |-> 4]}

\* The liveness run: one range, so that callers compete for one pool.
LiveRegions  == {MCDefault}
LiveRequests == {[size |-> 3, align |-> 0]}

(* The callers are interchangeable; the safety run uses it. *)
Callers == Permutations(Clients)

=============================================================================
