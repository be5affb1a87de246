---------------------------- MODULE MCPoolDebugfs ----------------------------
(* PoolDebugfs with callers that race past the limit of one pool, over three ranges of
   a page; they make and destroy pools and allocate nothing. *)
EXTENDS PoolDebugfs, TLC

RaceDefault  == [type |-> "general", first |-> 2, count |-> 1]
RaceRegions  == {[type |-> "general", first |-> f, count |-> 1] : f \in 2..4}
RaceRequests == {[size |-> 1, align |-> 0]}

(* The callers are interchangeable. *)
Callers == Permutations(Clients)

=============================================================================
