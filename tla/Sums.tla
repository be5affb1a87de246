------------------------------- MODULE Sums ---------------------------------
(***************************************************************************)
(* The sums that the accounts of an allocator are compared with, over      *)
(* functions, so that SumTheorems can state facts about them.              *)
(***************************************************************************)
EXTENDS Integers, FiniteSetsExt

SumOver(f, S) == MapThenSumSet(LAMBDA x : f[x], S)

\* The memory in the blocks S, each a record with its size.
SizeSum(S) == SumOver([b \in S |-> b.size], S)

=============================================================================
