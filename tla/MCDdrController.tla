-------------------------- MODULE MCDdrController --------------------------
(* DdrController with two processes and room for two handlers too many. *)
EXTENDS DdrController, TLC

Interchangeable == Permutations(Users)

=============================================================================
