---------------------------- MODULE MCDdrDriver ----------------------------
(* DdrDriver with two processes, two places for blocks and all four callbacks.  A block
   leaves no room, by used_memory, for another one. *)
EXTENDS DdrDriver

=============================================================================
