--------------------------- MODULE MCKernelModule ---------------------------
(* DdrSystem with two processes, one program, two configurations and a block that lies in no
   region. *)
EXTENDS DdrSystem, TLC

\* Two configurations that differ in everything.
MCConfigs == {[s \in Settings |-> v] : v \in Values}

Interchangeable == Permutations(Direct)

=============================================================================
