--------------------------- MODULE LayoutRegister ---------------------------
(* What ddr_layout.c promises: one place that holds no layout or one that has been accepted,
   which is replaced as a whole and can be read by anybody at any time. *)
CONSTANTS
  Accepted,        \* the layouts that may be put in force
  NoLayout         \* what the place holds at first and after cleanup

VARIABLE inForce

RegisterInit == inForce = NoLayout

Replace == \E l \in Accepted : inForce' = l
Clear   == inForce' = NoLayout

RegisterSpec == RegisterInit /\ [][Replace \/ Clear]_inForce

=============================================================================
