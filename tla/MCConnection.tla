---------------------------- MODULE MCConnection ----------------------------
(* Bounds for the runs of Connection. *)
EXTENDS Connection, TLC

Symmetry == Permutations(Conns) \cup Permutations(Devices)
=============================================================================
