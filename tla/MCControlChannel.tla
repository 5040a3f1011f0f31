--------------------------- MODULE MCControlChannel ---------------------------
(***************************************************************************)
(* Small instances of ControlChannel: the connections are interchangeable. *)
(***************************************************************************)
EXTENDS ControlChannel, TLC

Symmetry == Permutations(Conns)
=============================================================================
