------------------------------- MODULE MCFleet -------------------------------
(***************************************************************************)
(* Small instances of Fleet: the first node needs both components, the     *)
(* second the supervisor only.                                             *)
(***************************************************************************)
EXTENDS Fleet

CONSTANTS n1, n2

TwoNodes == {n1, n2}
OneNode == {n1}
SomeCurrent == [n \in Nodes |-> IF n = n1 THEN {} ELSE {"agent"}]
=============================================================================
