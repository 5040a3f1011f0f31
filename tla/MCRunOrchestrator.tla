-------------------------- MODULE MCRunOrchestrator --------------------------
(***************************************************************************)
(* A small fleet for RunOrchestrator and the reports on it: one node of a  *)
(* required type, one GSA node, and the selection policy of config.mjs     *)
(* restricted to them.                                                     *)
(***************************************************************************)
EXTENDS Report

CONSTANTS d1, g1

MCTypeOf == [n \in Nodes |-> IF n = d1 THEN "azure_direct" ELSE "gsa_remotenet"]

\* One required type, one optional type of which every node is taken.
MCPolicy ==
  [t \in {"azure_direct", "gsa_remotenet"} |->
     IF t = "azure_direct"
     THEN [quorum |-> 1, mode |-> "quorum", required |-> TRUE]
     ELSE [quorum |-> 1, mode |-> "all", required |-> FALSE]]
=============================================================================
