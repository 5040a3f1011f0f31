---------------------------- MODULE NodeSelection ----------------------------
(***************************************************************************)
(* Which nodes a URL is tested on (control-plane/scheduler/                *)
(* node-selection.mjs).  A policy gives each configured node type a        *)
(* quorum, a mode and whether the type is required.  The nodes of one type *)
(* are taken from the front of the registry's listing; which ones stand    *)
(* there is not modelled, so every subset of the right size is possible.   *)
(***************************************************************************)
EXTENDS Naturals, FiniteSets, Classify

CONSTANTS Nodes,   \* node names
          TypeOf,  \* the network arm of each node
          Policy   \* configured type -> [quorum, mode, required]

ASSUME SelectionAssumption ==
  /\ TypeOf \in [Nodes -> NodeTypes]
  /\ DOMAIN Policy \subseteq NodeTypes
  /\ \A t \in DOMAIN Policy :
       /\ Policy[t].quorum \in Nat
       /\ Policy[t].mode \in {"all", "quorum"}
       /\ Policy[t].required \in BOOLEAN

OfType(S, t) == {n \in S : TypeOf[n] = t}

\* How many of `available` nodes are taken: the slice bound of selectForUrl.
PickSize(policy, available) ==
  IF policy.mode = "all" \/ available < policy.quorum THEN available
                                                      ELSE policy.quorum

Selections(eligible) ==
  {S \in SUBSET eligible :
     \A t \in NodeTypes :
       IF t \in DOMAIN Policy
       THEN Cardinality(OfType(S, t)) =
              PickSize(Policy[t], Cardinality(OfType(eligible, t)))
       ELSE OfType(S, t) = {}}

\* Wrong on purpose: nodes of other types count, too.
MutCanDispatch(S) ==
  \A t \in DOMAIN Policy : Policy[t].required => Cardinality(S) >= Policy[t].quorum

CanDispatch(S) ==
  \A t \in DOMAIN Policy :
    Policy[t].required => Cardinality(OfType(S, t)) >= Policy[t].quorum
=============================================================================
