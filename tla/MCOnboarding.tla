---------------------------- MODULE MCOnboarding -----------------------------
(***************************************************************************)
(* Small instances of Onboarding: machines that enroll nodes of their own  *)
(* with tokens for any node.                                               *)
(***************************************************************************)
EXTENDS Onboarding, TLC

CONSTANTS m1, m2, n1, n2, t1, t2

BothTables == {"enrollments", "credentials"}
EmptyTables == [t \in BothTables |-> IF t = "enrollments" THEN [k \in Tokens |-> "none"]
                                                           ELSE [n \in NodeIds |-> 0]]
OwnNode == [m \in Machines |-> IF m = m1 THEN n1 ELSE n2]
FaultsOf == [d \in Drivers |-> IF d = "sqlite" THEN 2 ELSE 1]
AnyNode == [t \in Tokens |-> NodeIds]

\* Nothing tells the tokens apart.
EitherToken == Permutations(Tokens)
=============================================================================
