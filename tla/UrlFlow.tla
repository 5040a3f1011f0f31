------------------------------- MODULE UrlFlow -------------------------------
(***************************************************************************)
(* What the run pipeline promises for each URL, without results, jobs or   *)
(* messages: a URL is tested by a fixed set of members; the first stage    *)
(* ends only when every member has answered; it is followed either by the  *)
(* end or by one second stage, which again waits for every member; and     *)
(* the end is never left.  RunOrchestrator is shown to implement this.     *)
(***************************************************************************)
CONSTANTS Urls, Nodes

VARIABLES phase,    \* phase[u]: where the URL stands
          members,  \* members[u]: the nodes that test the URL
          waiting   \* waiting[u]: the members still to answer in this phase

flowVars == <<phase, members, waiting>>

Init ==
  /\ phase = [u \in Urls |-> "absent"]
  /\ members = [u \in Urls |-> {}]
  /\ waiting = [u \in Urls |-> {}]

\* The URLs `us` are accepted together and tested by S.
Accept(us, S) ==
  /\ \A u \in us : phase[u] = "absent"
  /\ phase' = [u \in Urls |-> IF u \in us THEN "first" ELSE phase[u]]
  /\ members' = [u \in Urls |-> IF u \in us THEN S ELSE members[u]]
  /\ waiting' = [u \in Urls |-> IF u \in us THEN S ELSE waiting[u]]

\* The URLs `us` cannot be tested: they end at once.
Block(us, S) ==
  /\ \A u \in us : phase[u] = "absent"
  /\ phase' = [u \in Urls |-> IF u \in us THEN "blocked" ELSE phase[u]]
  /\ members' = [u \in Urls |-> IF u \in us THEN S ELSE members[u]]
  /\ UNCHANGED waiting

\* Member n answers, and others are still awaited.
Answer(u, n) ==
  /\ n \in waiting[u]
  /\ waiting[u] # {n}
  /\ waiting' = [waiting EXCEPT ![u] = @ \ {n}]
  /\ UNCHANGED <<phase, members>>

\* The last answer of the first stage opens the second, for every member.
OpenSecond(u, n) ==
  /\ phase[u] = "first"
  /\ waiting[u] = {n}
  /\ phase' = [phase EXCEPT ![u] = "second"]
  /\ waiting' = [waiting EXCEPT ![u] = members[u]]
  /\ UNCHANGED members

\* The last answer of a stage ends the URL.
Finish(u, n) ==
  /\ phase[u] \in {"first", "second"}
  /\ waiting[u] = {n}
  /\ phase' = [phase EXCEPT ![u] = "done"]
  /\ waiting' = [waiting EXCEPT ![u] = {}]
  /\ UNCHANGED members

Next ==
  \/ \E us \in SUBSET Urls, S \in SUBSET Nodes : Accept(us, S) \/ Block(us, S)
  \/ \E u \in Urls, n \in Nodes : Answer(u, n) \/ OpenSecond(u, n) \/ Finish(u, n)

Spec == Init /\ [][Next]_flowVars
=============================================================================
