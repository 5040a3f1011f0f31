------------------------------ MODULE UpdateLease ------------------------------
(***************************************************************************)
(* What the reconciler, the rollout and the dispatcher promise together    *)
(* about updates, without links, records, ticks or the stages of an        *)
(* update: an update is granted to a node that holds no other one and that *)
(* has not been granted one of that component by this process before; it   *)
(* comes to its end once or is lost; and only its own outcome, when that   *)
(* arrives, frees its node.  A new process knows of nothing.  Fleet is     *)
(* shown to implement this.                                                *)
(***************************************************************************)
EXTENDS Naturals

CONSTANTS Keys,       \* what the control plane knows a node by
          Components

VARIABLES life,   \* which process of the control plane runs
          spent,  \* spent[c]: nodes that this process grants no update of c any more
          held,   \* updates it has granted and knows no outcome of
          live,   \* updates of any process that are on their way or being applied
          ended   \* those whose outcome is on its way back

leaseVars == <<life, spent, held, live, ended>>

Init ==
  /\ life = 0
  /\ spent = [c \in Components |-> {}]
  /\ held = {} /\ live = {} /\ ended = {}

\* Some of what is granted may be lost at once, and other nodes passed over for good.
Grant(new) ==
  /\ \A u \in new : u.node \notin spent[u.comp]
  /\ \A u \in new, v \in held \cup new : u.node = v.node => u = v
  /\ held' = held \cup new
  /\ live \subseteq live' /\ live' \subseteq live \cup new
  /\ \A c \in Components : spent[c] \cup {u.node : u \in {v \in new : v.comp = c}} \subseteq spent'[c]
  /\ UNCHANGED <<life, ended>>

End(u) ==
  /\ u \in live
  /\ live' = live \ {u}
  /\ ended' = ended \cup {u}
  /\ UNCHANGED <<life, spent, held>>

Free(u) ==
  /\ u \in ended
  /\ ended' = ended \ {u}
  /\ held' = held \ {u}
  /\ UNCHANGED <<life, spent, live>>

Lose ==
  /\ live' \subseteq live /\ ended' \subseteq ended
  /\ UNCHANGED <<life, spent, held>>

Forget ==
  /\ life' = life + 1
  /\ spent' = [c \in Components |-> {}]
  /\ held' = {}
  /\ live' \subseteq live /\ ended' \subseteq ended

Next ==
  \/ Lose \/ Forget
  \/ \E u \in live : End(u)
  \/ \E u \in ended : Free(u)
  \/ \E new \in SUBSET [node : Keys, comp : Components, life : {life}] : Grant(new)

Spec == Init /\ [][Next]_leaseVars
===============================================================================
