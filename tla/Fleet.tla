------------------------------- MODULE Fleet --------------------------------
(***************************************************************************)
(* How the control plane drives its nodes: the registry's records, the     *)
(* dispatcher's commands in flight, the reconciler with the update         *)
(* manager's rollout, the reboot manager, and what the supervisors answer. *)
(*                                                                         *)
(* A supervisor's link to the control plane is one session here            *)
(* (ControlChannel models how it is kept).  A version is reduced to which  *)
(* components are at the desired version, the other versions being older.  *)
(* Of the dispatcher's entries only those of the category "update" are     *)
(* kept, since no other category is asked for; an update is told apart by  *)
(* the node and component it is for and by the life of the control plane   *)
(* process that issued it.  Time is not modelled: a timer may fire at any  *)
(* time.  A heartbeat is sent and handled in one step.  No two nodes share *)
(* a name.                                                                 *)
(***************************************************************************)
EXTENDS Naturals, Sequences, FiniteSets

CONSTANTS Nodes,        \* node names
          Desired,      \* the components that have a desired version
          Current,      \* Current[n]: components of n that are at it from the start
          Canary,       \* rollout.canary
          MaxInFlight,  \* rollout.maxInFlight
          UpdatesFail,  \* whether an update may fail on its node
          MaxFaults,    \* bound: links lost, restarts of either process
          MaxOps,       \* bound: commands of the operator
          Window        \* bound: commands under way to a node

Components == {"agent", "control-plane-agent"}

\* What the key of a node is before it has said hello: its record has no nodeName.
Unnamed == "undefined"

ASSUME FleetAssumption ==
  /\ Unnamed \notin Nodes /\ IsFiniteSet(Nodes)
  /\ Desired \subseteq Components
  /\ Current \in [Nodes -> SUBSET Components]
  /\ Canary \in Nat /\ MaxInFlight \in Nat
  /\ UpdatesFail \in BOOLEAN
  /\ MaxFaults \in Nat /\ MaxOps \in Nat /\ Window \in Nat

VARIABLES
  linked,     \* nodes with a session in the registry
  greeting,   \* nodes whose hello is on its way
  status,     \* status[n] in the registry's record of n, "absent" without one
  named,      \* nodes whose record has a nodeName
  known,      \* known[n]: components whose version in the record is the desired one
  life,       \* which process of the control plane runs
  published,  \* components whose desired bundle is registered
  slots,      \* slots[c]: keys of the nodes in the rollout's inFlight set
  inFlight,   \* the dispatcher's commands of category "update"
  pending,    \* nodes in the reboot manager's map
  timers,     \* timers[n, r]: its running timers for n, the one in the map and those that
              \* the map has lost; r: whether n's record was found when they were set
  installed,  \* installed[n]: components whose installed version is the desired one
  booted,     \* booted[n]: what `installed` was when the supervisor started
  draining,   \* nodes whose worker manager is draining
  goingDown,  \* nodes whose operating system is about to reboot
  down,       \* down[n]: commands on their way down
  sent,       \* updates on their way down
  applying,   \* updates a node has accepted
  swapping,   \* updates of a worker that has been stopped for them
  gating,     \* updates whose worker has been started and is being judged
  undoing,    \* updates of a worker that has been stopped to go back
  older,      \* of the updates a node works on, those that found an older version
  reports,    \* results of updates on their way up
  faults, ops   \* how many so far

registry == <<linked, greeting, status, named, known>>
rollout == <<life, published, slots, inFlight>>
reboots == <<pending, timers>>
supervisor == <<installed, booted, draining, goingDown>>
work == <<applying, swapping, gating, undoing, older>>
updates == <<sent, work, reports>>
counters == <<faults, ops>>
vars == <<registry, rollout, reboots, supervisor, down, updates, counters>>

Update == [node : Nodes \cup {Unnamed}, comp : Components, life : 0..MaxFaults]
Terminal == {"succeeded", "failed"}

TypeOK ==
  /\ linked \subseteq Nodes /\ greeting \subseteq linked
  /\ status \in [Nodes -> {"absent", "connected", "ready", "draining",
                           "disconnected", "rebooting", "offline"}]
  /\ named \subseteq Nodes
  /\ known \in [Nodes -> SUBSET Components]
  /\ life \in 0..MaxFaults
  /\ published \subseteq Components
  /\ slots \in [Components -> SUBSET (Nodes \cup {Unnamed})]
  /\ inFlight \subseteq Update
  /\ pending \subseteq Nodes
  /\ timers \in [Nodes \X {"found", "missing"} -> Nat]
  /\ installed \in [Nodes -> SUBSET Components]
  /\ booted \in [Nodes -> SUBSET Components]
  /\ draining \subseteq Nodes
  /\ goingDown \subseteq Nodes
  /\ down \in [Nodes -> Seq({"drain", "undrain", "reboot"})]
  /\ sent \subseteq Update /\ applying \subseteq Update /\ swapping \subseteq Update
  /\ gating \subseteq Update /\ undoing \subseteq Update /\ older \subseteq Update
  /\ reports \subseteq [update : Update, status : {"accepted"} \cup Terminal]
  /\ faults \in Nat /\ ops \in Nat

Init ==
  /\ linked = {} /\ greeting = {} /\ named = {} /\ pending = {} /\ draining = {} /\ goingDown = {}
  /\ status = [n \in Nodes |-> "absent"]
  /\ known = [n \in Nodes |-> {}]
  /\ life = 0
  /\ published = {}
  /\ slots = [c \in Components |-> {}]
  /\ inFlight = {}
  /\ timers = [t \in Nodes \X {"found", "missing"} |-> 0]
  /\ installed = Current /\ booted = Current
  /\ down = [n \in Nodes |-> <<>>]
  /\ sent = {} /\ reports = {}
  /\ applying = {} /\ swapping = {} /\ gating = {} /\ undoing = {} /\ older = {}
  /\ faults = 0 /\ ops = 0

Ours(U) == {u \in U : u.life = life}
-----------------------------------------------------------------------------
(* The link and what comes up on it *)

\* attachSession; the supervisor sends its hello.
Connect(n) ==
  /\ n \notin linked
  /\ linked' = linked \cup {n}
  /\ greeting' = greeting \cup {n}
  /\ status' = [status EXCEPT ![n] = "connected"]
  /\ UNCHANGED <<named, known, rollout, reboots, supervisor, down, updates, counters>>

\* Wrong on purpose: a hello outlives its link.
MutLoseLink(n) ==
  /\ linked' = linked \ {n}
  /\ status' = [status EXCEPT ![n] = IF n \in linked THEN "disconnected" ELSE @]
  /\ down' = [down EXCEPT ![n] = <<>>]
  /\ sent' = {u \in sent : u.node # n}
  /\ reports' \in {reports, {r \in reports : r.update.node # n}}
  /\ UNCHANGED greeting

\* A link of n ends.  What is on its way down is lost; what is on its way up is
\* lost or waits in the outbox.
LoseLink(n) ==
  /\ linked' = linked \ {n}
  /\ greeting' = greeting \ {n}
  /\ status' = [status EXCEPT ![n] = IF n \in linked THEN "disconnected" ELSE @]
  /\ down' = [down EXCEPT ![n] = <<>>]
  /\ sent' = {u \in sent : u.node # n}
  /\ reports' \in {reports, {r \in reports : r.update.node # n}}

\* detachSession.
Disconnect(n) ==
  /\ n \in linked
  /\ faults < MaxFaults
  /\ faults' = faults + 1
  /\ LoseLink(n)
  /\ UNCHANGED <<named, known, rollout, reboots, supervisor, work, ops>>

\* What a search for a record with n's name comes to.
Record(n) == IF n \in named THEN "found" ELSE "missing"

\* handleInbound of a hello: register, then onReconnect, which clears the timer
\* that the map holds (set since n has its nodeName, if it has one).
Hello(n) ==
  /\ n \in greeting
  /\ greeting' = greeting \ {n}
  /\ named' = named \cup {n}
  /\ known' = [known EXCEPT ![n] = booted[n]]
  /\ status' = [status EXCEPT ![n] = "ready"]
  /\ pending' = pending \ {n}
  /\ timers' = IF n \in pending THEN [timers EXCEPT ![<<n, Record(n)>>] = @ - 1] ELSE timers
  /\ UNCHANGED <<linked, rollout, supervisor, down, updates, counters>>

\* Wrong on purpose: a heartbeat does not bring a node back that is written off.
MutHeartbeat(n) ==
  /\ n \in linked
  /\ known' = [known EXCEPT ![n] = booted[n]]
  /\ status' = [status EXCEPT ![n] = IF @ = "offline" THEN @
                                     ELSE IF n \in draining THEN "draining" ELSE "ready"]
  /\ UNCHANGED <<linked, greeting, named, rollout, reboots, supervisor, down, updates,
                 counters>>

\* beat and handleInbound of the heartbeat; one from the outbox comes before the
\* hello.
Heartbeat(n) ==
  /\ n \in linked
  /\ known' = [known EXCEPT ![n] = booted[n]]
  /\ status' = [status EXCEPT ![n] = IF n \in draining THEN "draining" ELSE "ready"]
  /\ UNCHANGED <<linked, greeting, named, rollout, reboots, supervisor, down, updates,
                 counters>>
-----------------------------------------------------------------------------
(* The reconciler *)

Key(n) == IF n \in named THEN n ELSE Unnamed

hasInFlightCommand(k, fl) == \E u \in fl : u.node = k

\* Wrong on purpose: the slots already taken are not counted.
MutBatches(c, needing) ==
  {B \in SUBSET {n \in needing : Key(n) \notin slots[c]} : Cardinality(B) <= Canary}

\* What `pickRolloutBatch` may return: the front of the list, whatever stands
\* there.  Nothing ever records an outcome, so the rollout stays in its canary
\* phase and a slot once taken stays taken.
Batches(c, needing) ==
  LET eligible == {n \in needing : Key(n) \notin slots[c]}
      taken    == Cardinality(slots[c])
      capacity == IF MaxInFlight > taken THEN MaxInFlight - taken ELSE 0
      limit    == IF Canary < capacity THEN Canary ELSE capacity
      size     == Cardinality(eligible)
  IN  {B \in SUBSET eligible : Cardinality(B) = IF size < limit THEN size ELSE limit}

Issued(n, c) == [node |-> Key(n), comp |-> c, life |-> life]

\* Wrong on purpose: an update is sent although another one is in flight.
MutRolls(c, s) ==
  IF ~s.ok \/ c \notin Desired THEN {s}
  ELSE {[ok |-> B \subseteq named /\ (c \in published \/ B = {}),
         taken |-> s.taken \cup {<<c, Key(n)>> : n \in B},
         issued |-> s.issued \cup {Issued(n, c) : n \in B}] :
          B \in Batches(c, {n \in linked : c \notin known[n]})}

\* Of a batch B, the nodes without an update in flight; those among them for
\* which making the command fails (its bundle is not registered) or sending it
\* does (the node has no name, and the entry was made); and what the tick has
\* done when it has taken B's slots and issued commands for S.
Todo(B, s) == {n \in B : ~ hasInFlightCommand(Key(n), inFlight \cup s.issued)}
Stuck(B, c, s) == {n \in Todo(B, s) : n \notin named \/ c \notin published}
After(B, c, s, S, ok) ==
  [ok |-> ok,
   taken |-> s.taken \cup {<<c, Key(n)>> : n \in B},
   issued |-> s.issued \cup {Issued(n, c) : n \in S}]

\* What may become of B: every command is issued, or one fails and ends the tick.
RollsBatch(B, c, s) ==
  IF Stuck(B, c, s) = {} THEN {After(B, c, s, Todo(B, s), TRUE)}
  ELSE UNION {{After(B, c, s, IF c \in published THEN S \cup {n} ELSE S, FALSE) :
                 S \in SUBSET (Todo(B, s) \ Stuck(B, c, s))} : n \in Stuck(B, c, s)}

\* The loop body for component c, from what the tick has done so far (s).
Rolls(c, s) ==
  IF ~s.ok \/ c \notin Desired THEN {s}
  ELSE UNION {RollsBatch(B, c, s) : B \in Batches(c, {n \in linked : c \notin known[n]})}

\* Nodes reported draining are sent undrain, for no drain is ever desired; a
\* draining node without a name ends the tick.
UndrainTargets(ok) ==
  LET drained == {n \in linked : status[n] = "draining"}
  IN  IF ~ok THEN {{}}
      ELSE IF drained \subseteq named THEN {drained} ELSE SUBSET (drained \cap named)

\* reconcileOnce.  Its awaits do not yield to other events.
Tick ==
  /\ \A n \in linked : Len(down[n]) < Window
  /\ \E s1 \in Rolls("control-plane-agent", [ok |-> TRUE, taken |-> {}, issued |-> {}]) :
     \E s2 \in Rolls("agent", s1) :
     \E targets \in UndrainTargets(s2.ok) :
       /\ slots' = [c \in Components |-> slots[c] \cup {k \in Nodes \cup {Unnamed} :
                                                         <<c, k>> \in s2.taken}]
       /\ inFlight' = inFlight \cup s2.issued
       /\ sent' = sent \cup {u \in s2.issued : u.node # Unnamed}
       /\ down' = [n \in Nodes |-> IF n \in targets THEN Append(down[n], "undrain")
                                                    ELSE down[n]]
  /\ UNCHANGED <<registry, life, published, reboots, supervisor, work,
                 reports, counters>>

\* PUT of a bundle at the desired version.
Publish(c) ==
  /\ c \notin published
  /\ published' = published \cup {c}
  /\ UNCHANGED <<registry, life, slots, inFlight, reboots, supervisor, down,
                 updates, counters>>

\* A terminal result ends the command it names, if this process issued it.
onCommandResult(r) ==
  /\ r \in reports
  /\ r.update.node \in linked
  /\ reports' = reports \ {r}
  /\ inFlight' = IF r.status \in Terminal THEN inFlight \ {r.update} ELSE inFlight
  /\ UNCHANGED <<registry, life, published, slots, reboots, supervisor, down,
                 sent, work, counters>>

\* The control plane's process restarts: records are read back from the store,
\* everything else of it and all links are gone.
ControlPlaneRestarts ==
  /\ faults < MaxFaults
  /\ faults' = faults + 1
  /\ life' = life + 1
  /\ linked' = {} /\ greeting' = {}
  /\ status' = [n \in Nodes |-> IF status[n] = "absent" THEN "absent" ELSE "disconnected"]
  /\ published' = {}
  /\ slots' = [c \in Components |-> {}]
  /\ inFlight' = {}
  /\ pending' = {}
  /\ timers' = [t \in Nodes \X {"found", "missing"} |-> 0]
  /\ down' = [n \in Nodes |-> <<>>]
  /\ sent' = {}
  /\ reports' \in {reports, {}}
  /\ UNCHANGED <<named, known, supervisor, work, ops>>
-----------------------------------------------------------------------------
(* Operators: POST /api/nodes/<name>/<verb> *)

\* The command goes to the session that a node of this name has; its record need
\* not have the name.
Ask(n, verb) ==
  /\ ops < MaxOps /\ Len(down[n]) < Window
  /\ n \in linked
  /\ ops' = ops + 1
  /\ down' = [down EXCEPT ![n] = Append(@, verb)]
  /\ UNCHANGED <<linked, greeting, named, known, rollout, supervisor, updates, faults>>

Drain(n) ==
  /\ Ask(n, "drain")
  /\ UNCHANGED <<status, reboots>>

Undrain(n) ==
  /\ Ask(n, "undrain")
  /\ UNCHANGED <<status, reboots>>

\* reboot: a second one replaces the map's entry, and the first timer runs on.
Reboot(n) ==
  /\ Ask(n, "reboot")
  /\ status' = [status EXCEPT ![n] = IF n \in named THEN "rebooting" ELSE @]
  /\ pending' = pending \cup {n}
  /\ timers' = [timers EXCEPT ![<<n, Record(n)>>] = @ + 1]

\* A grace timer of n, the one in the map or a lost one: it deletes the map's entry,
\* and sets the status of the record that was found when the timer was set.
GraceEnds(n) ==
  \E record \in {"found", "missing"} :
    /\ timers[<<n, record>>] > 0
    /\ timers' = [timers EXCEPT ![<<n, record>>] = @ - 1]
    /\ status' = [status EXCEPT ![n] = IF record = "found" THEN "offline" ELSE @]
    /\ pending' = pending \ {n}
    /\ UNCHANGED <<linked, greeting, named, known, rollout, supervisor, down, updates, counters>>
-----------------------------------------------------------------------------
(* The supervisors *)

\* The router is given a command other than an update.
Receive(n) ==
  /\ down[n] # <<>>
  /\ down' = [down EXCEPT ![n] = Tail(@)]
  /\ draining' = CASE Head(down[n]) = "drain"   -> draining \cup {n}
                   [] Head(down[n]) = "undrain" -> draining \ {n}
                   [] OTHER                     -> draining
  /\ goingDown' = IF Head(down[n]) = "reboot" THEN goingDown \cup {n} ELSE goingDown
  /\ UNCHANGED <<registry, rollout, reboots, installed, booted, updates, counters>>

\* Of one command the last result counts; an interim one changes nothing.
Answered(u, st) ==
  {r \in reports : r.update # u} \cup {[update |-> u, status |-> st]}

\* The router is given an update and reports it accepted; applyBundle reads which
\* version is installed.
AcceptUpdate(u) ==
  /\ u \in sent
  /\ sent' = sent \ {u}
  /\ applying' = applying \cup {u}
  /\ older' = IF u.comp \in installed[u.node] THEN older ELSE older \cup {u}
  /\ reports' = Answered(u, "accepted")
  /\ UNCHANGED <<registry, rollout, reboots, supervisor, down, swapping, gating, undoing,
                 counters>>

\* The drain and the stop of the worker.
StopForUpdate(u) ==
  /\ u \in applying /\ u.comp = "agent"
  /\ applying' = applying \ {u}
  /\ swapping' = swapping \cup {u}
  /\ draining' = draining \cup {u.node}
  /\ UNCHANGED <<registry, rollout, reboots, installed, booted, goingDown, down,
                 sent, gating, undoing, older, reports, counters>>

\* swapCurrent, the start of the new worker and the end of the drain.
StartUpdated(u) ==
  /\ u \in swapping
  /\ swapping' = swapping \ {u}
  /\ gating' = gating \cup {u}
  /\ installed' = [installed EXCEPT ![u.node] = @ \cup {u.comp}]
  /\ draining' = draining \ {u.node}
  /\ UNCHANGED <<registry, rollout, reboots, booted, goingDown, down, sent, applying,
                 undoing, older, reports, counters>>

\* The new worker fails the health gate: rollbackTo, the drain and the stop.
GateFails(u) ==
  /\ UpdatesFail
  /\ u \in gating
  /\ gating' = gating \ {u}
  /\ undoing' = undoing \cup {u}
  /\ draining' = draining \cup {u.node}
  /\ UNCHANGED <<registry, rollout, reboots, installed, booted, goingDown, down, sent,
                 applying, swapping, older, reports, counters>>

\* The node is done with u and reports it.
Ends(u, st) ==
  /\ applying' = applying \ {u} /\ swapping' = swapping \ {u}
  /\ gating' = gating \ {u} /\ undoing' = undoing \ {u} /\ older' = older \ {u}
  /\ reports' = Answered(u, st)

\* A supervisor that has swapped its own link does not wait for its restart.
UpdateSucceeds(u) ==
  /\ u \in IF u.comp = "agent" THEN gating ELSE applying
  /\ Ends(u, "succeeded")
  /\ installed' = [installed EXCEPT ![u.node] = @ \cup {u.comp}]
  /\ UNCHANGED <<registry, rollout, reboots, booted, draining, goingDown, down, sent,
                 counters>>

\* The component's version before u is installed.
RolledBack(u) ==
  installed' = [installed EXCEPT ![u.node] = IF u \in older THEN @ \ {u.comp}
                                                            ELSE @ \cup {u.comp}]

\* The bundle cannot be had or a link not be swapped, which leaves a worker that
\* was stopped for it draining, whichever version it was to have; or a rollback
\* is done.
UpdateFails(u) ==
  /\ UpdatesFail
  /\ \/ u \in applying \cup swapping \cup undoing /\ UNCHANGED <<installed, draining>>
     \/ u \in undoing /\ RolledBack(u) /\ draining' = draining \ {u.node}
  /\ Ends(u, "failed")
  /\ UNCHANGED <<registry, rollout, reboots, booted, goingDown, down, sent, counters>>

On(n, U) == {u \in U : u.node = n}

\* What a supervisor that dies leaves installed: of the updates it was at, any may
\* have swapped its link already, forward or back.
Interrupted(n) ==
  LET forward == {u.comp : u \in On(n, swapping \cup {v \in applying : v.comp # "agent"})}
      back == {u.comp : u \in On(n, undoing \cap older)}
  IN  {X \in SUBSET (installed[n] \cup forward) : installed[n] \ back \subseteq X}

\* The supervisor's process starts again: because the system reboots, because it
\* has updated itself, or because it died.  It reports what it finds installed.
SupervisorRestarts(n) ==
  /\ \/ /\ n \in goingDown \/ "control-plane-agent" \in installed[n] \ booted[n]
        /\ UNCHANGED faults
     \/ faults < MaxFaults /\ faults' = faults + 1
  /\ \E found \in Interrupted(n) :
       /\ installed' = [installed EXCEPT ![n] = found]
       /\ booted' = [booted EXCEPT ![n] = found]
  /\ draining' = draining \ {n}
  /\ goingDown' = goingDown \ {n}
  /\ applying' = applying \ On(n, applying)
  /\ swapping' = swapping \ On(n, swapping)
  /\ gating' = gating \ On(n, gating)
  /\ undoing' = undoing \ On(n, undoing)
  /\ older' = older \ On(n, older)
  /\ LoseLink(n)
  /\ UNCHANGED <<named, known, rollout, reboots, ops>>
-----------------------------------------------------------------------------
NodeStep(n) ==
  \/ Connect(n) \/ Disconnect(n) \/ Heartbeat(n) \/ Hello(n)
  \/ Drain(n) \/ Undrain(n) \/ Reboot(n) \/ GraceEnds(n)
  \/ Receive(n) \/ SupervisorRestarts(n)

Working == applying \cup swapping \cup gating \cup undoing

UpdateStep(u) ==
  \/ AcceptUpdate(u) \/ StopForUpdate(u) \/ StartUpdated(u) \/ GateFails(u)
  \/ UpdateSucceeds(u) \/ UpdateFails(u)

Next ==
  \/ Tick
  \/ ControlPlaneRestarts
  \/ \E c \in Components : Publish(c)
  \/ \E r \in reports : onCommandResult(r)
  \/ \E n \in Nodes : NodeStep(n)
  \/ \E u \in sent \cup Working : UpdateStep(u)

Spec == Init /\ [][Next]_vars

\* What the nodes, the network and the timers do of themselves, each only so often.
Progress ==
  \/ \E n \in Nodes : \/ Connect(n) \/ Hello(n) \/ GraceEnds(n)
                       \/ (n \in goingDown /\ SupervisorRestarts(n))
  \/ \E u \in sent \cup Working : UpdateStep(u)
  \/ \E r \in reports : onCommandResult(r)
  \/ \E c \in Components : Publish(c)

\* The intervals of the reconciler and the heartbeats go on; what is sent arrives
\* while its link holds; nothing is under way for ever.
Fairness ==
  /\ WF_vars(Tick) /\ WF_vars(Progress)
  /\ \A n \in Nodes : WF_vars(Heartbeat(n)) /\ WF_vars(Receive(n))

FairSpec == Spec /\ Fairness

-----------------------------------------------------------------------------
(* Properties *)

Unfinished == sent \cup Working

\* An update that is on its way to a node or being applied there is in flight for
\* the process that issued it, however many links were lost (the dispatcher's
\* entry ends with a terminal result only).
UpdateIsTracked == Ours(Unfinished) \subseteq inFlight

\* A control plane process never has two updates under way to one node, of one
\* component or of both (the reconciler's check of what is in flight).
OneUpdatePerNode ==
  \A u, v \in Ours(Unfinished) : u.node = v.node => u = v

\* Of each component a process of the control plane never has more than maxInFlight
\* updates under way, on whatever nodes, whatever was lost on the way: its slots count
\* those too whose link has ended (pickRolloutBatch).  Updates that the process before
\* a restart had granted are not counted, by the code neither.
RolloutIsBounded ==
  \A c \in Components : Cardinality({u \in Ours(Unfinished) : u.comp = c}) <= MaxInFlight

\* An update is a lease on its node (UpdateLease): whatever is lost or restarted, it
\* is granted once in the life of the control plane's process, and no tick, late
\* result or new link frees its node, but its own outcome.
Outcomes == {r.update : r \in {q \in reports : q.status \in Terminal}}
Lease == INSTANCE UpdateLease WITH Keys <- Nodes \cup {Unnamed}, spent <- slots,
                                   held <- inFlight, live <- Unfinished, ended <- Outcomes
LeaseSpec == Lease!Spec

\* When faults and operators' commands have ended, every node comes to be connected,
\* and the registry to say of it what is so, draining or ready, and to go on saying it:
\* no grace timer that runs late or that the map has lost writes a node off for good
\* (reboot-manager.mjs, registry.mjs).  Whether a drain is to be kept it does not say.
StatusIsTrue(n) == status[n] = IF n \in draining THEN "draining" ELSE "ready"
FleetSettles == <>[](\A n \in Nodes : n \in linked /\ StatusIsTrue(n))

\* When no update fails, every component that has a desired version reaches it on
\* every node (update-manager.mjs: "canary passed -> proceed in batches").
RolloutReachesAll == \A n \in Nodes : <>(Desired \subseteq installed[n])
=============================================================================
