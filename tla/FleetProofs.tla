----------------------------- MODULE FleetProofs -----------------------------
(***************************************************************************)
(* Theorems about Fleet, for every set of nodes, every desired version and *)
(* rollout policy, and any number of faults and operators' commands.       *)
(***************************************************************************)
EXTENDS Fleet, FiniteSetTheorems, TLAPS

\* What the restarts of the control plane have counted up.
Counted == life <= faults /\ faults <= MaxFaults

\* An update belongs to a process of the control plane that runs or has run,
\* and what the dispatcher holds and what is on its way down belong to this one.
Lives ==
  /\ \A u \in inFlight \cup sent : u.life = life
  /\ \A u \in Working : u.life <= life
  /\ \A r \in reports : r.update.life <= life

\* An update on its way to a node names one.
Addressed == \A u \in Unfinished : u.node \in Nodes

\* An update is at one place of its way.
Apart == /\ sent \cap Working = {}
         /\ applying \cap (swapping \cup gating \cup undoing) = {}
         /\ swapping \cap (gating \cup undoing) = {}
         /\ gating \cap undoing = {}

\* An update has one result under way; while one is, the dispatcher waits for
\* it; and a terminal one leaves nothing behind.
Reported ==
  /\ \A r, q \in reports : r.update = q.update => r = q
  /\ \A r \in reports : r.update.life = life => r.update \in inFlight
  /\ \A r \in reports : r.status \in Terminal => r.update \notin Unfinished

\* The dispatcher has one update per key, and the rollout has a slot for it.
OnePerKey == \A u, v \in inFlight : u.node = v.node => u = v
Slotted == \A u \in inFlight : u.node \in slots[u.comp]
SlotsBounded == \A c \in Components : Cardinality(slots[c]) <= MaxInFlight

\* The entry that the reboot manager has for a node has a timer that runs.
Timed == \A n \in pending : timers[<<n, Record(n)>>] > 0

IInv ==
  /\ TypeOK
  /\ Timed
  /\ Counted
  /\ Lives
  /\ Addressed
  /\ UpdateIsTracked
  /\ Apart
  /\ Reported
  /\ OnePerKey
  /\ Slotted
  /\ SlotsBounded

-----------------------------------------------------------------------------
(* One component's part of a tick *)

LEMMA KeyType == \A n \in Nodes : Key(n) \in Nodes \cup {Unnamed}
BY DEF Key

LEMMA IssuedType ==
  ASSUME TypeOK, NEW n \in Nodes, NEW c \in Components
  PROVE  /\ Issued(n, c) \in Update
         /\ Issued(n, c).node = Key(n) /\ Issued(n, c).comp = c /\ Issued(n, c).life = life
BY KeyType DEF Issued, Update, TypeOK

\* What a component's part adds: the slots of a batch, and updates for nodes
\* of it that had none and whose keys differ.
Adds(c, s, t, B, S) ==
  /\ t.taken = s.taken \cup {<<c, Key(n)>> : n \in B}
  /\ t.issued = s.issued \cup {Issued(n, c) : n \in S}
  /\ \A n \in S : ~ hasInFlightCommand(Key(n), inFlight \cup s.issued)
  /\ \A m, n \in S : Key(m) = Key(n) => m = n

LEMMA RollsAdd ==
  ASSUME NEW c \in Components, NEW s, NEW t \in Rolls(c, s), TypeOK
  PROVE  \/ t = s
         \/ \E B \in Batches(c, {n \in linked : c \notin known[n]}) :
              \E S \in SUBSET B : Adds(c, s, t, B, S)
<1>1. CASE ~s.ok \/ c \notin Desired
  BY <1>1 DEF Rolls
<1>2. CASE ~(~s.ok \/ c \notin Desired)
  <2>1. PICK B \in Batches(c, {n \in linked : c \notin known[n]}) : t \in RollsBatch(B, c, s)
    BY <1>2 DEF Rolls
  <2>2. B \subseteq Nodes
    BY <2>1 DEF Batches, TypeOK
  <2>3. \E S, ok : /\ S \subseteq Todo(B, s)
                   /\ \A m \in S, n \in S : m \in named \/ n \in named \/ m = n
                   /\ t = After(B, c, s, S, ok)
    <3>1. CASE Stuck(B, c, s) = {}
      <4>1. t = After(B, c, s, Todo(B, s), TRUE)
        BY <2>1, <3>1 DEF RollsBatch
      <4>2. \A m \in Todo(B, s) : m \in named
        BY <3>1 DEF Stuck
      <4> QED BY <4>1, <4>2
    <3>2. CASE Stuck(B, c, s) # {}
      <4>1. PICK n \in Stuck(B, c, s), S \in SUBSET (Todo(B, s) \ Stuck(B, c, s)) :
              t = After(B, c, s, IF c \in published THEN S \cup {n} ELSE S, FALSE)
        BY <2>1, <3>2 DEF RollsBatch
      <4>2. \A m \in S : m \in named
        BY <4>1 DEF Stuck
      <4>3. S \cup {n} \subseteq Todo(B, s)
        BY <4>1 DEF Stuck
      <4>4. CASE c \in published
        BY <4>1, <4>2, <4>3, <4>4
      <4>5. CASE c \notin published
        BY <4>1, <4>2, <4>3, <4>5
      <4> QED BY <4>4, <4>5
    <3> QED BY <3>1, <3>2
  <2>4. PICK S, ok : /\ S \subseteq Todo(B, s)
                     /\ \A m \in S, n \in S : m \in named \/ n \in named \/ m = n
                     /\ t = After(B, c, s, S, ok)
    BY <2>3
  <2>5. S \in SUBSET B
    BY <2>4 DEF Todo
  <2>6. \A m, n \in S : Key(m) = Key(n) => m = n
    BY <2>2, <2>4, <2>5, FleetAssumption DEF Key
  <2>7. Adds(c, s, t, B, S)
    BY <2>4, <2>6 DEF Adds, Todo, After
  <2> QED BY <2>1, <2>5, <2>7
<1> QED BY <1>1, <1>2


\* The keys of a batch, with the slots that are taken already, are no more
\* than may be taken.
LEMMA BatchFits ==
  ASSUME TypeOK, SlotsBounded, NEW c \in Components, NEW X \in SUBSET Nodes,
         NEW B \in Batches(c, X)
  PROVE  Cardinality(slots[c] \cup {Key(n) : n \in B}) <= MaxInFlight
<1> DEFINE K == {Key(n) : n \in B}
           F == [n \in B |-> Key(n)]
<1>1. IsFiniteSet(Nodes \cup {Unnamed})
  BY FS_AddElement, FleetAssumption
<1>2. slots[c] \in SUBSET (Nodes \cup {Unnamed})
  BY DEF TypeOK
<1>3. IsFiniteSet(slots[c]) /\ Cardinality(slots[c]) \in Nat
  BY <1>1, <1>2, FS_Subset, FS_CardinalityType
<1>4. B \in SUBSET Nodes
  BY DEF Batches
<1>5. IsFiniteSet(B) /\ Cardinality(B) \in Nat
  BY <1>4, FS_Subset, FS_CardinalityType, FleetAssumption
<1>6. F \in Surjection(B, K)
  BY DEF Surjection
<1>7. IsFiniteSet(K) /\ Cardinality(K) <= Cardinality(B)
  <2> HIDE DEF K, F
  <2> QED BY <1>5, <1>6, FS_Surjection
<1>8. Cardinality(K) \in Nat
  BY <1>7, FS_CardinalityType
<1>9. Cardinality(slots[c]) + Cardinality(B) <= MaxInFlight
  <2> DEFINE eligible == {n \in X : Key(n) \notin slots[c]}
             taken    == Cardinality(slots[c])
             capacity == IF MaxInFlight > taken THEN MaxInFlight - taken ELSE 0
             limit    == IF Canary < capacity THEN Canary ELSE capacity
             size     == Cardinality(eligible)
  <2>1. Cardinality(B) = IF size < limit THEN size ELSE limit
    BY DEF Batches
  <2>2. eligible \in SUBSET Nodes
    OBVIOUS
  <2>3. size \in Nat
    BY <2>2, FS_Subset, FS_CardinalityType, FleetAssumption
  <2>4. taken <= MaxInFlight /\ taken \in Nat
    BY <1>3 DEF SlotsBounded
  <2> HIDE DEF eligible, size, taken
  <2>5. Cardinality(B) <= capacity
    BY <2>1, <2>3, <2>4, FleetAssumption
  <2> QED BY <2>4, <2>5, <1>5, FleetAssumption DEF taken
<1>10. Cardinality(slots[c] \cup K) = Cardinality(slots[c]) + Cardinality(K) - Cardinality(slots[c] \cap K)
  <2> HIDE DEF K
  <2> QED BY <1>3, <1>7, FS_Union
<1>11. Cardinality(slots[c] \cap K) \in Nat
  <2> HIDE DEF K
  <2>1. slots[c] \cap K \in SUBSET K
    OBVIOUS
  <2> QED BY <2>1, <1>7, FS_Subset, FS_CardinalityType
<1> HIDE DEF K
<1> QED BY <1>3, <1>5, <1>7, <1>8, <1>9, <1>10, <1>11, FleetAssumption DEF K

\* What a tick may have done when it comes to its next component.
TakenBy(c, s) == {k \in Nodes \cup {Unnamed} : <<c, k>> \in s.taken}

SoFar(s) ==
  /\ s.issued \subseteq Update
  /\ \A u \in s.issued : /\ u.life = life
                         /\ ~ hasInFlightCommand(u.node, inFlight)
                         /\ u.node \in TakenBy(u.comp, s) \ slots[u.comp]
  /\ \A u, v \in s.issued : u.node = v.node => u = v
  /\ \A c \in Components : Cardinality(slots[c] \cup TakenBy(c, s)) <= MaxInFlight

LEMMA RollsKeep ==
  ASSUME TypeOK, SlotsBounded, NEW c \in Components, NEW s, SoFar(s), TakenBy(c, s) = {},
         NEW t \in Rolls(c, s)
  PROVE  /\ SoFar(t)
         /\ \A d \in Components \ {c} : TakenBy(d, t) = TakenBy(d, s)
<1>1. CASE t = s
  BY <1>1
<1>2. ASSUME NEW B \in Batches(c, {n \in linked : c \notin known[n]}),
             NEW S \in SUBSET B, Adds(c, s, t, B, S)
      PROVE  /\ SoFar(t)
             /\ \A d \in Components \ {c} : TakenBy(d, t) = TakenBy(d, s)
  <2>1. {n \in linked : c \notin known[n]} \in SUBSET Nodes
    BY DEF TypeOK
  <2>2. B \in SUBSET Nodes
    BY <2>1 DEF Batches
  <2>3. t.taken = s.taken \cup {<<c, Key(n)>> : n \in B}
    BY <1>2 DEF Adds
  <2>4. TakenBy(c, t) = {Key(n) : n \in B}
    BY <2>2, <2>3, KeyType DEF TakenBy
  <2>5. \A d \in Components \ {c} : TakenBy(d, t) = TakenBy(d, s)
    BY <2>3 DEF TakenBy
  <2>6. t.issued = s.issued \cup {Issued(n, c) : n \in S}
    BY <1>2 DEF Adds
  <2>7. t.issued \subseteq Update
    BY <2>2, <2>6, IssuedType DEF SoFar
  <2>0. \A n \in B : Key(n) \notin slots[c]
    BY DEF Batches
  <2>8. ASSUME NEW u \in t.issued
        PROVE  /\ u.life = life
               /\ ~ hasInFlightCommand(u.node, inFlight)
               /\ u.node \in TakenBy(u.comp, t) \ slots[u.comp]
    <3>1. CASE u \in s.issued
      <4>1. u.comp \in Components
        BY <3>1 DEF SoFar, Update
      <4>2. u.node \in TakenBy(u.comp, s) \ slots[u.comp]
        BY <3>1 DEF SoFar
      <4>3. u.comp # c
        BY <4>2
      <4> QED BY <3>1, <4>1, <4>2, <4>3, <2>5 DEF SoFar
    <3>2. CASE u \notin s.issued
      <4>1. PICK n \in S : u = Issued(n, c)
        BY <3>2, <2>6
      <4>2. ~ hasInFlightCommand(Key(n), inFlight \cup s.issued)
        BY <1>2 DEF Adds
      <4>3. u.node = Key(n) /\ u.comp = c /\ u.life = life
        BY <4>1, <2>2, IssuedType
      <4>4. Key(n) \in TakenBy(c, t) \ slots[c]
        BY <2>0, <2>4
      <4>5. ~ hasInFlightCommand(Key(n), inFlight)
        BY <4>2 DEF hasInFlightCommand
      <4> QED BY <4>3, <4>4, <4>5
    <3> QED BY <3>1, <3>2
  <2>9. ASSUME NEW u \in t.issued, NEW v \in t.issued, u.node = v.node
        PROVE  u = v
    <3>1. \A n \in S : /\ \A w \in s.issued : w.node # Key(n)
                       /\ Issued(n, c).node = Key(n)
      BY <1>2, <2>2, IssuedType DEF Adds, hasInFlightCommand
    <3>2. \A m, n \in S : Key(m) = Key(n) => m = n
      BY <1>2 DEF Adds
    <3> QED BY <2>6, <2>9, <3>1, <3>2 DEF SoFar
  <2>10. \A d \in Components : Cardinality(slots[d] \cup TakenBy(d, t)) <= MaxInFlight
    BY <2>1, <2>4, <2>5, BatchFits DEF SoFar
  <2> QED BY <2>5, <2>7, <2>8, <2>9, <2>10 DEF SoFar
<1>3. \/ t = s
      \/ \E B \in Batches(c, {n \in linked : c \notin known[n]}) :
           \E S \in SUBSET B : Adds(c, s, t, B, S)
  BY RollsAdd
<1> QED BY <1>1, <1>2, <1>3


-----------------------------------------------------------------------------
(* A tick as a whole *)

\* Whatever a tick has done, it has done it for one list of slots and updates.
Ticked(s) ==
  /\ SoFar(s)
  /\ slots' = [c \in Components |-> slots[c] \cup TakenBy(c, s)]
  /\ inFlight' = inFlight \cup s.issued
  /\ sent' = sent \cup {u \in s.issued : u.node # Unnamed}

LEMMA TickFacts ==
  ASSUME TypeOK, SlotsBounded, Tick
  PROVE  \E s : Ticked(s)
<1> DEFINE s0 == [ok |-> TRUE, taken |-> {}, issued |-> {}]
<1>1. SoFar(s0) /\ \A c \in Components : TakenBy(c, s0) = {}
  BY DEF SoFar, TakenBy, SlotsBounded
<1>2. PICK s1 \in Rolls("control-plane-agent", s0) : \E s2 \in Rolls("agent", s1) :
        /\ slots' = [c \in Components |-> slots[c] \cup {k \in Nodes \cup {Unnamed} :
                                                          <<c, k>> \in s2.taken}]
        /\ inFlight' = inFlight \cup s2.issued
        /\ sent' = sent \cup {u \in s2.issued : u.node # Unnamed}
  BY DEF Tick
<1>3. SoFar(s1) /\ TakenBy("agent", s1) = {}
  <2>1. "control-plane-agent" \in Components /\ "agent" \in Components \ {"control-plane-agent"}
    BY DEF Components
  <2> HIDE DEF s0
  <2> QED BY <1>1, <1>2, <2>1, RollsKeep
<1>4. PICK s2 \in Rolls("agent", s1) :
        /\ slots' = [c \in Components |-> slots[c] \cup {k \in Nodes \cup {Unnamed} :
                                                          <<c, k>> \in s2.taken}]
        /\ inFlight' = inFlight \cup s2.issued
        /\ sent' = sent \cup {u \in s2.issued : u.node # Unnamed}
  BY <1>2
<1>5. SoFar(s2)
  BY <1>3, <1>4, RollsKeep DEF Components
<1> QED BY <1>4, <1>5 DEF Ticked, TakenBy

-----------------------------------------------------------------------------
(* Types *)

LEMMA InitType == Init => TypeOK
BY FleetAssumption DEF Init, TypeOK, Update

Verbs == {"drain", "undrain", "reboot"}

LEMMA AppendType ==
  ASSUME TypeOK, NEW n \in Nodes, NEW v \in Verbs
  PROVE  Append(down[n], v) \in Seq(Verbs)
BY DEF TypeOK, Verbs

LEMMA LoseLinkType ==
  ASSUME TypeOK, NEW n \in Nodes, LoseLink(n)
  PROVE  /\ linked' \subseteq Nodes /\ greeting' \subseteq linked'
         /\ status' \in [Nodes -> {"absent", "connected", "ready", "draining",
                                   "disconnected", "rebooting", "offline"}]
         /\ down' \in [Nodes -> Seq({"drain", "undrain", "reboot"})]
         /\ sent' \subseteq Update
         /\ reports' \subseteq [update : Update, status : {"accepted"} \cup Terminal]
<1>1. linked' \subseteq Nodes /\ greeting' \subseteq linked'
  BY DEF LoseLink, TypeOK
<1>2. status' \in [Nodes -> {"absent", "connected", "ready", "draining",
                             "disconnected", "rebooting", "offline"}]
  BY DEF LoseLink, TypeOK
<1>3. down' \in [Nodes -> Seq({"drain", "undrain", "reboot"})]
  BY DEF LoseLink, TypeOK
<1>4. sent' \subseteq Update
  BY DEF LoseLink, TypeOK
<1>5. reports' \subseteq [update : Update, status : {"accepted"} \cup Terminal]
  BY DEF LoseLink, TypeOK
<1> QED BY <1>1, <1>2, <1>3, <1>4, <1>5

LEMMA AnsweredType ==
  ASSUME TypeOK, NEW u \in Update, NEW st \in {"accepted"} \cup Terminal
  PROVE  Answered(u, st) \subseteq [update : Update, status : {"accepted"} \cup Terminal]
BY DEF TypeOK, Answered

LEMMA NodeStepType ==
  ASSUME TypeOK, Timed, NEW n \in Nodes, NodeStep(n)
  PROVE  TypeOK'
<1> USE DEF registry, rollout, reboots, supervisor, work, updates, counters
<1>1. CASE Connect(n)
  BY <1>1 DEF Connect, TypeOK
<1>2. CASE Disconnect(n)
  BY <1>2, LoseLinkType DEF Disconnect, TypeOK
<1>3. CASE Heartbeat(n)
  BY <1>3 DEF Heartbeat, TypeOK
<1>4. CASE Hello(n)
  <2>1. timers' \in [Nodes \X {"found", "missing"} -> Nat]
    BY <1>4 DEF Hello, TypeOK, Timed, Record
  <2> QED BY <1>4, <2>1 DEF Hello, TypeOK
<1>5. CASE Drain(n)
  BY <1>5, AppendType DEF Drain, Ask, TypeOK, Verbs
<1>6. CASE Undrain(n)
  BY <1>6, AppendType DEF Undrain, Ask, TypeOK, Verbs
<1>7. CASE Reboot(n)
  <2>1. timers' \in [Nodes \X {"found", "missing"} -> Nat] /\ pending' \subseteq Nodes
    BY <1>7 DEF Reboot, TypeOK, Record
  <2> QED BY <1>7, <2>1, AppendType DEF Reboot, Ask, TypeOK, Verbs
<1>8. CASE GraceEnds(n)
  <2>1. timers' \in [Nodes \X {"found", "missing"} -> Nat] /\ pending' \subseteq Nodes
    BY <1>8 DEF GraceEnds, TypeOK
  <2> QED BY <1>8, <2>1 DEF GraceEnds, TypeOK
<1>9. CASE Receive(n)
  <2>1. down[n] \in Seq({"drain", "undrain", "reboot"}) /\ down[n] # <<>>
    BY <1>9 DEF Receive, TypeOK
  <2>2. Tail(down[n]) \in Seq({"drain", "undrain", "reboot"})
    BY <2>1
  <2>3. down' \in [Nodes -> Seq({"drain", "undrain", "reboot"})]
    BY <1>9, <2>2 DEF Receive, TypeOK
  <2>4. draining' \subseteq Nodes
    <3>1. draining' \in {draining, draining \cup {n}, draining \ {n}}
      BY <1>9, Zenon DEF Receive
    <3> QED BY <3>1 DEF TypeOK
  <2>5. goingDown' \subseteq Nodes
    BY <1>9 DEF Receive, TypeOK
  <2> QED BY <1>9, <2>3, <2>4, <2>5 DEF Receive, TypeOK
<1>10. CASE SupervisorRestarts(n)
  <2>1. faults' \in Nat
    BY <1>10 DEF SupervisorRestarts, TypeOK
  <2>2. /\ installed' \in [Nodes -> SUBSET Components]
        /\ booted' \in [Nodes -> SUBSET Components]
    <3>1. PICK found \in Interrupted(n) : /\ installed' = [installed EXCEPT ![n] = found]
                                          /\ booted' = [booted EXCEPT ![n] = found]
      BY <1>10 DEF SupervisorRestarts
    <3>2. {u.comp : u \in On(n, swapping \cup {v \in applying : v.comp # "agent"})} \subseteq Components
      BY DEF TypeOK, Update, On
    <3>3. found \in SUBSET Components
      BY <3>1, <3>2 DEF Interrupted, TypeOK
    <3> QED BY <3>1, <3>3 DEF TypeOK
  <2>3. draining' \subseteq Nodes /\ goingDown' \subseteq Nodes
    BY <1>10 DEF SupervisorRestarts, TypeOK
  <2>4. /\ applying' \subseteq Update /\ swapping' \subseteq Update
        /\ gating' \subseteq Update /\ undoing' \subseteq Update /\ older' \subseteq Update
    BY <1>10 DEF SupervisorRestarts, TypeOK
  <2> QED BY <1>10, <2>1, <2>2, <2>3, <2>4, LoseLinkType DEF SupervisorRestarts, TypeOK
<1> QED BY <1>1, <1>2, <1>3, <1>4, <1>5, <1>6, <1>7, <1>8, <1>9, <1>10 DEF NodeStep

LEMMA UpdateStepType ==
  ASSUME TypeOK, Addressed, NEW u \in sent \cup Working, UpdateStep(u)
  PROVE  TypeOK'
<1> USE DEF registry, rollout, reboots, supervisor, work, updates, counters
<1>1. u \in Update /\ u.node \in Nodes /\ u.comp \in Components
  BY DEF TypeOK, Update, Addressed, Unfinished, Working
<1>2. CASE AcceptUpdate(u)
  BY <1>1, <1>2, AnsweredType DEF AcceptUpdate, TypeOK
<1>3. CASE StopForUpdate(u)
  BY <1>1, <1>3 DEF StopForUpdate, TypeOK
<1>4. CASE StartUpdated(u)
  <2>1. installed' \in [Nodes -> SUBSET Components] /\ draining' \subseteq Nodes
    BY <1>1, <1>4 DEF StartUpdated, TypeOK
  <2>2. swapping' \subseteq Update /\ gating' \subseteq Update
    BY <1>1, <1>4 DEF StartUpdated, TypeOK
  <2> QED BY <1>4, <2>1, <2>2 DEF StartUpdated, TypeOK
<1>5. CASE GateFails(u)
  BY <1>1, <1>5 DEF GateFails, TypeOK
<1>6. ASSUME NEW st \in Terminal, Ends(u, st)
      PROVE  /\ applying' \subseteq Update /\ swapping' \subseteq Update
             /\ gating' \subseteq Update /\ undoing' \subseteq Update /\ older' \subseteq Update
             /\ reports' \subseteq [update : Update, status : {"accepted"} \cup Terminal]
  BY <1>1, <1>6, AnsweredType DEF Ends, TypeOK
<1>7. CASE UpdateSucceeds(u)
  <2>1. Ends(u, "succeeded") /\ "succeeded" \in Terminal
    BY <1>7 DEF UpdateSucceeds, Terminal
  <2>2. installed' \in [Nodes -> SUBSET Components]
    BY <1>1, <1>7 DEF UpdateSucceeds, TypeOK
  <2> QED BY <1>6, <1>7, <2>1, <2>2 DEF UpdateSucceeds, TypeOK
<1>8. CASE UpdateFails(u)
  <2>1. Ends(u, "failed") /\ "failed" \in Terminal
    BY <1>8 DEF UpdateFails, Terminal
  <2>2. RolledBack(u) => installed' \in [Nodes -> SUBSET Components]
    <3> DEFINE x == IF u \in older THEN installed[u.node] \ {u.comp}
                                   ELSE installed[u.node] \cup {u.comp}
    <3>1. x \in SUBSET Components
      BY <1>1 DEF TypeOK
    <3>2. RolledBack(u) => installed' = [installed EXCEPT ![u.node] = x]
      BY DEF RolledBack
    <3> HIDE DEF x
    <3> QED BY <1>1, <3>1, <3>2 DEF TypeOK
  <2>3. installed' \in [Nodes -> SUBSET Components] /\ draining' \subseteq Nodes
    BY <1>1, <1>8, <2>2 DEF UpdateFails, TypeOK
  <2> QED BY <1>6, <1>8, <2>1, <2>3 DEF UpdateFails, TypeOK
<1> QED BY <1>2, <1>3, <1>4, <1>5, <1>7, <1>8 DEF UpdateStep

LEMMA TypeStep ==
  ASSUME TypeOK, Timed, Counted, Addressed, SlotsBounded, [Next]_vars
  PROVE  TypeOK'
<1> USE DEF registry, rollout, reboots, supervisor, work, updates, counters
<1>1. CASE Tick
  <2>1. PICK s : Ticked(s)
    BY <1>1, TickFacts
  <2>2. inFlight' \subseteq Update /\ sent' \subseteq Update
    BY <2>1 DEF Ticked, SoFar, TypeOK
  <2>3. slots' \in [Components -> SUBSET (Nodes \cup {Unnamed})]
    BY <2>1 DEF Ticked, TakenBy, TypeOK
  <2>4. down' \in [Nodes -> Seq({"drain", "undrain", "reboot"})]
    <3>1. \A n \in Nodes : Append(down[n], "undrain") \in Seq(Verbs)
      BY AppendType DEF Verbs
    <3>2. \E targets : down' = [n \in Nodes |-> IF n \in targets THEN Append(down[n], "undrain")
                                                                ELSE down[n]]
      BY <1>1 DEF Tick
    <3> QED BY <3>1, <3>2 DEF TypeOK, Verbs
  <2> QED BY <1>1, <2>2, <2>3, <2>4 DEF Tick, TypeOK
<1>2. CASE ControlPlaneRestarts
  <2>1. life' \in 0..MaxFaults /\ faults' \in Nat
    BY <1>2, FleetAssumption DEF ControlPlaneRestarts, Counted, TypeOK
  <2>2. status' \in [Nodes -> {"absent", "connected", "ready", "draining",
                               "disconnected", "rebooting", "offline"}]
    BY <1>2 DEF ControlPlaneRestarts, TypeOK
  <2>3. reports' \subseteq [update : Update, status : {"accepted"} \cup Terminal]
    BY <1>2 DEF ControlPlaneRestarts, TypeOK
  <2> QED BY <1>2, <2>1, <2>2, <2>3 DEF ControlPlaneRestarts, TypeOK
<1>3. ASSUME NEW c \in Components, Publish(c)
      PROVE  TypeOK'
  BY <1>3 DEF Publish, TypeOK
<1>4. ASSUME NEW r \in reports, onCommandResult(r)
      PROVE  TypeOK'
  BY <1>4 DEF onCommandResult, TypeOK
<1>5. CASE UNCHANGED vars
  BY <1>5 DEF vars, TypeOK
<1> QED BY <1>1, <1>2, <1>3, <1>4, <1>5, NodeStepType, UpdateStepType DEF Next

\* A timer that has run out or is cleared leaves the map with its entry.
LEMMA TimedStep ==
  ASSUME TypeOK, Timed, [Next]_vars
  PROVE  Timed'
<1> USE DEF Timed
<1>0. ASSUME UNCHANGED <<pending, timers, named>>
      PROVE  Timed'
  BY <1>0 DEF Record
<1>1. ASSUME NEW n \in Nodes, Hello(n)
      PROVE  Timed'
  <2>1. /\ pending' = pending \ {n} /\ named' = named \cup {n}
        /\ timers' = IF n \in pending THEN [timers EXCEPT ![<<n, Record(n)>>] = @ - 1] ELSE timers
    BY <1>1 DEF Hello
  <2>2. ASSUME NEW m \in pending'
        PROVE  timers'[<<m, Record(m)'>>] > 0
    <3>1. m \in pending /\ m # n /\ Record(m)' = Record(m)
      BY <2>1, <2>2 DEF Record
    <3>2. timers'[<<m, Record(m)>>] = timers[<<m, Record(m)>>]
      BY <2>1, <3>1 DEF TypeOK
    <3> QED BY <3>1, <3>2
  <2> QED BY <2>2
<1>2. ASSUME NEW n \in Nodes, Reboot(n)
      PROVE  Timed'
  <2>1. /\ pending' = pending \cup {n} /\ named' = named
        /\ timers' = [timers EXCEPT ![<<n, Record(n)>>] = @ + 1]
    BY <1>2 DEF Reboot, Ask
  <2>2. <<n, Record(n)>> \in Nodes \X {"found", "missing"} /\ timers[<<n, Record(n)>>] \in Nat
    BY DEF TypeOK, Record
  <2> QED BY <2>1, <2>2 DEF TypeOK, Record
<1>3. ASSUME NEW n \in Nodes, GraceEnds(n)
      PROVE  Timed'
  <2>1. PICK record \in {"found", "missing"} : /\ timers' = [timers EXCEPT ![<<n, record>>] = @ - 1]
                                 /\ pending' = pending \ {n} /\ named' = named
    BY <1>3 DEF GraceEnds
  <2> QED BY <2>1 DEF TypeOK, Record
<1>4. CASE ControlPlaneRestarts
  BY <1>4 DEF ControlPlaneRestarts
<1>5. ASSUME NEW n \in Nodes,
             \/ Connect(n) \/ Disconnect(n) \/ Heartbeat(n) \/ Drain(n) \/ Undrain(n)
             \/ Receive(n) \/ SupervisorRestarts(n)
      PROVE  UNCHANGED <<pending, timers, named>>
  BY <1>5 DEF Connect, Disconnect, Heartbeat, Drain, Undrain, Ask, Receive, SupervisorRestarts,
         reboots, registry
<1>6. ASSUME NEW u \in sent \cup Working, UpdateStep(u)
      PROVE  UNCHANGED <<pending, timers, named>>
  BY <1>6 DEF UpdateStep, AcceptUpdate, StopForUpdate, StartUpdated, GateFails, UpdateSucceeds,
         UpdateFails, reboots, registry
<1>7. CASE Tick \/ (\E c \in Components : Publish(c)) \/ (\E r \in reports : onCommandResult(r))
           \/ UNCHANGED vars
  <2>1. UNCHANGED <<pending, timers, named>>
    BY <1>7 DEF Tick, Publish, onCommandResult, vars, reboots, registry
  <2> QED BY <2>1 DEF Record
<1> QED BY <1>0, <1>1, <1>2, <1>3, <1>4, <1>5, <1>6, <1>7 DEF Next, NodeStep

-----------------------------------------------------------------------------
(* The rest of the invariant *)

\* What it is about beside the types.
core == <<life, faults, inFlight, slots, sent, applying, swapping, gating, undoing, reports>>

LEMMA CoreUnchanged ==
  ASSUME IInv, TypeOK', Timed', UNCHANGED core
  PROVE  IInv'
<1> USE DEF core
<1>1. Counted' /\ Lives' /\ Addressed'
  BY DEF IInv, Counted, Lives, Addressed, Unfinished, Working
<1>2. UpdateIsTracked' /\ Apart' /\ OnePerKey' /\ Slotted'
  BY DEF IInv, UpdateIsTracked, Ours, Unfinished, Working, Apart, OnePerKey, Slotted
<1>3. Reported'
  BY DEF IInv, Reported, Unfinished, Working
<1>4. SlotsBounded'
  BY DEF IInv, SlotsBounded
<1> QED BY <1>1, <1>2, <1>3, <1>4 DEF IInv

LEMMA TickInv ==
  ASSUME IInv, TypeOK', Timed', Tick
  PROVE  IInv'
<1>1. PICK s : Ticked(s)
  BY TickFacts DEF IInv
<1>2. UNCHANGED <<life, faults, applying, swapping, gating, undoing, reports>> /\ UNCHANGED Working
  BY DEF Tick, work, counters, registry, reboots, Working
<1>3. \A u \in s.issued : /\ u.life = life /\ u \in Update
                          /\ \A v \in inFlight : v.node # u.node
                          /\ u.node \in TakenBy(u.comp, s)
  BY <1>1 DEF Ticked, SoFar, hasInFlightCommand
<1>4. \A u \in s.issued : u \notin Unfinished /\ \A r \in reports : r.update # u
  BY <1>3 DEF IInv, UpdateIsTracked, Ours, Reported
<1>5. Counted'
  BY <1>2 DEF IInv, Counted
<1>6. Lives' /\ Addressed'
  BY <1>1, <1>2, <1>3 DEF IInv, Lives, Addressed, Unfinished, Working, Ticked, Update
<1>7. UpdateIsTracked'
  BY <1>1, <1>2 DEF IInv, UpdateIsTracked, Ours, Unfinished, Working, Ticked
<1>8. Apart'
  BY <1>1, <1>2, <1>4 DEF IInv, Apart, Unfinished, Working, Ticked
<1>9. Reported'
  BY <1>1, <1>2, <1>4 DEF IInv, Reported, Unfinished, Working, Ticked
<1>10. OnePerKey'
  BY <1>1, <1>3 DEF IInv, OnePerKey, Ticked, SoFar
<1>11. Slotted'
  BY <1>1, <1>3 DEF IInv, Slotted, Ticked, TypeOK, Update
<1>12. SlotsBounded'
  BY <1>1 DEF SlotsBounded, Ticked, SoFar
<1> QED BY <1>5, <1>6, <1>7, <1>8, <1>9, <1>10, <1>11, <1>12 DEF IInv

LEMMA RestartInv ==
  ASSUME IInv, TypeOK', Timed', ControlPlaneRestarts
  PROVE  IInv'
<1> USE DEF ControlPlaneRestarts, supervisor, work
<1>1. Counted'
  BY FleetAssumption DEF IInv, Counted, TypeOK
<1>2. life \in Nat /\ life' = life + 1 /\ sent' = {} /\ inFlight' = {}
  BY DEF IInv, TypeOK
<1>3. \A u \in Working : u \in Update
  BY DEF IInv, TypeOK, Working
<1>4. \A u \in Update : u.life \in Nat
  BY DEF Update
<1>5. \A r \in reports : r.update \in Update
  BY DEF IInv, TypeOK
<1>6. UNCHANGED Working /\ UNCHANGED <<applying, swapping, gating, undoing>> /\ reports' \subseteq reports
  BY DEF Working
<1>7. \A u \in Working : u.life < life'
  BY <1>2, <1>3, <1>4 DEF IInv, Lives, Working
<1>8. \A r \in reports' : r.update.life < life'
  BY <1>2, <1>4, <1>5, <1>6 DEF IInv, Lives, Working
<1>9. Lives'
  BY <1>2, <1>3, <1>4, <1>5, <1>6, <1>7, <1>8 DEF Lives, Working
<1>10. Addressed' /\ Apart'
  BY <1>2, <1>6 DEF IInv, Addressed, Unfinished, Working, Apart
<1>11. UpdateIsTracked'
  BY <1>2, <1>3, <1>4, <1>6, <1>7 DEF UpdateIsTracked, Ours, Unfinished, Working
<1>12. Reported'
  <2>1. \A r \in reports' : r.status \in Terminal => r.update \notin Unfinished'
    BY <1>2, <1>6 DEF IInv, Reported, Unfinished, Working
  <2>2. \A r \in reports' : r.update.life # life'
    BY <1>2, <1>4, <1>5, <1>6, <1>8
  <2> QED BY <2>1, <2>2, <1>6 DEF IInv, Reported
<1>13. OnePerKey' /\ Slotted'
  BY <1>2 DEF OnePerKey, Slotted
<1>14. SlotsBounded'
  BY FS_EmptySet, FleetAssumption DEF SlotsBounded
<1> QED BY <1>1, <1>9, <1>10, <1>11, <1>12, <1>13, <1>14 DEF IInv

LEMMA ResultInv ==
  ASSUME IInv, TypeOK', Timed', NEW r \in reports, onCommandResult(r)
  PROVE  IInv'
<1> USE DEF onCommandResult, registry, reboots, supervisor, work, counters
<1>1. Counted' /\ Lives' /\ Addressed' /\ Apart' /\ SlotsBounded'
  BY DEF IInv, Counted, Lives, Addressed, Unfinished, Working, Apart, SlotsBounded
<1>2. UpdateIsTracked'
  BY DEF IInv, UpdateIsTracked, Ours, Unfinished, Working, Reported
<1>3. Reported'
  BY DEF IInv, Reported, Unfinished, Working
<1>4. OnePerKey' /\ Slotted'
  BY DEF IInv, OnePerKey, Slotted
<1> QED BY <1>1, <1>2, <1>3, <1>4 DEF IInv

\* Losing links only takes away what is under way.
LEMMA LossInv ==
  ASSUME IInv, TypeOK', Timed', Counted', UNCHANGED <<life, inFlight, slots>>,
         sent' \subseteq sent, applying' \subseteq applying, swapping' \subseteq swapping,
         gating' \subseteq gating, undoing' \subseteq undoing,
         reports' \subseteq reports
  PROVE  IInv'
<1>1. Lives' /\ Addressed'
  BY DEF IInv, Lives, Addressed, Unfinished, Working
<1>2. UpdateIsTracked' /\ Apart'
  BY DEF IInv, UpdateIsTracked, Ours, Unfinished, Working, Apart
<1>3. Reported'
  BY DEF IInv, Reported, Unfinished, Working
<1>4. OnePerKey' /\ Slotted' /\ SlotsBounded'
  BY DEF IInv, OnePerKey, Slotted, SlotsBounded
<1> QED BY <1>1, <1>2, <1>3, <1>4 DEF IInv

LEMMA DisconnectInv ==
  ASSUME IInv, TypeOK', Timed', NEW n \in Nodes, Disconnect(n) \/ SupervisorRestarts(n)
  PROVE  IInv'
<1> USE DEF rollout
<1>1. Counted'
  <2>1. faults' = faults \/ (faults < MaxFaults /\ faults' = faults + 1)
    BY DEF Disconnect, SupervisorRestarts
  <2>2. life' = life
    BY DEF Disconnect, SupervisorRestarts
  <2> QED BY <2>1, <2>2, FleetAssumption DEF IInv, Counted, TypeOK
<1>2. UNCHANGED <<life, inFlight, slots>>
  BY DEF Disconnect, SupervisorRestarts
<1>3. sent' \subseteq sent /\ reports' \subseteq reports
  BY DEF Disconnect, SupervisorRestarts, LoseLink
<1>4. /\ applying' \subseteq applying /\ swapping' \subseteq swapping
      /\ gating' \subseteq gating /\ undoing' \subseteq undoing
  BY DEF Disconnect, SupervisorRestarts, work
<1> QED BY <1>1, <1>2, <1>3, <1>4, LossInv

\* A node answers for an update that has not come to its end, and what it then
\* still has of it is not answered for good.
LEMMA AnswerInv ==
  ASSUME IInv, TypeOK', Timed', UNCHANGED <<life, faults, inFlight, slots>>,
         NEW u \in Unfinished, NEW st, reports' = Answered(u, st),
         sent' \subseteq sent, Unfinished' \subseteq Unfinished, Apart',
         st \in Terminal => u \notin Unfinished'
  PROVE  IInv'
<1>1. u.life <= life
  BY DEF IInv, Lives, Unfinished, Working, TypeOK
<1>2. u.life = life => u \in inFlight
  BY DEF IInv, UpdateIsTracked, Ours
<1>3. \A r \in reports' : r \in reports \/ (r.update = u /\ r.status = st)
  BY DEF Answered
<1>4. \A r \in reports', q \in reports' : r.update = q.update => r = q
  BY DEF IInv, Reported, Answered
<1>5. Lives'
  <2>1. Working' \subseteq Unfinished
    BY DEF Unfinished, Working
  <2>2. \A v \in Unfinished : v.life <= life
    BY DEF IInv, Lives, Unfinished, Working, TypeOK
  <2> QED BY <1>1, <1>3, <2>1, <2>2 DEF IInv, Lives, Working
<1>6. Addressed' /\ UpdateIsTracked'
  BY DEF IInv, Addressed, UpdateIsTracked, Ours
<1>7. Reported'
  <2>1. \A r \in reports' : r.update.life = life' => r.update \in inFlight'
    BY <1>2, <1>3 DEF IInv, Reported
  <2>2. \A r \in reports' : r.status \in Terminal => r.update \notin Unfinished'
    BY <1>3 DEF IInv, Reported
  <2> QED BY <1>4, <2>1, <2>2 DEF Reported
<1>8. Counted' /\ OnePerKey' /\ Slotted' /\ SlotsBounded'
  BY DEF IInv, Counted, OnePerKey, Slotted, SlotsBounded
<1> QED BY <1>5, <1>6, <1>7, <1>8 DEF IInv

LEMMA UpdateStepInv ==
  ASSUME IInv, TypeOK', Timed', NEW u \in sent \cup Working, UpdateStep(u)
  PROVE  IInv'
<1> USE DEF rollout, counters
<1>1. u \in Unfinished
  BY DEF Unfinished, Working
<1>2. CASE AcceptUpdate(u)
  <2>1. Apart' /\ Unfinished' = Unfinished /\ sent' \subseteq sent
    BY <1>2 DEF IInv, AcceptUpdate, Apart, Unfinished, Working
  <2>2. "accepted" \notin Terminal
    BY DEF Terminal
  <2>3. reports' = Answered(u, "accepted") /\ UNCHANGED <<life, faults, inFlight, slots>>
    BY <1>2 DEF AcceptUpdate
  <2> QED BY <1>1, <2>1, <2>2, <2>3, AnswerInv
<1>3. CASE StopForUpdate(u) \/ StartUpdated(u) \/ GateFails(u)
  <2>1. Apart' /\ Working' = Working
    BY <1>3 DEF IInv, StopForUpdate, StartUpdated, GateFails, Apart, Working
  <2>2. UNCHANGED <<life, faults, inFlight, slots, sent, reports>>
    BY <1>3 DEF StopForUpdate, StartUpdated, GateFails
  <2>3. Unfinished' = Unfinished
    BY <2>1, <2>2 DEF Unfinished
  <2>4. Counted' /\ Lives' /\ Addressed' /\ UpdateIsTracked'
    BY <2>1, <2>2, <2>3 DEF IInv, Counted, Lives, Addressed, UpdateIsTracked, Ours
  <2>5. Reported' /\ OnePerKey' /\ Slotted' /\ SlotsBounded'
    BY <2>2, <2>3 DEF IInv, Reported, OnePerKey, Slotted, SlotsBounded
  <2> QED BY <2>1, <2>4, <2>5 DEF IInv
<1>4. ASSUME NEW st \in Terminal, Ends(u, st), u \in Working,
             UNCHANGED <<life, faults, inFlight, slots, sent>>
      PROVE  IInv'
  <2>1. Working' = Working \ {u} /\ reports' = Answered(u, st)
    BY <1>4 DEF Ends, Working
  <2>2. Apart'
    BY <1>4 DEF IInv, Ends, Apart, Working
  <2>3. Unfinished' \subseteq Unfinished /\ u \notin Unfinished'
    BY <1>4, <2>1 DEF IInv, Apart, Unfinished
  <2> QED BY <1>1, <1>4, <2>1, <2>2, <2>3, AnswerInv
<1>5. CASE UpdateSucceeds(u) \/ UpdateFails(u)
  <2>1. u \in Working /\ UNCHANGED <<life, faults, inFlight, slots, sent>>
    BY <1>5 DEF UpdateSucceeds, UpdateFails, Working
  <2>2. \E st \in Terminal : Ends(u, st)
    BY <1>5 DEF UpdateSucceeds, UpdateFails, Terminal
  <2> QED BY <1>4, <2>1, <2>2
<1> QED BY <1>2, <1>3, <1>5 DEF UpdateStep

LEMMA NodeStepInv ==
  ASSUME IInv, TypeOK', Timed', NEW n \in Nodes, NodeStep(n)
  PROVE  IInv'
<1> USE DEF core, registry, rollout, reboots, supervisor, work, updates, counters
<1>1. CASE Disconnect(n) \/ SupervisorRestarts(n)
  BY <1>1, DisconnectInv
<1>2. CASE Connect(n) \/ Heartbeat(n) \/ Hello(n) \/ GraceEnds(n) \/ Receive(n)
  <2>1. UNCHANGED core
    BY <1>2 DEF Connect, Heartbeat, Hello, GraceEnds, Receive
  <2> QED BY <2>1, CoreUnchanged
<1>3. CASE Drain(n) \/ Undrain(n) \/ Reboot(n)
  <2>1. UNCHANGED core
    BY <1>3 DEF Drain, Undrain, Reboot, Ask
  <2> QED BY <2>1, CoreUnchanged
<1> QED BY <1>1, <1>2, <1>3 DEF NodeStep

LEMMA InitInv == Init => IInv
<1> SUFFICES ASSUME Init PROVE IInv
  OBVIOUS
<1>1. TypeOK /\ Timed
  BY InitType DEF Init, Timed
<1>2. Counted
  BY FleetAssumption DEF Init, Counted
<1>3. Lives /\ Addressed /\ UpdateIsTracked /\ Apart /\ Reported /\ OnePerKey /\ Slotted
  BY DEF Init, Lives, Addressed, UpdateIsTracked, Ours, Unfinished, Working, Apart, Reported,
         OnePerKey, Slotted
<1>4. SlotsBounded
  BY FS_EmptySet, FleetAssumption DEF Init, SlotsBounded
<1> QED BY <1>1, <1>2, <1>3, <1>4 DEF IInv

LEMMA StepInv ==
  ASSUME IInv, [Next]_vars
  PROVE  IInv'
<1>1. TypeOK' /\ Timed'
  BY TypeStep, TimedStep DEF IInv
<1>2. CASE Tick
  BY <1>1, <1>2, TickInv
<1>3. CASE ControlPlaneRestarts
  BY <1>1, <1>3, RestartInv
<1>4. ASSUME NEW c \in Components, Publish(c)
      PROVE  IInv'
  <2>1. UNCHANGED core
    BY <1>4 DEF Publish, core, work, updates, counters
  <2> QED BY <1>1, <2>1, CoreUnchanged
<1>5. ASSUME NEW r \in reports, onCommandResult(r)
      PROVE  IInv'
  BY <1>1, <1>5, ResultInv
<1>6. CASE UNCHANGED vars
  <2>1. UNCHANGED core
    BY <1>6 DEF vars, core, rollout, work, updates, counters
  <2> QED BY <1>1, <2>1, CoreUnchanged
<1> QED BY <1>1, <1>2, <1>3, <1>4, <1>5, <1>6, NodeStepInv, UpdateStepInv DEF Next

-----------------------------------------------------------------------------
(* Theorems *)

\* The invariant holds of every behaviour: of the registry's records and what is
\* in flight, on its way, being applied and answered, whatever is lost.
THEOREM Invariance == Spec => []IInv
<1>1. IInv /\ [Next]_vars => IInv'
  BY StepInv
<1> QED BY InitInv, <1>1, PTL DEF Spec

\* Every variable keeps its type.
THEOREM TypeCorrect == Spec => []TypeOK
<1>1. IInv => TypeOK
  BY DEF IInv
<1> QED BY Invariance, <1>1, PTL

\* An update that a control plane process sent and that has not come to its end is
\* in flight at the dispatcher of that process, so that hasInFlightCommand is never
\* wrong about a node at work.
THEOREM UpdatesAreTracked == Spec => []UpdateIsTracked
<1>1. IInv => UpdateIsTracked
  BY DEF IInv
<1> QED BY Invariance, <1>1, PTL

\* A control plane process never has two updates under way to one node: the
\* reconciler asks the dispatcher first, and the dispatcher is not wrong.
THEOREM OneUpdate == Spec => []OneUpdatePerNode
<1>1. IInv => OneUpdatePerNode
  BY DEF IInv, UpdateIsTracked, OnePerKey, OneUpdatePerNode, Ours
<1> QED BY Invariance, <1>1, PTL

\* The updates of a component under way are for different nodes that hold a slot.
LEMMA RolloutFits ==
  ASSUME IInv, NEW c \in Components
  PROVE  Cardinality({u \in Ours(Unfinished) : u.comp = c}) <= MaxInFlight
<1> DEFINE U == {u \in Ours(Unfinished) : u.comp = c}
           F == [u \in U |-> u.node]
<1>1. \A u \in U : u \in inFlight /\ u.node \in slots[c]
  BY DEF IInv, UpdateIsTracked, Slotted
<1>2. \A u, v \in U : u.node = v.node => u = v
  BY <1>1 DEF IInv, OnePerKey
<1>3. F \in Injection(U, slots[c])
  <2>1. F \in [U -> slots[c]]
    BY <1>1
  <2>2. IsInjective(F)
    BY <1>2 DEF IsInjective
  <2> QED BY <2>1, <2>2 DEF Injection
<1>4. IsFiniteSet(Nodes \cup {Unnamed})
  BY FS_AddElement, FleetAssumption
<1>5. slots[c] \in SUBSET (Nodes \cup {Unnamed})
  BY DEF IInv, TypeOK
<1>6. IsFiniteSet(slots[c]) /\ Cardinality(slots[c]) \in Nat
  BY <1>4, <1>5, FS_Subset, FS_CardinalityType
<1>7. IsFiniteSet(U) /\ Cardinality(U) <= Cardinality(slots[c])
  <2> HIDE DEF U, F
  <2> QED BY <1>3, <1>6, FS_Injection
<1>8. Cardinality(U) \in Nat
  BY <1>7, FS_CardinalityType
<1>9. Cardinality(slots[c]) <= MaxInFlight
  BY DEF IInv, SlotsBounded
<1> HIDE DEF U
<1>10. Cardinality(U) <= MaxInFlight
  BY <1>6, <1>7, <1>8, <1>9, FleetAssumption
<1> QED BY <1>10 DEF U

\* Of each component at most maxInFlight updates of a control plane process are
\* under way, for every policy and every number of nodes.
THEOREM RolloutBounded == Spec => []RolloutIsBounded
<1>1. IInv => RolloutIsBounded
  BY RolloutFits DEF RolloutIsBounded
<1> QED BY Invariance, <1>1, PTL

-----------------------------------------------------------------------------
(* An update is a lease on its node *)

\* A tick grants what it issues.
LEMMA Grants ==
  ASSUME IInv, Tick
  PROVE  Lease!Next
<1>1. PICK s : Ticked(s)
  BY TickFacts DEF IInv
<1> DEFINE new == s.issued
<1>2. new \in SUBSET [node : Nodes \cup {Unnamed}, comp : Components, life : {life}]
  BY <1>1 DEF Ticked, SoFar, Update
<1>3. \A u \in new : /\ u.comp \in Components
                     /\ u.node \in TakenBy(u.comp, s) \ slots[u.comp]
                     /\ \A v \in inFlight : v.node # u.node
  BY <1>1 DEF Ticked, SoFar, Update, hasInFlightCommand
<1>4. \A u, v \in new : u.node = v.node => u = v
  BY <1>1 DEF Ticked, SoFar
<1>5. inFlight' = inFlight \cup new /\ sent' = sent \cup {u \in new : u.node # Unnamed}
  BY <1>1 DEF Ticked
<1>6. UNCHANGED <<life, work, reports>>
  BY DEF Tick
<1>7. Unfinished \subseteq Unfinished' /\ Unfinished' \subseteq Unfinished \cup new
  BY <1>5, <1>6 DEF Unfinished, Working, work
<1>8. \A c \in Components : slots'[c] = slots[c] \cup TakenBy(c, s)
  BY <1>1 DEF Ticked
<1> HIDE DEF new
<1>9. \A c \in Components :
        slots[c] \cup {u.node : u \in {v \in new : v.comp = c}} \subseteq slots'[c]
  BY <1>3, <1>8
<1>10. UNCHANGED Outcomes
  BY <1>6 DEF Outcomes
<1>11. Lease!Grant(new)
  BY <1>3, <1>4, <1>5, <1>6, <1>7, <1>9, <1>10 DEF Lease!Grant
<1> QED BY <1>2, <1>11 DEF Lease!Next

\* A step that frees no node and grants nothing loses something at most.
LEMMA LosesAtMost ==
  ASSUME UNCHANGED <<life, slots, inFlight>>, Unfinished' \subseteq Unfinished,
         Outcomes' \subseteq Outcomes
  PROVE  Lease!Next
BY DEF Lease!Next, Lease!Lose

LEMMA FewerOutcomes == reports' \subseteq reports => Outcomes' \subseteq Outcomes
BY DEF Outcomes

\* The result of a node: an outcome, or nothing to the lease.
LEMMA Answers ==
  ASSUME IInv, NEW u \in Unfinished, NEW st, reports' = Answered(u, st)
  PROVE  Outcomes' = IF st \in Terminal THEN Outcomes \cup {u} ELSE Outcomes
<1>1. \A r \in reports : r.status \in Terminal => r.update # u
  BY DEF IInv, Reported
<1> DEFINE a == [update |-> u, status |-> st]
<1>2. \A r : r \in reports' <=> (r \in reports /\ r.update # u) \/ r = a
  BY DEF Answered
<1>3. a.update = u /\ a.status = st
  OBVIOUS
<1> HIDE DEF a
<1>4. \A v : v \in Outcomes' <=> \E r \in reports' : r.status \in Terminal /\ v = r.update
  BY DEF Outcomes
<1>5. \A v : v \in Outcomes <=> \E r \in reports : r.status \in Terminal /\ v = r.update
  BY DEF Outcomes
<1>6. \A v : v \in Outcomes' <=> v \in Outcomes \/ (st \in Terminal /\ v = u)
  BY <1>1, <1>2, <1>3, <1>4, <1>5
<1> QED BY <1>6

LEMMA UpdateLeases ==
  ASSUME IInv, NEW u \in sent \cup Working, UpdateStep(u)
  PROVE  Lease!Next
<1> USE DEF rollout
<1>1. u \in Unfinished
  BY DEF Unfinished, Working
<1>2. CASE AcceptUpdate(u)
  <2>1. Unfinished' = Unfinished /\ UNCHANGED <<life, slots, inFlight>>
    BY <1>2 DEF AcceptUpdate, Unfinished, Working
  <2>2. Outcomes' = Outcomes
    BY <1>1, <1>2, Answers DEF AcceptUpdate, Terminal
  <2> QED BY <2>1, <2>2, LosesAtMost
<1>3. CASE StopForUpdate(u) \/ StartUpdated(u) \/ GateFails(u)
  <2>1. Unfinished' = Unfinished /\ UNCHANGED <<life, slots, inFlight, reports>>
    BY <1>3 DEF StopForUpdate, StartUpdated, GateFails, Unfinished, Working
  <2> QED BY <2>1, LosesAtMost, FewerOutcomes
<1>4. CASE UpdateSucceeds(u) \/ UpdateFails(u)
  <2>1. u \in Working /\ UNCHANGED <<life, inFlight, slots, sent>>
    BY <1>4 DEF UpdateSucceeds, UpdateFails, Working
  <2>2. PICK st \in Terminal : Ends(u, st)
    BY <1>4 DEF UpdateSucceeds, UpdateFails, Terminal
  <2>3. Working' = Working \ {u} /\ u \notin sent
    BY <2>1, <2>2 DEF IInv, Apart, Ends, Working
  <2>4. Unfinished' = Unfinished \ {u}
    BY <2>1, <2>3 DEF Unfinished
  <2>5. Outcomes' = Outcomes \cup {u}
    BY <1>1, <2>2, Answers DEF Ends
  <2>6. Lease!End(u)
    BY <1>1, <2>1, <2>4, <2>5 DEF Lease!End
  <2> QED BY <1>1, <2>6 DEF Lease!Next
<1> QED BY <1>2, <1>3, <1>4 DEF UpdateStep

LEMMA ResultLeases ==
  ASSUME IInv, NEW r \in reports, onCommandResult(r)
  PROVE  Lease!Next
<1>1. UNCHANGED <<life, slots>> /\ Unfinished' = Unfinished /\ reports' = reports \ {r}
  BY DEF onCommandResult, work, Unfinished, Working
<1>2. CASE r.status \in Terminal
  <2>1. inFlight' = inFlight \ {r.update}
    BY <1>2 DEF onCommandResult
  <2>2. \A q \in reports : q.update = r.update => q = r
    BY DEF IInv, Reported
  <2>3. Outcomes' = Outcomes \ {r.update}
    BY <1>1, <1>2, <2>2 DEF Outcomes
  <2>4. r.update \in Outcomes
    BY <1>2 DEF Outcomes
  <2>5. Lease!Free(r.update)
    BY <1>1, <2>1, <2>3, <2>4 DEF Lease!Free
  <2> QED BY <2>4, <2>5 DEF Lease!Next
<1>3. CASE r.status \notin Terminal
  <2>1. UNCHANGED inFlight
    BY <1>3 DEF onCommandResult
  <2> QED BY <1>1, <2>1, LosesAtMost, FewerOutcomes
<1> QED BY <1>2, <1>3

LEMMA NodeLeases ==
  ASSUME NEW n \in Nodes, NodeStep(n)
  PROVE  Lease!Next
<1> USE DEF registry, rollout, reboots, supervisor, work, updates, counters
<1>1. CASE Disconnect(n) \/ SupervisorRestarts(n)
  <2>1. UNCHANGED <<life, inFlight, slots>> /\ sent' \subseteq sent /\ reports' \subseteq reports
    BY <1>1 DEF Disconnect, SupervisorRestarts, LoseLink
  <2>2. Working' \subseteq Working
    BY <1>1 DEF Disconnect, SupervisorRestarts, Working
  <2> QED BY <2>1, <2>2, LosesAtMost, FewerOutcomes DEF Unfinished
<1>2. CASE Connect(n) \/ Heartbeat(n) \/ Hello(n) \/ GraceEnds(n) \/ Receive(n)
  <2>1. UNCHANGED core
    BY <1>2 DEF core, Connect, Heartbeat, Hello, GraceEnds, Receive
  <2> QED BY <2>1, LosesAtMost, FewerOutcomes DEF core, Unfinished, Working
<1>3. CASE Drain(n) \/ Undrain(n) \/ Reboot(n)
  <2>1. UNCHANGED core
    BY <1>3 DEF core, Drain, Undrain, Reboot, Ask
  <2> QED BY <2>1, LosesAtMost, FewerOutcomes DEF core, Unfinished, Working
<1> QED BY <1>1, <1>2, <1>3 DEF NodeStep

LEMMA StepLeases ==
  ASSUME IInv, [Next]_vars
  PROVE  [Lease!Next]_(Lease!leaseVars)
<1>1. CASE Tick
  BY <1>1, Grants
<1>2. CASE ControlPlaneRestarts
  <2>1. life' = life + 1 /\ slots' = [c \in Components |-> {}] /\ inFlight' = {} /\ sent' = {}
    BY <1>2 DEF ControlPlaneRestarts
  <2>2. Unfinished' \subseteq Unfinished /\ reports' \subseteq reports
    BY <1>2 DEF ControlPlaneRestarts, work, Unfinished, Working
  <2> QED BY <2>1, <2>2, FewerOutcomes DEF Lease!Next, Lease!Forget
<1>3. ASSUME NEW c \in Components, Publish(c)
      PROVE  Lease!Next
  <2>1. UNCHANGED core
    BY <1>3 DEF Publish, core, work, updates, counters
  <2> QED BY <2>1, LosesAtMost, FewerOutcomes DEF core, Unfinished, Working
<1>4. ASSUME NEW r \in reports, onCommandResult(r)
      PROVE  Lease!Next
  BY <1>4, ResultLeases
<1>5. CASE UNCHANGED vars
  <2>1. UNCHANGED core
    BY <1>5 DEF vars, core, rollout, work, updates, counters
  <2> QED BY <2>1, LosesAtMost, FewerOutcomes DEF core, Unfinished, Working
<1> QED BY <1>1, <1>2, <1>3, <1>4, <1>5, NodeLeases, UpdateLeases DEF Next

\* Registry, reconciler, rollout, dispatcher and supervisors implement UpdateLease:
\* for every set of nodes and every policy, an update is granted to a node once in
\* a life of the control plane's process, alone, and nothing but its own outcome
\* frees the node, whatever is lost or restarted.
THEOREM ImplementsUpdateLease == Spec => LeaseSpec
<1>1. Init => Lease!Init
  BY DEF Init, Lease!Init, Unfinished, Working, Outcomes
<1>2. IInv /\ [Next]_vars => [Lease!Next]_(Lease!leaseVars)
  BY StepLeases
<1> QED BY <1>1, <1>2, Invariance, PTL DEF Spec, LeaseSpec, Lease!Spec
=============================================================================
