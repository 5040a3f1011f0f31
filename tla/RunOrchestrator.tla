--------------------------- MODULE RunOrchestrator ---------------------------
(***************************************************************************)
(* The run pipeline (control-plane/scheduler/run-orchestrator.mjs): a run  *)
(* holds URLs; a queued URL selects nodes and dispatches one job per node  *)
(* for the initial test; their answers arrive in any order and possibly    *)
(* more than once; if one of them failed, a second job per node runs the   *)
(* browser validation; then the URL is classified, its evidence packet is  *)
(* generated and its run completes with its last URL.                      *)
(*                                                                         *)
(* The control plane is one event loop.  What a handler leaves behind as   *)
(* microtasks (the sends of dispatchStage, the packet of finalize) runs    *)
(* before the next event is handled: `sendq` and `packetq` hold those, and *)
(* every event's action waits for Drained.  The agents, and the channel to *)
(* them, are the environment: an agent answers a delivered job at most     *)
(* once, and its answer may be handled never, once or several times (the   *)
(* long-poll transport repeats a message whose acknowledgement is lost).   *)
(***************************************************************************)
EXTENDS NodeSelection

CONSTANTS Runs, Urls

Stages == {"initial_test", "browser_validation"}
Job == Urls \X Nodes \X Stages

\* The states of maybeCompleteRun's `terminal` set that are ever assigned.
Terminal == {"completed", "blocked"}

VARIABLES
  live,            \* nodes with a session in the registry
  run,             \* run[r]: "none" until created, then the run's status
  runOf,           \* runOf[u]: the runs whose urlIds hold u (at most one)
  status,          \* status[u]: "absent" until queued, then the URL's status
  selected,        \* selected[u]: the URL's selectedNodes
  classification,  \* classification[u]
  results,         \* results[job]: the bucket entry, or "missing"
  sendq,           \* jobs whose sendCommand is a pending microtask
  delivered,       \* jobs handed to the transport
  answers,         \* <<job, outcome>>: answers the agents have sent
  packetq,         \* URLs whose packet generation is a pending microtask
  packet           \* packet[u]: the persisted results, or NoPacket

vars == <<live, run, runOf, status, selected, classification, results,
          sendq, delivered, answers, packetq, packet>>

NoPacket == <<>>
Evidence == [Nodes \X Stages -> Outcome \cup {"missing"}]

TypeOK ==
  /\ live \subseteq Nodes
  /\ run \in [Runs -> {"none", "running", "completed"}]
  /\ runOf \in [Urls -> SUBSET Runs]
  /\ status \in [Urls -> {"absent", "blocked", "initial_tests_running",
                          "browser_validation_running", "completed"}]
  /\ selected \in [Urls -> SUBSET Nodes]
  /\ classification \in [Urls -> Classifications]
  /\ results \in [Job -> Outcome \cup {"missing"}]
  /\ sendq \subseteq Job
  /\ delivered \subseteq Job
  /\ answers \subseteq Job \X Outcome
  /\ packetq \subseteq Urls
  /\ packet \in [Urls -> Evidence \cup {NoPacket}]

Init ==
  /\ live = {}
  /\ run = [r \in Runs |-> "none"]
  /\ runOf = [u \in Urls |-> {}]
  /\ status = [u \in Urls |-> "absent"]
  /\ selected = [u \in Urls |-> {}]
  /\ classification = [u \in Urls |-> "pending"]
  /\ results = [j \in Job |-> "missing"]
  /\ sendq = {}
  /\ delivered = {}
  /\ answers = {}
  /\ packetq = {}
  /\ packet = [u \in Urls |-> NoPacket]

Drained == sendq = {} /\ packetq = {}
-----------------------------------------------------------------------------
(* Helpers *)

\* Wrong on purpose (each Mut definition is a slip that some property of this
\* module must notice when it stands in for the definition after it): the
\* parts of the job id in another order.
MutStageJobs(us, S, stage) == us \X {stage} \X S

\* dispatchStage: one job per selected node.
StageJobs(us, S, stage) == us \X S \X {stage}

\* Wrong on purpose: `some` where the code says `every`.
MutStageDone(u, stage, res) == \E n \in selected[u] : res[<<u, n, stage>>] # "missing"

StageDone(u, stage, res) == \A n \in selected[u] : res[<<u, n, stage>>] # "missing"

AnyNotOk(u, res) == \E n \in selected[u] : res[<<u, n, "initial_test">>] = "fail"

\* The condition of maybeCompleteRun, given the URLs' statuses and their runs.
AllDone(r, sts, ofs) ==
  LET urlIds == {u \in Urls : r \in ofs[u]}
  IN  urlIds # {} /\ \A u \in urlIds : sts[u] \in Terminal

\* The answer finalize takes for a node: browser validation before initial test.
Effective(u, n, res) ==
  IF res[<<u, n, "browser_validation">>] # "missing"
  THEN res[<<u, n, "browser_validation">>]
  ELSE res[<<u, n, "initial_test">>]

Arms(u, res) ==
  [t \in NodeTypes |->
     armStatus({Effective(u, n, res) : n \in OfType(selected[u], t)} \ {"missing"})]

Verdict(u, res) == classify(Arms(u, res))
-----------------------------------------------------------------------------
(* advance: what a newly recorded result leads to.  `q` holds the sends    *)
(* that remain once the step at hand has taken its own.                    *)

Stay(u, res, q) ==
  /\ \/ status[u] = "completed"
     \/ ~StageDone(u, "initial_test", res)
     \/ status[u] = "browser_validation_running" /\ ~StageDone(u, "browser_validation", res)
  /\ sendq' = q
  /\ UNCHANGED <<status, classification, run, packetq>>

\* Wrong on purpose: the second stage opens with the first failed answer.
MutStartEarly(u, res, q) ==
  /\ status[u] = "initial_tests_running"
  /\ AnyNotOk(u, res)
  /\ status' = [status EXCEPT ![u] = "browser_validation_running"]
  /\ sendq' = q \cup StageJobs({u}, selected[u], "browser_validation")
  /\ UNCHANGED <<classification, run, packetq>>

\* Wrong on purpose: every answer of the first stage opens the second again.
MutStartAgain(u, res, q) ==
  /\ status[u] # "completed"
  /\ StageDone(u, "initial_test", res)
  /\ AnyNotOk(u, res)
  /\ status' = [status EXCEPT ![u] = "browser_validation_running"]
  /\ sendq' = q \cup StageJobs({u}, selected[u], "browser_validation")
  /\ UNCHANGED <<classification, run, packetq>>

\* Wrong on purpose: only the nodes that failed are asked to validate.
MutStartFailedOnly(u, res, q) ==
  /\ status[u] = "initial_tests_running"
  /\ StageDone(u, "initial_test", res)
  /\ AnyNotOk(u, res)
  /\ status' = [status EXCEPT ![u] = "browser_validation_running"]
  /\ sendq' = q \cup StageJobs({u}, {n \in selected[u] : res[<<u, n, "initial_test">>] = "fail"},
                               "browser_validation")
  /\ UNCHANGED <<classification, run, packetq>>

StartBrowserValidation(u, res, q) ==
  /\ status[u] = "initial_tests_running"
  /\ StageDone(u, "initial_test", res)
  /\ AnyNotOk(u, res)
  /\ status' = [status EXCEPT ![u] = "browser_validation_running"]
  /\ sendq' = q \cup StageJobs({u}, selected[u], "browser_validation")
  /\ UNCHANGED <<classification, run, packetq>>

\* Wrong on purpose: the wait for the browser validations is gone.
MutFinalizeEarly(u, res, q) ==
  /\ StageDone(u, "initial_test", res)
  /\ \/ status[u] = "initial_tests_running" /\ ~AnyNotOk(u, res)
     \/ status[u] = "browser_validation_running"
  /\ status' = [status EXCEPT ![u] = "completed"]
  /\ classification' = [classification EXCEPT ![u] = Verdict(u, res)]
  /\ packetq' = packetq \cup {u}
  /\ run' = [r \in Runs |-> IF r \in runOf[u] /\ AllDone(r, status', runOf)
                           THEN "completed" ELSE run[r]]
  /\ sendq' = q

\* Wrong on purpose: the run is not settled with the URL.
MutFinalizeRunLeft(u, res, q) ==
  /\ StageDone(u, "initial_test", res)
  /\ \/ status[u] = "initial_tests_running" /\ ~AnyNotOk(u, res)
     \/ status[u] = "browser_validation_running" /\ StageDone(u, "browser_validation", res)
  /\ status' = [status EXCEPT ![u] = "completed"]
  /\ classification' = [classification EXCEPT ![u] = Verdict(u, res)]
  /\ packetq' = packetq \cup {u}
  /\ sendq' = q
  /\ UNCHANGED run

finalize(u, res, q) ==
  /\ StageDone(u, "initial_test", res)
  /\ \/ status[u] = "initial_tests_running" /\ ~AnyNotOk(u, res)
     \/ status[u] = "browser_validation_running" /\ StageDone(u, "browser_validation", res)
  /\ status' = [status EXCEPT ![u] = "completed"]
  /\ classification' = [classification EXCEPT ![u] = Verdict(u, res)]
  /\ packetq' = packetq \cup {u}
  /\ run' = [r \in Runs |-> IF r \in runOf[u] /\ AllDone(r, status', runOf)
                       THEN "completed" ELSE run[r]]
  /\ sendq' = q

recordResult(j, outcome, q) ==
  LET res == [results EXCEPT ![j] = outcome]
  IN  /\ results' = res
      /\ \/ Stay(j[1], res, q)
         \/ StartBrowserValidation(j[1], res, q)
         \/ finalize(j[1], res, q)
-----------------------------------------------------------------------------
(* Operator requests *)

\* The URLs `us` enter run r with the nodes that selectForUrl picks now.
Enqueue(r, us, S) ==
  /\ us \subseteq {u \in Urls : status[u] = "absent"}
  /\ runOf' = [u \in Urls |-> IF u \in us THEN {r} ELSE runOf[u]]
  /\ selected' = [u \in Urls |-> IF u \in us THEN S ELSE selected[u]]
  /\ status' = [u \in Urls |-> IF u \notin us THEN status[u]
                               ELSE IF CanDispatch(S) THEN "initial_tests_running"
                                                      ELSE "blocked"]
  /\ classification' = [u \in Urls |-> IF u \notin us THEN classification[u]
                                       ELSE IF CanDispatch(S) THEN "pending"
                                                              ELSE "inconclusive"]
  /\ sendq' = IF CanDispatch(S) THEN StageJobs(us, S, "initial_test") ELSE {}
  /\ UNCHANGED <<live, results, delivered, answers, packetq, packet>>

\* POST /api/runs: all the URLs are queued in one step, then the run is
\* settled if they all were blocked.  A URL that normalizeUrl rejects ends
\* the request with an error: the URLs before it stay, and the last call,
\* maybeCompleteRun, is not reached.
createRun(r, us, S, rejected) ==
  /\ Drained
  /\ run[r] = "none"
  /\ Enqueue(r, us, S)
  /\ run' = [run EXCEPT ![r] = IF ~rejected /\ us # {} /\ ~CanDispatch(S)
                               THEN "completed" ELSE "running"]

\* Wrong on purpose: a completed run is not re-opened.
MutQueueUrl(r, u, S) ==
  /\ Drained
  /\ run[r] # "none"
  /\ Enqueue(r, {u}, S)
  /\ run' = [run EXCEPT ![r] = IF AllDone(r, status', runOf') THEN "completed" ELSE @]

\* POST /api/runs/:id/urls: a completed run is running again.
queueUrl(r, u, S) ==
  /\ Drained
  /\ run[r] # "none"
  /\ Enqueue(r, {u}, S)
  /\ run' = [run EXCEPT ![r] =
               IF AllDone(r, status', runOf') THEN "completed" ELSE "running"]

\* The same with a URL that normalizeUrl rejects: the run was re-opened first.
queueRejectedUrl(r) ==
  /\ Drained
  /\ run[r] # "none"
  /\ run' = [run EXCEPT ![r] = "running"]
  /\ UNCHANGED <<live, runOf, status, selected, classification, results,
                 sendq, delivered, answers, packetq, packet>>
-----------------------------------------------------------------------------
(* Microtasks *)

\* sendCommand succeeds when the node has a session ...
SendJob(j) ==
  /\ j \in sendq
  /\ j[2] \in live
  /\ sendq' = sendq \ {j}
  /\ delivered' = delivered \cup {j}
  /\ UNCHANGED <<live, run, runOf, status, selected, classification, results,
                 answers, packetq, packet>>

\* ... and is recorded as a failed result (DISPATCH_FAILED) when it has none.
SendFails(j) ==
  /\ j \in sendq
  /\ j[2] \notin live
  /\ recordResult(j, "fail", sendq \ {j})
  /\ UNCHANGED <<live, runOf, selected, delivered, answers, packet>>

\* sitePacket.generate: the manifest is persisted, or the write fails and the
\* error is swallowed.
GeneratePacket(u) ==
  /\ u \in packetq
  /\ packetq' = packetq \ {u}
  /\ \/ packet' = [packet EXCEPT ![u] =
                     [x \in Nodes \X Stages |-> results[<<u, x[1], x[2]>>]]]
     \/ UNCHANGED packet
  /\ UNCHANGED <<live, run, runOf, status, selected, classification, results,
                 sendq, delivered, answers>>
-----------------------------------------------------------------------------
(* Agents and the control channel *)

\* A `result` message is handled; it may be handled again.
onResult(j, outcome) ==
  /\ Drained
  /\ <<j, outcome>> \in answers
  /\ recordResult(j, outcome, {})
  /\ UNCHANGED <<live, runOf, selected, delivered, answers, packet>>

\* The agent of a delivered job answers it.
AgentAnswers(j, outcome) ==
  /\ Drained
  /\ j \in delivered
  /\ \A o \in Outcome : <<j, o>> \notin answers
  /\ answers' = answers \cup {<<j, outcome>>}
  /\ UNCHANGED <<live, run, runOf, status, selected, classification, results,
                 sendq, delivered, packetq, packet>>

\* attachSession and detachSession.
SessionChanges(n) ==
  /\ Drained
  /\ live' = IF n \in live THEN live \ {n} ELSE live \cup {n}
  /\ UNCHANGED <<run, runOf, status, selected, classification, results,
                 sendq, delivered, answers, packetq, packet>>

Microtask ==
  \/ \E j \in sendq : SendJob(j) \/ SendFails(j)
  \/ \E u \in packetq : GeneratePacket(u)

Event ==
  \/ \E r \in Runs, eligible \in SUBSET live :
       \E S \in Selections(eligible) :
         \/ \E us \in SUBSET Urls, rejected \in BOOLEAN : createRun(r, us, S, rejected)
         \/ \E u \in Urls : queueUrl(r, u, S)
  \/ \E r \in Runs : queueRejectedUrl(r)
  \/ \E a \in answers : onResult(a[1], a[2])
  \/ \E j \in delivered, o \in Outcome : AgentAnswers(j, o)
  \/ \E n \in Nodes : SessionChanges(n)

Next == Microtask \/ Event

\* The event loop runs its microtasks: that much is certain.  Whether agents
\* answer and whether their answers arrive is not.
Spec == Init /\ [][Next]_vars /\ WF_vars(Microtask)
-----------------------------------------------------------------------------
(* Properties *)

\* All the answers a verdict asks for: the initial one of every selected node
\* and, if one of them failed, the browser validation of every one.
Concluded(u, res) ==
  /\ StageDone(u, "initial_test", res)
  /\ AnyNotOk(u, res) => StageDone(u, "browser_validation", res)

\* lifecycle.mjs:3-5, "never complete until all required selected-node results
\* exist, comparison is done, and the evidence packet is generated", the part
\* of it that advance keeps: a completed URL has all its answers.  The part on
\* the packet is CompletedHasPacket, at the end.
CompletionGate == \A u \in Urls : status[u] = "completed" => Concluded(u, results)

\* Browser validation is dispatched only once every initial test has answered
\* and one of them failed (the guard of advance), whatever order, repetition
\* or dispatch failures the answers came with.
BrowserValidationGate ==
  \A j \in sendq \cup delivered : j[3] = "browser_validation" =>
    StageDone(j[1], "initial_test", results) /\ AnyNotOk(j[1], results)

\* No job is sent to its agent twice: a repeated answer never re-dispatches
\* a stage, and a job whose answer is recorded is not waiting to be sent.
JobSentOnce ==
  \A j \in sendq : j \notin delivered /\ results[j] = "missing"

\* The classification of a completed URL is the one its recorded answers give
\* now: no answer handled after the verdict (finalize runs once) changes what
\* the verdict rests on.
VerdictMatchesEvidence ==
  \A u \in Urls : status[u] = "completed" => classification[u] = Verdict(u, results)

\* site-packet.mjs:3, "immutable packet": a packet is generated only when all
\* the answers of its URL are there, and holds exactly the ones on record, also
\* after further messages have been handled.
PacketIsFinalEvidence ==
  \A u \in Urls : packet[u] # NoPacket =>
    /\ Concluded(u, results)
    /\ \A n \in Nodes, s \in Stages : packet[u][<<n, s>>] = results[<<u, n, s>>]

\* A URL is reported healthy only if it was tested directly and through at
\* least one GSA arm, and every node of those arms ended with an ok answer:
\* what armStatus, combineGsa and classify make of it together.
HealthyIsEarned ==
  \A u \in Urls : classification[u] = "healthy" =>
    LET compared == {n \in selected[u] :
                       TypeOf[n] \in {"azure_direct", "gsa_remotenet", "gsa_client"}}
    IN  /\ \A n \in compared : Effective(u, n, results) = "ok"
        /\ {TypeOf[n] : n \in compared} \notin
             {{}, {"azure_direct"}, {"gsa_remotenet"}, {"gsa_client"},
              {"gsa_remotenet", "gsa_client"}}

\* A verdict rests on answers of at least as many nodes of every required type as
\* its quorum asks for: the gate of selectForUrl is taken long before the verdict,
\* and no later answer, failed send or lost session takes a node out of it.
VerdictHasQuorum ==
  \A u \in Urls : status[u] = "completed" =>
    \A t \in DOMAIN Policy : Policy[t].required =>
      Cardinality({n \in OfType(selected[u], t) : Effective(u, n, results) # "missing"})
        >= Policy[t].quorum

\* A run reported completed has URLs, and none of them is still running
\* (maybeCompleteRun, and the re-opening in queueUrl).
CompletedRunIsSettled ==
  \A r \in Runs : run[r] = "completed" => AllDone(r, status, runOf)

\* The step that settles the last open URL of a run completes the run, in
\* that step, also if the run was re-opened in between (the call at the end
\* of finalize).
RunCompletesWithLastUrl ==
  [][\A r \in Runs :
       (\E u \in Urls : r \in runOf[u] /\ status[u] \notin Terminal)
         /\ AllDone(r, status', runOf') => run'[r] = "completed"]_vars

\* The pipeline implements the two-stage fork and join of UrlFlow.
Stage(u) == IF status[u] = "browser_validation_running" THEN "browser_validation"
                                                        ELSE "initial_test"

FlowPhase ==
  [u \in Urls |-> CASE status[u] = "initial_tests_running"      -> "first"
                    [] status[u] = "browser_validation_running" -> "second"
                    [] status[u] = "completed"                  -> "done"
                    [] OTHER                                    -> status[u]]
FlowWaiting ==
  [u \in Urls |-> IF status[u] \in Terminal \cup {"absent"} THEN {}
                  ELSE {n \in selected[u] : results[<<u, n, Stage(u)>>] = "missing"}]

Flow == INSTANCE UrlFlow WITH phase <- FlowPhase, members <- selected, waiting <- FlowWaiting

FlowSpec == Flow!Spec

\* No URL hangs by the orchestrator's own doing: if the agents' answers keep
\* catching up with the jobs delivered (answers are never forgotten, so this
\* says that every delivered job is answered), every queued URL ends.
Answered == []<>(\A j \in delivered : results[j] # "missing")

AnsweredUrlsSettle ==
  Answered => \A u \in Urls : (status[u] # "absent") ~> (status[u] \in Terminal)

\* What lifecycle.mjs:3-5 says of the packet, read generously: a URL may be
\* reported completed while its packet is being generated, but once that is
\* over it has one.  The code does not keep it: finalize completes the URL
\* first, and a generation that fails is only logged.
CompletedHasPacket ==
  \A u \in Urls : status[u] = "completed" => u \in packetq \/ packet[u] # NoPacket
=============================================================================
