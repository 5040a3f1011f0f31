------------------------ MODULE RunOrchestratorProofs ------------------------
(***************************************************************************)
(* Theorems about RunOrchestrator, for every set of runs, URLs and nodes   *)
(* and every selection policy.                                             *)
(***************************************************************************)
EXTENDS RunOrchestrator, TLAPS

(***************************************************************************)
(* The inductive invariant.  The gates of RunOrchestrator are not          *)
(* inductive by themselves: they need to know which jobs can exist in      *)
(* which status of their URL, and that an answer, once recorded, can only  *)
(* be replaced by itself.                                                  *)
(***************************************************************************)

\* Jobs exist for selected nodes of URLs that have been dispatched, and a
\* browser validation only once its URL has left the first stage.
JobsInv ==
  \A j \in Job :
    j \in sendq \cup delivered \/ results[j] # "missing" =>
      /\ j[2] \in selected[j[1]]
      /\ status[j[1]] \notin {"absent", "blocked"}
      /\ status[j[1]] = "initial_tests_running" => j[3] = "initial_test"

\* Answers come from delivered jobs, one each, and are recorded as sent.
AnswersInv ==
  /\ \A a \in answers : a[1] \in delivered
  /\ \A a, b \in answers : a[1] = b[1] => a = b
  /\ \A j \in delivered : results[j] # "missing" => <<j, results[j]>> \in answers

\* A URL in its second stage has finished the first, with a failure.
SecondStageInv ==
  \A u \in Urls : status[u] = "browser_validation_running" =>
    StageDone(u, "initial_test", results) /\ AnyNotOk(u, results)

PacketInv == \A u \in packetq : status[u] = "completed"

\* A packet that was written is of a completed URL and stays what it was.
PacketsKept ==
  \A u \in Urls : packet[u] # NoPacket =>
    /\ status[u] = "completed"
    /\ \A n \in Nodes, s \in Stages : packet[u][<<n, s>>] = results[<<u, n, s>>]

IInv ==
  /\ JobsInv
  /\ AnswersInv
  /\ SecondStageInv
  /\ PacketInv
  /\ CompletionGate
  /\ BrowserValidationGate
  /\ JobSentOnce
  /\ VerdictMatchesEvidence
  /\ PacketsKept

\* classify always gives one of the classifications, whatever the arms are.
LEMMA classifyType ==
  ASSUME NEW arms
  PROVE  classify(arms) \in Classifications
  BY DEF classify, Classifications

\* So does the verdict on any answers.
LEMMA VerdictType ==
  ASSUME NEW u, NEW res
  PROVE  Verdict(u, res) \in Classifications
  BY classifyType DEF Verdict

\* The nodes selectForUrl picks are nodes.
LEMMA SelectionsType ==
  ASSUME live \subseteq Nodes, NEW eligible \in SUBSET live, NEW S \in Selections(eligible)
  PROVE  S \subseteq Nodes
  BY DEF Selections

\* The jobs of a stage are jobs.
LEMMA StageJobsType ==
  ASSUME NEW us \in SUBSET Urls, NEW S \in SUBSET Nodes, NEW stage \in Stages
  PROVE  StageJobs(us, S, stage) \subseteq Job
  BY DEF StageJobs, Job

\* Recording an answer keeps the types, whichever of its three outcomes follows.
LEMMA RecordType ==
  ASSUME TypeOK, NEW j \in Job, NEW outcome \in Outcome, NEW q \in SUBSET Job,
         recordResult(j, outcome, q)
  PROVE  /\ results' \in [Job -> Outcome \cup {"missing"}]
         /\ status' \in [Urls -> {"absent", "blocked", "initial_tests_running",
                                  "browser_validation_running", "completed"}]
         /\ classification' \in [Urls -> Classifications]
         /\ run' \in [Runs -> {"none", "running", "completed"}]
         /\ sendq' \subseteq Job
         /\ packetq' \subseteq Urls
  <1> DEFINE res == [results EXCEPT ![j] = outcome]
  <1>u. j[1] \in Urls
    BY DEF Job
  <1>r. results' \in [Job -> Outcome \cup {"missing"}]
    BY DEF recordResult, TypeOK
  <1>1. CASE Stay(j[1], res, q)
    BY <1>1, <1>r DEF Stay, TypeOK
  <1>2. CASE StartBrowserValidation(j[1], res, q)
    <2>1. StageJobs({j[1]}, selected[j[1]], "browser_validation") \subseteq Job
      BY <1>u, StageJobsType DEF TypeOK, Stages
    <2> QED
      BY <1>2, <1>r, <1>u, <2>1 DEF StartBrowserValidation, TypeOK
  <1>3. CASE finalize(j[1], res, q)
    <2>1. Verdict(j[1], res) \in Classifications
      BY VerdictType
    <2> QED
      BY <1>3, <1>r, <1>u, <2>1 DEF finalize, TypeOK
  <1> QED
    BY <1>1, <1>2, <1>3 DEF recordResult

\* Queuing URLs keeps the types.
LEMMA EnqueueType ==
  ASSUME TypeOK, NEW r \in Runs, NEW us \in SUBSET Urls, NEW S \in SUBSET Nodes,
         Enqueue(r, us, S), run' \in [Runs -> {"none", "running", "completed"}]
  PROVE  TypeOK'
  <1>1. StageJobs(us, S, "initial_test") \subseteq Job
    BY StageJobsType DEF Stages
  <1>2. /\ runOf' \in [Urls -> SUBSET Runs]
        /\ selected' \in [Urls -> SUBSET Nodes]
        /\ sendq' \subseteq Job
    BY <1>1 DEF Enqueue, TypeOK
  <1>3. /\ status' \in [Urls -> {"absent", "blocked", "initial_tests_running",
                                 "browser_validation_running", "completed"}]
        /\ classification' \in [Urls -> Classifications]
    BY DEF Enqueue, TypeOK, Classifications
  <1> QED
    BY <1>2, <1>3 DEF Enqueue, TypeOK
-----------------------------------------------------------------------------
(* Type correctness *)

\* The operator's requests keep the types.
LEMMA RequestsType ==
  ASSUME TypeOK, NEW r \in Runs, NEW eligible \in SUBSET live,
         NEW S \in Selections(eligible)
  PROVE  /\ \A us \in SUBSET Urls, rejected \in BOOLEAN :
              createRun(r, us, S, rejected) => TypeOK'
         /\ \A u \in Urls : queueUrl(r, u, S) => TypeOK'
         /\ queueRejectedUrl(r) => TypeOK'
  <1>S. S \in SUBSET Nodes
    BY SelectionsType DEF TypeOK
  <1>1. ASSUME NEW us \in SUBSET Urls, NEW rejected \in BOOLEAN,
               createRun(r, us, S, rejected)
        PROVE  TypeOK'
    <2>1. run' \in [Runs -> {"none", "running", "completed"}]
      BY <1>1 DEF createRun, TypeOK
    <2> QED
      BY <1>1, <1>S, <2>1, EnqueueType DEF createRun
  <1>2. ASSUME NEW u \in Urls, queueUrl(r, u, S)
        PROVE  TypeOK'
    <2>1. run' \in [Runs -> {"none", "running", "completed"}]
      BY <1>2 DEF queueUrl, TypeOK
    <2> QED
      BY <1>2, <1>S, <2>1, EnqueueType DEF queueUrl
  <1>3. queueRejectedUrl(r) => TypeOK'
    BY DEF queueRejectedUrl, TypeOK
  <1> QED
    BY <1>1, <1>2, <1>3

\* The pipeline's variables always have their types: in particular the
\* classification is always a documented one and a packet is always a whole
\* bucket of results.
THEOREM TypeCorrect == Spec => []TypeOK
  <1>1. Init => TypeOK
    BY DEF Init, TypeOK, Classifications
  <1>2. TypeOK /\ [Next]_vars => TypeOK'
    <2> SUFFICES ASSUME TypeOK, [Next]_vars PROVE TypeOK'
      OBVIOUS
    <2>1. ASSUME NEW j \in sendq, SendJob(j) PROVE TypeOK'
      BY <2>1 DEF SendJob, TypeOK
    <2>2. ASSUME NEW j \in sendq, SendFails(j) PROVE TypeOK'
      <3>1. j \in Job /\ sendq \ {j} \in SUBSET Job /\ "fail" \in Outcome
        BY DEF TypeOK, Outcome
      <3>2. recordResult(j, "fail", sendq \ {j})
        BY <2>2 DEF SendFails
      <3> QED
        BY <2>2, <3>1, <3>2, RecordType DEF SendFails, TypeOK
    <2>3. ASSUME NEW u \in packetq, GeneratePacket(u) PROVE TypeOK'
      <3>1. u \in Urls
        BY DEF TypeOK
      <3>2. [x \in Nodes \X Stages |-> results[<<u, x[1], x[2]>>]] \in Evidence
        BY <3>1 DEF Evidence, TypeOK, Job
      <3>3. packet' \in [Urls -> Evidence \cup {NoPacket}]
        BY <2>3, <3>2 DEF GeneratePacket, TypeOK
      <3> QED
        BY <2>3, <3>3 DEF GeneratePacket, TypeOK
    <2>4. ASSUME NEW a \in answers, onResult(a[1], a[2]) PROVE TypeOK'
      <3>1. a[1] \in Job /\ a[2] \in Outcome
        BY DEF TypeOK
      <3>2. recordResult(a[1], a[2], {})
        BY <2>4 DEF onResult
      <3> QED
        BY <2>4, <3>1, <3>2, RecordType DEF onResult, TypeOK
    <2>5. ASSUME NEW j \in delivered, NEW o \in Outcome, AgentAnswers(j, o) PROVE TypeOK'
      BY <2>5 DEF AgentAnswers, TypeOK
    <2>6. ASSUME NEW n \in Nodes, SessionChanges(n) PROVE TypeOK'
      BY <2>6 DEF SessionChanges, TypeOK
    <2>7. CASE UNCHANGED vars
      BY <2>7 DEF vars, TypeOK
    <2>8. ASSUME NEW r \in Runs, queueRejectedUrl(r) PROVE TypeOK'
      BY <2>8 DEF queueRejectedUrl, TypeOK
    <2> QED
      BY <2>1, <2>2, <2>3, <2>4, <2>5, <2>6, <2>7, <2>8, RequestsType
         DEF Next, Microtask, Event
  <1> QED
    BY <1>1, <1>2, PTL DEF Spec
-----------------------------------------------------------------------------
(* The gates *)

\* A verdict depends on the answers of its own URL's selected nodes only.
LEMMA VerdictLocal ==
  ASSUME NEW u, NEW res1, NEW res2,
         \A n \in selected[u], s \in Stages : res1[<<u, n, s>>] = res2[<<u, n, s>>]
  PROVE  Verdict(u, res1) = Verdict(u, res2)
  <1>1. \A n \in selected[u] : Effective(u, n, res1) = Effective(u, n, res2)
    BY DEF Effective, Stages
  <1>2. \A t : {Effective(u, n, res1) : n \in OfType(selected[u], t)}
               = {Effective(u, n, res2) : n \in OfType(selected[u], t)}
    BY <1>1 DEF OfType
  <1>3. Arms(u, res1) = Arms(u, res2)
    BY <1>2 DEF Arms
  <1> QED
    BY <1>3 DEF Verdict

\* What may be recorded: the failure of a job that is being sent, or an answer
\* that its agent has sent.
Recordable(j, outcome) == j \in sendq \/ <<j, outcome>> \in answers

\* A recordable answer is new or the one recorded already, and a completed URL
\* has nothing new to record.
LEMMA RecordableFacts ==
  ASSUME TypeOK, IInv, NEW j \in Job, NEW outcome \in Outcome, Recordable(j, outcome)
  PROVE  /\ j[1] \in Urls /\ j[2] \in Nodes /\ j[3] \in Stages /\ j = <<j[1], j[2], j[3]>>
         /\ j \in sendq \cup delivered
         /\ results[j] \in {"missing", outcome}
         /\ status[j[1]] = "completed" => results[j] = outcome
  <1>1. j[1] \in Urls /\ j[2] \in Nodes /\ j[3] \in Stages /\ j = <<j[1], j[2], j[3]>>
    BY DEF Job
  <1>2. j \in sendq \cup delivered
    BY DEF Recordable, IInv, AnswersInv
  <1>3. results[j] \in {"missing", outcome}
    <2>1. CASE j \in sendq
      BY <2>1 DEF IInv, JobSentOnce
    <2>2. CASE j \notin sendq /\ results[j] # "missing"
      <3>1. <<j, outcome>> \in answers /\ <<j, results[j]>> \in answers
        BY <2>2, <1>2 DEF Recordable, IInv, AnswersInv
      <3> QED
        BY <3>1 DEF IInv, AnswersInv
    <2> QED
      BY <2>1, <2>2
  <1>4. status[j[1]] = "completed" => results[j] # "missing"
    <2> SUFFICES ASSUME status[j[1]] = "completed" PROVE results[j] # "missing"
      OBVIOUS
    <2>1. j[2] \in selected[j[1]]
      BY <1>2 DEF IInv, JobsInv
    <2>2. StageDone(j[1], "initial_test", results)
      BY <1>1 DEF IInv, CompletionGate, Concluded
    <2>3. j[3] = "browser_validation" => StageDone(j[1], "browser_validation", results)
      BY <1>1, <1>2 DEF IInv, CompletionGate, Concluded, BrowserValidationGate
    <2> QED
      BY <1>1, <2>1, <2>2, <2>3 DEF StageDone, Stages
  <1> QED
    BY <1>1, <1>2, <1>3, <1>4

\* Recording an answer keeps the invariant, whatever it leads to.
LEMMA RecordInv ==
  ASSUME TypeOK, IInv, NEW j \in Job, NEW outcome \in Outcome, Recordable(j, outcome),
         recordResult(j, outcome, sendq \ {j}),
         UNCHANGED <<selected, delivered, answers, packet>>
  PROVE  IInv'
  <1> DEFINE url == j[1]
             res == [results EXCEPT ![j] = outcome]
             q   == sendq \ {j}
  <1>1. /\ url \in Urls /\ j = <<j[1], j[2], j[3]>>
        /\ j \in sendq \cup delivered
        /\ results[j] \in {"missing", outcome}
        /\ status[url] = "completed" => results[j] = outcome
    BY RecordableFacts
  <1>2. /\ j[2] \in selected[url]
        /\ status[url] \notin {"absent", "blocked"}
        /\ status[url] = "initial_tests_running" => j[3] = "initial_test"
    BY <1>1 DEF IInv, JobsInv
  <1>3. results' = res
    BY DEF recordResult
  <1>4. /\ \A k \in Job : results[k] # "missing" => results'[k] = results[k]
        /\ \A k \in Job : k # j => results'[k] = results[k]
        /\ results'[j] = outcome /\ outcome # "missing"
    BY <1>1, <1>3 DEF TypeOK, Outcome
  <1>5. \A u \in Urls, n \in Nodes, s \in Stages :
          u # url \/ status[url] = "completed" =>
            results'[<<u, n, s>>] = results[<<u, n, s>>]
    <2> SUFFICES ASSUME NEW u \in Urls, NEW n \in Nodes, NEW s \in Stages,
                        u # url \/ status[url] = "completed"
                 PROVE  results'[<<u, n, s>>] = results[<<u, n, s>>]
      OBVIOUS
    <2>1. <<u, n, s>> \in Job
      BY DEF Job
    <2>2. CASE <<u, n, s>> = j
      BY <2>2, <1>1, <1>4
    <2>3. CASE <<u, n, s>> # j
      BY <2>1, <2>3, <1>4
    <2> QED
      BY <2>2, <2>3
  <1>6. \A u \in Urls : u # url => status'[u] = status[u] /\ classification'[u] = classification[u]
    BY <1>1 DEF recordResult, Stay, StartBrowserValidation, finalize, TypeOK
  <1>7. \/ Stay(url, res, q)
        \/ StartBrowserValidation(url, res, q)
        \/ finalize(url, res, q)
    BY DEF recordResult
  \* The two stages of a URL only ever fill up.
  <1>8. \A u \in Urls, s \in Stages : \A n \in selected[u] : <<u, n, s>> \in Job
    BY DEF TypeOK, Job
  <1>9. /\ \A u \in Urls, s \in Stages : StageDone(u, s, results) => StageDone(u, s, results')
        /\ \A u \in Urls : AnyNotOk(u, results) => AnyNotOk(u, results')
    BY <1>4, <1>8 DEF StageDone, AnyNotOk, Stages
  <1>10. \A u \in Urls : u # url \/ status[url] = "completed" =>
           /\ \A s \in Stages : StageDone(u, s, results') = StageDone(u, s, results)
           /\ AnyNotOk(u, results') = AnyNotOk(u, results)
           /\ Verdict(u, results') = Verdict(u, results)
    <2> SUFFICES ASSUME NEW u \in Urls, u # url \/ status[url] = "completed"
                 PROVE  /\ \A s \in Stages : StageDone(u, s, results') = StageDone(u, s, results)
                        /\ AnyNotOk(u, results') = AnyNotOk(u, results)
                        /\ Verdict(u, results') = Verdict(u, results)
      OBVIOUS
    <2>1. \A n \in selected[u], s \in Stages : results'[<<u, n, s>>] = results[<<u, n, s>>]
      BY <1>5 DEF TypeOK
    <2>2. Verdict(u, results') = Verdict(u, results)
      BY <2>1, VerdictLocal
    <2> QED
      BY <2>1, <2>2 DEF StageDone, AnyNotOk, Stages
  \* Every predicate on answers reads `selected`, which stays.
  <1>11. \A u \in Urls : /\ \A s \in Stages : StageDone(u, s, results)' = StageDone(u, s, results')
                         /\ AnyNotOk(u, results)' = AnyNotOk(u, results')
                         /\ Verdict(u, results)' = Verdict(u, results')
    BY DEF StageDone, AnyNotOk, Verdict, Arms, Effective, OfType
  \* What the step may add: the browser validations of the URL, when the
  \* answer closes its first stage.
  <1>12. /\ sendq' = q \/ StartBrowserValidation(url, res, q)
         /\ q \subseteq sendq'
         /\ \A k \in sendq' : k \notin q =>
              /\ k \in Job /\ k[1] = url /\ k[2] \in selected[url]
              /\ k[3] = "browser_validation"
              /\ status[url] = "initial_tests_running"
              /\ status'[url] = "browser_validation_running"
              /\ StageDone(url, "initial_test", results') /\ AnyNotOk(url, results')
    <2>1. CASE Stay(url, res, q) \/ finalize(url, res, q)
      BY <2>1 DEF Stay, finalize
    <2>2. CASE StartBrowserValidation(url, res, q)
      <3>1. sendq' = q \cup StageJobs({url}, selected[url], "browser_validation")
        BY <2>2 DEF StartBrowserValidation
      <3>2. status'[url] = "browser_validation_running"
        BY <2>2, <1>1 DEF StartBrowserValidation, TypeOK
      <3>3. \A k \in StageJobs({url}, selected[url], "browser_validation") :
              /\ k \in Job /\ k[1] = url /\ k[2] \in selected[url]
              /\ k[3] = "browser_validation"
        BY <1>1 DEF StageJobs, Job, Stages, TypeOK
      <3> QED
        BY <2>2, <1>3, <3>1, <3>2, <3>3 DEF StartBrowserValidation
    <2> QED
      BY <1>7, <2>1, <2>2
  <1>13. /\ status'[url] \in {status[url], "browser_validation_running", "completed"}
         /\ status'[url] = "initial_tests_running" => status[url] = "initial_tests_running"
         /\ status[url] = "completed" => status'[url] = "completed"
    BY <1>1, <1>7 DEF Stay, StartBrowserValidation, finalize, TypeOK
  <1>14. JobsInv'
    <2> SUFFICES ASSUME NEW k \in Job,
                        k \in sendq' \cup delivered \/ results'[k] # "missing"
                 PROVE  /\ k[2] \in selected[k[1]]
                        /\ status'[k[1]] \notin {"absent", "blocked"}
                        /\ status'[k[1]] = "initial_tests_running" => k[3] = "initial_test"
      BY DEF JobsInv
    <2>1. CASE k \in sendq' /\ k \notin q
      BY <2>1, <1>12
    <2>2. CASE ~(k \in sendq' /\ k \notin q)
      <3>1. k \in sendq \cup delivered \/ results[k] # "missing"
        BY <2>2, <1>1, <1>4
      <3>2. /\ k[2] \in selected[k[1]] /\ status[k[1]] \notin {"absent", "blocked"}
            /\ status[k[1]] = "initial_tests_running" => k[3] = "initial_test"
        BY <3>1 DEF IInv, JobsInv
      <3>3. k[1] \in Urls
        BY DEF Job
      <3> QED
        BY <3>2, <3>3, <1>2, <1>6, <1>13
    <2> QED
      BY <2>1, <2>2
  <1>15. AnswersInv'
    <2>1. \A k \in delivered : k # j /\ results'[k] # "missing" => <<k, results'[k]>> \in answers
      BY <1>4 DEF IInv, AnswersInv, TypeOK
    <2>2. j \in delivered => <<j, outcome>> \in answers
      BY DEF IInv, JobSentOnce, Recordable
    <2> QED
      BY <2>1, <2>2, <1>4 DEF IInv, AnswersInv
  <1>16. SecondStageInv'
    <2> SUFFICES ASSUME NEW u \in Urls, status'[u] = "browser_validation_running"
                 PROVE  StageDone(u, "initial_test", results') /\ AnyNotOk(u, results')
      BY <1>11 DEF SecondStageInv, Stages
    <2>1. CASE status[u] = "browser_validation_running"
      BY <2>1, <1>9 DEF IInv, SecondStageInv, Stages
    <2>2. CASE status[u] # "browser_validation_running"
      <3>1. u = url
        BY <2>2, <1>6
      <3>2. StartBrowserValidation(url, res, q)
        BY <2>2, <3>1, <1>1, <1>7 DEF Stay, finalize, TypeOK
      <3> QED
        BY <3>1, <3>2, <1>3 DEF StartBrowserValidation
    <2> QED
      BY <2>1, <2>2
  \* A completed URL has either been completed before, and then its answers
  \* stay, or it is completed by this step, on the answers recorded now.
  <1>17. \A u \in Urls : status'[u] = "completed" =>
           \/ /\ status[u] = "completed"
              /\ u # url \/ status[url] = "completed"
              /\ classification'[u] = classification[u]
           \/ u = url /\ finalize(url, res, q) /\ status[url] # "completed"
    <2>1. status[url] = "completed" => Stay(url, res, q)
      BY <1>7 DEF StartBrowserValidation, finalize
    <2>2. status[url] # "completed" /\ status'[url] = "completed" => finalize(url, res, q)
      BY <1>1, <1>7 DEF Stay, StartBrowserValidation, TypeOK
    <2> QED
      BY <2>1, <2>2, <1>6 DEF Stay
  <1>18. PacketInv' /\ PacketsKept'
    <2>1. PacketInv'
      <3>1. packetq' \subseteq packetq \cup {url} /\ (packetq' = packetq \/ finalize(url, res, q))
        BY <1>7 DEF Stay, StartBrowserValidation, finalize
      <3>2. finalize(url, res, q) => status'[url] = "completed"
        BY <1>1 DEF finalize, TypeOK
      <3> QED
        BY <3>1, <3>2, <1>6, <1>13 DEF IInv, PacketInv, TypeOK
    <2>2. PacketsKept'
      <3> SUFFICES ASSUME NEW u \in Urls, packet[u] # NoPacket
                   PROVE  /\ status'[u] = "completed"
                          /\ \A n \in Nodes, s \in Stages :
                               packet[u][<<n, s>>] = results'[<<u, n, s>>]
        BY DEF PacketsKept
      <3>1. /\ status[u] = "completed"
            /\ \A n \in Nodes, s \in Stages : packet[u][<<n, s>>] = results[<<u, n, s>>]
        BY DEF IInv, PacketsKept
      <3> QED
        BY <3>1, <1>5, <1>6, <1>13
    <2> QED
      BY <2>1, <2>2
  <1>19. CompletionGate'
    <2> SUFFICES ASSUME NEW u \in Urls, status'[u] = "completed"
                 PROVE  /\ StageDone(u, "initial_test", results')
                        /\ AnyNotOk(u, results') => StageDone(u, "browser_validation", results')
      BY <1>11 DEF CompletionGate, Concluded, Stages
    <2>1. CASE status[u] = "completed" /\ (u # url \/ status[url] = "completed")
      BY <2>1, <1>10 DEF IInv, CompletionGate, Concluded, Stages
    <2>2. CASE u = url /\ finalize(url, res, q)
      BY <2>2, <1>3 DEF finalize
    <2> QED
      BY <1>17, <2>1, <2>2
  <1>20. BrowserValidationGate'
    <2> SUFFICES ASSUME NEW k \in sendq' \cup delivered, k[3] = "browser_validation"
                 PROVE  StageDone(k[1], "initial_test", results') /\ AnyNotOk(k[1], results')
      <3>1. \A k \in sendq' \cup delivered : k[1] \in Urls
        BY <1>12 DEF TypeOK, Job
      <3> QED
        BY <3>1, <1>11 DEF BrowserValidationGate, Stages
    <2>1. CASE k \in sendq' /\ k \notin q
      BY <2>1, <1>12
    <2>2. CASE k \in sendq \cup delivered
      <3>1. k[1] \in Urls
        BY <2>2 DEF TypeOK, Job
      <3> QED
        BY <2>2, <3>1, <1>9 DEF IInv, BrowserValidationGate, Stages
    <2> QED
      BY <2>1, <2>2
  <1>21. JobSentOnce'
    <2> SUFFICES ASSUME NEW k \in sendq'
                 PROVE  k \notin delivered /\ results'[k] = "missing"
      BY DEF JobSentOnce
    <2>1. CASE k \in q
      BY <2>1, <1>4 DEF IInv, JobSentOnce, TypeOK
    <2>2. CASE k \notin q
      <3>1. /\ k \in Job /\ k[1] = url /\ k[3] = "browser_validation"
            /\ status[url] = "initial_tests_running"
        BY <2>2, <1>12
      <3>2. k \notin sendq \cup delivered /\ results[k] = "missing"
        BY <3>1 DEF IInv, JobsInv
      <3>3. k # j
        BY <3>1, <1>2
      <3> QED
        BY <3>1, <3>2, <3>3, <1>4
    <2> QED
      BY <2>1, <2>2
  <1>22. VerdictMatchesEvidence'
    <2> SUFFICES ASSUME NEW u \in Urls, status'[u] = "completed"
                 PROVE  classification'[u] = Verdict(u, results')
      BY <1>11 DEF VerdictMatchesEvidence
    <2>1. CASE /\ status[u] = "completed" /\ (u # url \/ status[url] = "completed")
               /\ classification'[u] = classification[u]
      BY <2>1, <1>10 DEF IInv, VerdictMatchesEvidence
    <2>2. CASE u = url /\ finalize(url, res, q)
      BY <2>2, <1>1, <1>3 DEF finalize, TypeOK
    <2> QED
      BY <1>17, <2>1, <2>2
  <1> QED
    BY <1>14, <1>15, <1>16, <1>18, <1>19, <1>20, <1>21, <1>22 DEF IInv

\* Queuing URLs keeps the invariant: an absent URL has no jobs and no answers.
LEMMA EnqueueInv ==
  ASSUME TypeOK, IInv, Drained, NEW r \in Runs, NEW us \in SUBSET Urls,
         NEW S \in SUBSET Nodes, Enqueue(r, us, S)
  PROVE  IInv'
  <1>1. \A u \in us : status[u] = "absent" /\ status'[u] \in {"initial_tests_running", "blocked"}
    BY DEF Enqueue, TypeOK
  <1>2. \A u \in Urls \ us : /\ status'[u] = status[u]
                             /\ selected'[u] = selected[u]
                             /\ classification'[u] = classification[u]
    BY DEF Enqueue
  <1>3. UNCHANGED <<results, delivered, answers, packetq, packet>>
    BY DEF Enqueue
  <1>4. \A j \in Job : j \in delivered \/ results[j] # "missing" =>
          j[1] \in Urls \ us
    BY <1>1 DEF IInv, JobsInv, Job
  <1>5. \A j \in sendq' : /\ j \in Job /\ j[1] \in us /\ j[3] = "initial_test"
                          /\ j[2] \in selected'[j[1]]
                          /\ status'[j[1]] = "initial_tests_running"
    <2>1. ASSUME NEW j \in sendq'
          PROVE  /\ CanDispatch(S)
                 /\ j \in Job /\ j[1] \in us /\ j[2] \in S /\ j[3] = "initial_test"
      <3>1. CanDispatch(S) /\ j \in StageJobs(us, S, "initial_test")
        BY DEF Enqueue
      <3> QED
        BY <3>1 DEF StageJobs, Job, Stages
    <2> QED
      BY <2>1 DEF Enqueue
  <1>6. \A u \in Urls \ us : /\ \A s \in Stages : StageDone(u, s, results)' = StageDone(u, s, results)
                             /\ AnyNotOk(u, results)' = AnyNotOk(u, results)
                             /\ Verdict(u, results)' = Verdict(u, results)
    BY <1>2, <1>3 DEF StageDone, AnyNotOk, Verdict, Arms, Effective, OfType
  <1>7. JobsInv'
    <2> SUFFICES ASSUME NEW j \in Job, j \in sendq' \cup delivered' \/ results'[j] # "missing"
                 PROVE  /\ j[2] \in selected'[j[1]]
                        /\ status'[j[1]] \notin {"absent", "blocked"}
                        /\ status'[j[1]] = "initial_tests_running" => j[3] = "initial_test"
      BY DEF JobsInv
    <2>1. CASE j \in sendq'
      BY <2>1, <1>5
    <2>2. CASE j \in delivered \/ results[j] # "missing"
      BY <2>2, <1>2, <1>4 DEF IInv, JobsInv
    <2> QED
      BY <2>1, <2>2, <1>3
  <1>8. AnswersInv' /\ PacketInv'
    BY <1>3 DEF IInv, AnswersInv, PacketInv, Drained
  <1>9. SecondStageInv' /\ CompletionGate'
    BY <1>1, <1>2, <1>6 DEF IInv, SecondStageInv, CompletionGate, Concluded, Stages
  <1>10. BrowserValidationGate'
    BY <1>3, <1>4, <1>5, <1>6 DEF IInv, BrowserValidationGate, Stages, TypeOK
  <1>11. JobSentOnce'
    BY <1>3, <1>4, <1>5 DEF JobSentOnce
  <1>12. VerdictMatchesEvidence'
    BY <1>1, <1>2, <1>6 DEF IInv, VerdictMatchesEvidence
  <1>13. PacketsKept'
    BY <1>1, <1>2, <1>3 DEF IInv, PacketsKept
  <1> QED
    BY <1>7, <1>8, <1>9, <1>10, <1>11, <1>12, <1>13 DEF IInv

\* A step that leaves the URLs, their nodes and their answers alone leaves
\* alone what is read from them.
LEMMA FrameUrls ==
  ASSUME IInv, UNCHANGED <<status, selected, classification, results>>
  PROVE  /\ SecondStageInv' /\ CompletionGate' /\ VerdictMatchesEvidence'
         /\ \A u, s : StageDone(u, s, results)' = StageDone(u, s, results)
         /\ \A u : AnyNotOk(u, results)' = AnyNotOk(u, results)
  <1>1. \A u, s : StageDone(u, s, results)' = StageDone(u, s, results)
    BY DEF StageDone
  <1>2. \A u : AnyNotOk(u, results)' = AnyNotOk(u, results)
    BY DEF AnyNotOk
  <1>3. \A u : Verdict(u, results)' = Verdict(u, results)
    BY DEF Verdict, Arms, Effective, OfType
  <1>4. VerdictMatchesEvidence'
    BY <1>3 DEF IInv, VerdictMatchesEvidence
  <1>5. SecondStageInv' /\ CompletionGate'
    BY <1>1, <1>2 DEF IInv, SecondStageInv, CompletionGate, Concluded
  <1> QED
    BY <1>1, <1>2, <1>4, <1>5

\* A step that leaves the jobs, the agents' answers and the packets alone as
\* well leaves the invariant alone.
LEMMA FrameInv ==
  ASSUME IInv, UNCHANGED <<status, selected, classification, results, sendq,
                           delivered, answers, packetq, packet>>
  PROVE  IInv'
  <1>1. JobsInv' /\ AnswersInv' /\ PacketInv' /\ JobSentOnce' /\ PacketsKept'
    BY DEF IInv, JobsInv, AnswersInv, PacketInv, JobSentOnce, PacketsKept
  <1>2. BrowserValidationGate'
    BY FrameUrls DEF IInv, BrowserValidationGate
  <1> QED
    BY <1>1, <1>2, FrameUrls DEF IInv

\* Every step keeps the invariant.
LEMMA StepInv ==
  ASSUME TypeOK, IInv, [Next]_vars
  PROVE  IInv'
  <1>1. ASSUME NEW r \in Runs, NEW eligible \in SUBSET live, NEW S \in Selections(eligible),
               NEW us \in SUBSET Urls, NEW rejected \in BOOLEAN, createRun(r, us, S, rejected)
        PROVE  IInv'
    BY <1>1, EnqueueInv, SelectionsType DEF createRun, TypeOK
  <1>2. ASSUME NEW r \in Runs, NEW eligible \in SUBSET live, NEW S \in Selections(eligible),
               NEW u \in Urls, queueUrl(r, u, S)
        PROVE  IInv'
    BY <1>2, EnqueueInv, SelectionsType DEF queueUrl, TypeOK
  <1>3. ASSUME NEW r \in Runs, queueRejectedUrl(r)
        PROVE  IInv'
    BY <1>3, FrameInv DEF queueRejectedUrl
  <1>4. ASSUME NEW j \in sendq, SendJob(j)
        PROVE  IInv'
    <2>1. /\ j \in Job /\ j \notin delivered /\ results[j] = "missing"
          /\ sendq' = sendq \ {j} /\ delivered' = delivered \cup {j}
      BY <1>4 DEF SendJob, IInv, JobSentOnce, TypeOK
    <2>2. UNCHANGED <<status, selected, classification, results, answers, packetq, packet>>
      BY <1>4 DEF SendJob
    <2>3. JobsInv' /\ AnswersInv' /\ JobSentOnce' /\ PacketInv'
      BY <2>1, <2>2 DEF IInv, JobsInv, AnswersInv, JobSentOnce, PacketInv
    <2>4. BrowserValidationGate'
      BY <2>1, <2>2 DEF IInv, BrowserValidationGate, StageDone, AnyNotOk
    <2>5. PacketsKept'
      BY <2>2 DEF IInv, PacketsKept
    <2> QED
      BY <2>2, <2>3, <2>4, <2>5, FrameUrls DEF IInv
  <1>5. ASSUME NEW j \in sendq, SendFails(j)
        PROVE  IInv'
    <2>1. j \in Job /\ "fail" \in Outcome /\ Recordable(j, "fail")
      BY DEF TypeOK, Outcome, Recordable
    <2> QED
      BY <1>5, <2>1, RecordInv DEF SendFails
  <1>6. ASSUME NEW u \in packetq, GeneratePacket(u)
        PROVE  IInv'
    <2>1. UNCHANGED <<status, selected, classification, results, sendq, delivered, answers>>
      BY <1>6 DEF GeneratePacket
    <2>2. u \in Urls /\ status[u] = "completed"
      BY DEF TypeOK, IInv, PacketInv
    <2>3. PacketInv'
      BY <1>6, <2>1 DEF GeneratePacket, IInv, PacketInv
    <2>4. PacketsKept'
      BY <1>6, <2>1, <2>2 DEF GeneratePacket, IInv, PacketsKept, TypeOK
    <2>5. JobsInv' /\ AnswersInv' /\ JobSentOnce'
      BY <2>1 DEF IInv, JobsInv, AnswersInv, JobSentOnce
    <2>6. BrowserValidationGate'
      BY <2>1, FrameUrls DEF IInv, BrowserValidationGate
    <2> QED
      BY <2>1, <2>3, <2>4, <2>5, <2>6, FrameUrls DEF IInv
  <1>7. ASSUME NEW a \in answers, onResult(a[1], a[2])
        PROVE  IInv'
    <2>1. a[1] \in Job /\ a[2] \in Outcome /\ Recordable(a[1], a[2])
      BY <1>7 DEF onResult, TypeOK, Recordable
    <2>2. sendq \ {a[1]} = {}
      BY <1>7 DEF onResult, Drained
    <2> QED
      BY <1>7, <2>1, <2>2, RecordInv DEF onResult
  <1>8. ASSUME NEW j \in delivered, NEW o \in Outcome, AgentAnswers(j, o)
        PROVE  IInv'
    <2>1. UNCHANGED <<status, selected, classification, results, sendq, packetq, packet>>
      BY <1>8 DEF AgentAnswers
    <2>2. /\ j \in delivered /\ delivered' = delivered
          /\ answers' = answers \cup {<<j, o>>}
          /\ \A p \in Outcome : <<j, p>> \notin answers
      BY <1>8 DEF AgentAnswers
    <2>3. \A a \in answers : a[1] # j
      BY <2>2 DEF TypeOK
    <2>4. AnswersInv'
      BY <2>1, <2>2, <2>3 DEF IInv, AnswersInv
    <2>5. JobsInv' /\ JobSentOnce' /\ PacketInv' /\ PacketsKept'
      BY <2>1, <2>2 DEF IInv, JobsInv, JobSentOnce, PacketInv, PacketsKept
    <2>6. BrowserValidationGate'
      BY <2>1, <2>2, FrameUrls DEF IInv, BrowserValidationGate
    <2> QED
      BY <2>1, <2>4, <2>5, <2>6, FrameUrls DEF IInv
  <1>9. ASSUME NEW n \in Nodes, SessionChanges(n)
        PROVE  IInv'
    BY <1>9, FrameInv DEF SessionChanges
  <1>10. CASE UNCHANGED vars
    BY <1>10, FrameInv DEF vars
  <1> QED
    BY <1>1, <1>2, <1>3, <1>4, <1>5, <1>6, <1>7, <1>8, <1>9, <1>10 DEF Next, Microtask, Event

\* The invariant holds of every run of the pipeline.
THEOREM Invariance == Spec => [](TypeOK /\ IInv)
  <1>1. Init => IInv
    BY DEF Init, IInv, JobsInv, AnswersInv, SecondStageInv, PacketInv, CompletionGate, Concluded,
           BrowserValidationGate, JobSentOnce, VerdictMatchesEvidence, PacketsKept
  <1>2. TypeOK /\ IInv /\ [Next]_vars => IInv'
    BY StepInv
  <1> QED
    BY <1>1, <1>2, TypeCorrect, PTL DEF Spec

\* A completed URL has every answer it needed: the completion gate that
\* lifecycle.mjs describes, for every fleet, policy and order of answers.
THEOREM CompletionIsGated == Spec => []CompletionGate
  BY Invariance, PTL DEF IInv

\* Browser validation is never dispatched early.
THEOREM BrowserValidationIsGated == Spec => []BrowserValidationGate
  BY Invariance, PTL DEF IInv

\* No job is dispatched twice.
THEOREM JobsAreSentOnce == Spec => []JobSentOnce
  BY Invariance, PTL DEF IInv

\* A verdict never parts from the answers recorded for its URL.
THEOREM VerdictsStand == Spec => []VerdictMatchesEvidence
  BY Invariance, PTL DEF IInv

\* No packet is generated before all the answers of its URL are there, and
\* none parts from the answers on record afterwards.  (That a completed URL has
\* its packet is not so: CompletedHasPacket is violated.)
THEOREM PacketsAreFinal == Spec => []PacketIsFinalEvidence
<1>1. IInv => PacketIsFinalEvidence
  BY DEF IInv, PacketsKept, CompletionGate, PacketIsFinalEvidence
<1> QED
  BY <1>1, Invariance, PTL
-----------------------------------------------------------------------------
(* What a healthy verdict means *)

\* An arm is ok only when there are answers and all of them are ok.
LEMMA armStatusOk ==
  ASSUME NEW given, given \subseteq Outcome, armStatus(given) = "ok"
  PROVE  given = {"ok"}
  BY Zenon DEF armStatus, Outcome

\* The combined GSA arm is ok only when neither arm failed and one was ok.
LEMMA combineGsaOk ==
  ASSUME NEW remotenet \in ArmStatuses, NEW client \in ArmStatuses,
         combineGsa(remotenet, client) = "ok"
  PROVE  {remotenet, client} \in {{"ok"}, {"ok", "unavailable"}}
  BY Zenon DEF combineGsa

\* The classification is healthy only when both compared arms are ok.
LEMMA classifyHealthy ==
  ASSUME NEW arms, classify(arms) = "healthy"
  PROVE  /\ arms["azure_direct"] = "ok"
         /\ combineGsa(arms["gsa_remotenet"], arms["gsa_client"]) = "ok"
  BY Zenon DEF classify


\* A GSA arm that stands in an ok combination has no answer but ok.
LEMMA armStatusQuiet ==
  ASSUME NEW given, given \subseteq Outcome, armStatus(given) \in {"ok", "unavailable"}
  PROVE  given \subseteq {"ok"}
  BY Zenon DEF armStatus, Outcome

\* Every arm has a status.
LEMMA armStatusType ==
  ASSUME NEW given, given \subseteq Outcome
  PROVE  armStatus(given) \in ArmStatuses
  BY Zenon DEF armStatus, ArmStatuses, Outcome

\* Only a completed URL can be healthy.
HealthyInv == \A u \in Urls : classification[u] = "healthy" => status[u] = "completed"

LEMMA HealthyStep == TypeOK /\ HealthyInv /\ [Next]_vars => HealthyInv'
  <1> SUFFICES ASSUME TypeOK, HealthyInv, [Next]_vars PROVE HealthyInv'
    OBVIOUS
  <1> USE DEF HealthyInv
  <1>1. ASSUME NEW r, NEW us \in SUBSET Urls, NEW S, Enqueue(r, us, S) PROVE HealthyInv'
    BY <1>1 DEF Enqueue, TypeOK
  <1>2. ASSUME NEW j \in Job, NEW outcome, NEW q, recordResult(j, outcome, q) PROVE HealthyInv'
    <2>0. j[1] \in Urls
      BY DEF Job
    <2> DEFINE res == [results EXCEPT ![j] = outcome]
    <2> HIDE DEF res
    <2>1. CASE Stay(j[1], res, q)
      BY <2>1 DEF Stay
    <2>2. CASE StartBrowserValidation(j[1], res, q)
      BY <2>0, <2>2 DEF StartBrowserValidation, TypeOK
    <2>3. CASE finalize(j[1], res, q)
      BY <2>0, <2>3 DEF finalize, TypeOK
    <2> QED
      BY <1>2, <2>1, <2>2, <2>3 DEF recordResult, res
  <1>3. ASSUME NEW r \in Runs, NEW S, NEW us \in SUBSET Urls, NEW rejected \in BOOLEAN,
               createRun(r, us, S, rejected)
        PROVE  HealthyInv'
    BY <1>1, <1>3 DEF createRun
  <1>4. ASSUME NEW r \in Runs, NEW S, NEW u \in Urls, queueUrl(r, u, S) PROVE HealthyInv'
    BY <1>1, <1>4 DEF queueUrl
  <1>5. ASSUME NEW j \in sendq, SendFails(j) PROVE HealthyInv'
    BY <1>2, <1>5 DEF SendFails, TypeOK
  <1>6. ASSUME NEW a \in answers, onResult(a[1], a[2]) PROVE HealthyInv'
    <2>1. a[1] \in Job
      BY DEF TypeOK
    <2> QED
      BY <1>2, <1>6, <2>1 DEF onResult
  <1>7. CASE \/ \E j \in sendq : SendJob(j)
             \/ \E u \in packetq : GeneratePacket(u)
             \/ \E r \in Runs : queueRejectedUrl(r)
             \/ \E j \in delivered, o \in Outcome : AgentAnswers(j, o)
             \/ \E n \in Nodes : SessionChanges(n)
             \/ UNCHANGED vars
    BY <1>7 DEF SendJob, GeneratePacket, queueRejectedUrl, AgentAnswers, SessionChanges, vars
  <1> QED
    BY <1>3, <1>4, <1>5, <1>6, <1>7 DEF Next, Microtask, Event

\* What the verdict of a completed URL rests on.
LEMMA HealthyMeans ==
  ASSUME TypeOK, NEW u \in Urls, StageDone(u, "initial_test", results),
         Verdict(u, results) = "healthy"
  PROVE  LET compared == {n \in selected[u] :
                            TypeOf[n] \in {"azure_direct", "gsa_remotenet", "gsa_client"}}
         IN  /\ \A n \in compared : Effective(u, n, results) = "ok"
             /\ {TypeOf[n] : n \in compared} \notin
                  {{}, {"azure_direct"}, {"gsa_remotenet"}, {"gsa_client"},
                   {"gsa_remotenet", "gsa_client"}}
  <1> DEFINE given(t) == {Effective(u, n, results) : n \in OfType(selected[u], t)} \ {"missing"}
             arms == Arms(u, results)
  <1>1. \A n \in selected[u] : Effective(u, n, results) \in Outcome
    <2> TAKE n \in selected[u]
    <2>1. n \in Nodes
      BY DEF TypeOK
    <2>2. \A s \in Stages : results[<<u, n, s>>] \in Outcome \cup {"missing"}
      BY <2>1 DEF TypeOK, Job
    <2>3. results[<<u, n, "initial_test">>] # "missing"
      BY DEF StageDone
    <2> QED
      BY <2>2, <2>3 DEF Effective, Stages
  <1>2. \A t \in NodeTypes : arms[t] = armStatus(given(t))
    BY DEF Arms
  <1>3. \A t \in NodeTypes : given(t) \subseteq Outcome
    BY <1>1 DEF OfType
  <1>4. \A t \in NodeTypes : \A n \in OfType(selected[u], t) :
          Effective(u, n, results) \in given(t)
    BY <1>1 DEF OfType, Outcome
  <1>5. \A t \in NodeTypes : \A x \in given(t) : \E n \in selected[u] : TypeOf[n] = t
    BY DEF OfType
  <1> HIDE DEF given, arms
  <1>6. /\ arms["azure_direct"] = "ok"
        /\ combineGsa(arms["gsa_remotenet"], arms["gsa_client"]) = "ok"
    BY classifyHealthy DEF Verdict, arms
  <1>7. {"azure_direct", "gsa_remotenet", "gsa_client"} \subseteq NodeTypes
    BY DEF NodeTypes
  <1>8. arms["gsa_remotenet"] \in ArmStatuses /\ arms["gsa_client"] \in ArmStatuses
    BY <1>2, <1>3, <1>7, armStatusType
  <1>9. {arms["gsa_remotenet"], arms["gsa_client"]} \in {{"ok"}, {"ok", "unavailable"}}
    BY <1>6, <1>8, combineGsaOk
  <1>10. given("azure_direct") = {"ok"}
    BY <1>2, <1>3, <1>6, <1>7, armStatusOk
  <1>11. given("gsa_remotenet") \subseteq {"ok"} /\ given("gsa_client") \subseteq {"ok"}
    <2>1. /\ arms["gsa_remotenet"] \in {"ok", "unavailable"}
          /\ arms["gsa_client"] \in {"ok", "unavailable"}
      BY <1>9
    <2> QED
      BY <1>2, <1>3, <1>7, <2>1, armStatusQuiet
  <1>12. given("gsa_remotenet") = {"ok"} \/ given("gsa_client") = {"ok"}
    <2>1. arms["gsa_remotenet"] = "ok" \/ arms["gsa_client"] = "ok"
      BY <1>9
    <2> QED
      BY <1>2, <1>3, <1>7, <2>1, armStatusOk
  <1> DEFINE compared == {n \in selected[u] :
                            TypeOf[n] \in {"azure_direct", "gsa_remotenet", "gsa_client"}}
  <1>13. \A n \in compared : Effective(u, n, results) = "ok"
    BY <1>4, <1>7, <1>10, <1>11 DEF OfType
  <1>14. /\ \E n \in compared : TypeOf[n] = "azure_direct"
         /\ \E n \in compared : TypeOf[n] \in {"gsa_remotenet", "gsa_client"}
    BY <1>5, <1>7, <1>10, <1>12
  <1>15. {TypeOf[n] : n \in compared} \notin
           {{}, {"azure_direct"}, {"gsa_remotenet"}, {"gsa_client"},
            {"gsa_remotenet", "gsa_client"}}
    BY <1>14
  <1> QED
    BY <1>13, <1>15

\* A URL is reported healthy only on the evidence that the comparison names:
\* a direct arm and a GSA arm, and no failed answer in either.
THEOREM HealthyEarned == Spec => []HealthyIsEarned
  <1>1. Init => HealthyInv
    BY DEF Init, HealthyInv
  <1>2. TypeOK /\ IInv /\ HealthyInv => HealthyIsEarned
    <2> SUFFICES ASSUME TypeOK, IInv, HealthyInv, NEW u \in Urls, classification[u] = "healthy"
                 PROVE  LET compared == {n \in selected[u] :
                              TypeOf[n] \in {"azure_direct", "gsa_remotenet", "gsa_client"}}
                        IN  /\ \A n \in compared : Effective(u, n, results) = "ok"
                            /\ {TypeOf[n] : n \in compared} \notin
                                 {{}, {"azure_direct"}, {"gsa_remotenet"}, {"gsa_client"},
                                  {"gsa_remotenet", "gsa_client"}}
      BY DEF HealthyIsEarned
    <2>1. StageDone(u, "initial_test", results) /\ Verdict(u, results) = "healthy"
      BY DEF HealthyInv, IInv, CompletionGate, Concluded, VerdictMatchesEvidence
    <2> QED
      BY <2>1, HealthyMeans
  <1> QED
    BY <1>1, <1>2, HealthyStep, Invariance, PTL DEF Spec

-----------------------------------------------------------------------------
(* What a verdict rests on *)

\* A URL that was dispatched had its required nodes, and keeps them.
DispatchInv ==
  \A u \in Urls : status[u] \notin {"absent", "blocked"} => CanDispatch(selected[u])

LEMMA DispatchStep == TypeOK /\ DispatchInv /\ [Next]_vars => DispatchInv'
  <1> SUFFICES ASSUME TypeOK, DispatchInv, [Next]_vars PROVE DispatchInv'
    OBVIOUS
  <1> USE DEF DispatchInv
  <1>1. ASSUME NEW j \in Job, NEW outcome, NEW q, recordResult(j, outcome, q), UNCHANGED selected
        PROVE  DispatchInv'
    <2>1. \A u \in Urls : status'[u] \notin {"absent", "blocked"} =>
                            status[u] \notin {"absent", "blocked"}
      BY <1>1 DEF recordResult, Stay, StartBrowserValidation, finalize, TypeOK
    <2> QED
      BY <1>1, <2>1
  <1>2. ASSUME NEW r, NEW us \in SUBSET Urls, NEW S, Enqueue(r, us, S) PROVE DispatchInv'
    <2>1. \A u \in us : selected'[u] = S /\ (status'[u] # "blocked" => CanDispatch(S))
      BY <1>2 DEF Enqueue
    <2>2. \A u \in Urls \ us : selected'[u] = selected[u] /\ status'[u] = status[u]
      BY <1>2 DEF Enqueue
    <2> QED
      BY <2>1, <2>2
  <1>3. ASSUME NEW r \in Runs, NEW S, NEW us \in SUBSET Urls, NEW rejected \in BOOLEAN,
               createRun(r, us, S, rejected)
        PROVE  DispatchInv'
    BY <1>2, <1>3 DEF createRun
  <1>4. ASSUME NEW r \in Runs, NEW S, NEW u \in Urls, queueUrl(r, u, S) PROVE DispatchInv'
    BY <1>2, <1>4 DEF queueUrl
  <1>5. ASSUME NEW j \in sendq, SendFails(j) PROVE DispatchInv'
    BY <1>1, <1>5 DEF SendFails, TypeOK
  <1>6. ASSUME NEW a \in answers, onResult(a[1], a[2]) PROVE DispatchInv'
    <2>1. a[1] \in Job
      BY DEF TypeOK
    <2> QED
      BY <1>1, <1>6, <2>1 DEF onResult
  <1>7. CASE \/ \E j \in sendq : SendJob(j)
             \/ \E u \in packetq : GeneratePacket(u)
             \/ \E r \in Runs : queueRejectedUrl(r)
             \/ \E j \in delivered, o \in Outcome : AgentAnswers(j, o)
             \/ \E n \in Nodes : SessionChanges(n)
             \/ UNCHANGED vars
    BY <1>7 DEF SendJob, GeneratePacket, queueRejectedUrl, AgentAnswers, SessionChanges, vars
  <1> QED
    BY <1>3, <1>4, <1>5, <1>6, <1>7 DEF Next, Microtask, Event

\* The verdict on a completed URL rests on answers of at least the quorum of every
\* required node type, whatever became of its nodes and jobs since selectForUrl.
THEOREM VerdictsHaveQuorum == Spec => []VerdictHasQuorum
  <1>1. Init => DispatchInv
    BY DEF Init, DispatchInv
  <1>2. DispatchInv /\ IInv => VerdictHasQuorum
    <2> SUFFICES ASSUME DispatchInv, IInv, NEW u \in Urls, status[u] = "completed",
                        NEW t \in DOMAIN Policy, Policy[t].required
                 PROVE  Cardinality({n \in OfType(selected[u], t) :
                                       Effective(u, n, results) # "missing"}) >= Policy[t].quorum
      BY DEF VerdictHasQuorum
    <2>1. \A n \in selected[u] : Effective(u, n, results) # "missing"
      BY DEF IInv, CompletionGate, Concluded, StageDone, Effective
    <2>2. {n \in OfType(selected[u], t) : Effective(u, n, results) # "missing"}
            = OfType(selected[u], t)
      BY <2>1 DEF OfType
    <2>3. CanDispatch(selected[u])
      BY DEF DispatchInv
    <2> QED
      BY <2>2, <2>3 DEF CanDispatch
  <1> QED
    BY <1>1, <1>2, DispatchStep, Invariance, PTL DEF Spec
-----------------------------------------------------------------------------
(* When a run is completed *)

RunInv ==
  /\ CompletedRunIsSettled
  /\ \A r \in Runs, u \in Urls : run[r] = "none" => r \notin runOf[u]

LEMMA RunStep == TypeOK /\ RunInv /\ [Next]_vars => RunInv'
  <1> SUFFICES ASSUME TypeOK, RunInv, [Next]_vars PROVE RunInv'
    OBVIOUS
  <1> USE DEF RunInv, CompletedRunIsSettled
  <1>1. ASSUME NEW j \in Job, NEW outcome, NEW q, recordResult(j, outcome, q), UNCHANGED runOf
        PROVE  RunInv'
    <2>0. j[1] \in Urls
      BY DEF Job
    <2> DEFINE res == [results EXCEPT ![j] = outcome]
    <2> HIDE DEF res
    <2>1. CASE Stay(j[1], res, q)
      BY <1>1, <2>1 DEF Stay, AllDone
    <2>2. CASE StartBrowserValidation(j[1], res, q)
      <3>1. status[j[1]] \notin Terminal /\ UNCHANGED run
        BY <2>2 DEF StartBrowserValidation, Terminal
      <3>2. \A u \in Urls : u # j[1] => status'[u] = status[u]
        BY <2>2 DEF StartBrowserValidation, TypeOK
      <3> QED
        BY <1>1, <2>0, <3>1, <3>2 DEF AllDone
    <2>3. CASE finalize(j[1], res, q)
      <3>1. status'[j[1]] \in Terminal
        BY <2>0, <2>3 DEF finalize, Terminal, TypeOK
      <3>2. \A u \in Urls : u # j[1] => status'[u] = status[u]
        BY <2>3 DEF finalize, TypeOK
      <3>3. \A r \in Runs : run'[r] = IF r \in runOf[j[1]] /\ AllDone(r, status', runOf)
                                      THEN "completed" ELSE run[r]
        BY <2>3 DEF finalize
      <3>4. \A r \in Runs : AllDone(r, status, runOf) => AllDone(r, status', runOf)
        BY <3>1, <3>2 DEF AllDone
      <3> QED
        BY <1>1, <3>3, <3>4
    <2> QED
      BY <1>1, <2>1, <2>2, <2>3 DEF recordResult, res
  <1>2. ASSUME NEW r \in Runs, NEW us \in SUBSET Urls, NEW S, Enqueue(r, us, S)
        PROVE  /\ \A s \in Runs : run[s] = "completed" /\ s # r => AllDone(s, status', runOf')
               /\ \A s \in Runs, u \in Urls : s # r /\ s \in runOf'[u] => s \in runOf[u]
    <2>1. \A u \in us : status[u] \notin Terminal
      BY <1>2 DEF Enqueue, Terminal
    <2>2. \A u \in Urls : u \notin us => status'[u] = status[u] /\ runOf'[u] = runOf[u]
      BY <1>2 DEF Enqueue
    <2>3. \A u \in us : runOf'[u] = {r}
      BY <1>2 DEF Enqueue
    <2> QED
      BY <2>1, <2>2, <2>3 DEF AllDone
  <1>3. ASSUME NEW r \in Runs, NEW S, NEW us \in SUBSET Urls, NEW rejected \in BOOLEAN,
               createRun(r, us, S, rejected)
        PROVE  RunInv'
    <2>1. Enqueue(r, us, S) /\ run[r] = "none"
      BY <1>3 DEF createRun
    <2>2. \A s \in Runs : s # r => run'[s] = run[s]
      BY <1>3 DEF createRun, TypeOK
    <2>3. run'[r] \in {"running", "completed"}
      BY <1>3 DEF createRun, TypeOK
    <2>4. run'[r] = "completed" => AllDone(r, status', runOf')
      <3> SUFFICES ASSUME run'[r] = "completed" PROVE AllDone(r, status', runOf')
        OBVIOUS
      <3>1. us # {} /\ ~CanDispatch(S)
        BY <1>3 DEF createRun, TypeOK
      <3>2. \A u \in us : status'[u] = "blocked" /\ runOf'[u] = {r}
        BY <2>1, <3>1 DEF Enqueue
      <3>3. \A u \in Urls : r \in runOf'[u] <=> u \in us
        BY <2>1, <3>2 DEF Enqueue
      <3> QED
        BY <3>1, <3>2, <3>3 DEF AllDone, Terminal
    <2> QED
      BY <1>2, <2>1, <2>2, <2>3, <2>4
  <1>4. ASSUME NEW r \in Runs, NEW S, NEW u \in Urls, queueUrl(r, u, S) PROVE RunInv'
    <2>1. Enqueue(r, {u}, S)
      BY <1>4 DEF queueUrl
    <2>2. \A s \in Runs : s # r => run'[s] = run[s]
      BY <1>4 DEF queueUrl, TypeOK
    <2>3. /\ run'[r] \in {"running", "completed"}
          /\ run'[r] = "completed" => AllDone(r, status', runOf')
      BY <1>4 DEF queueUrl, TypeOK
    <2> QED
      BY <1>2, <2>1, <2>2, <2>3
  <1>5. ASSUME NEW r \in Runs, queueRejectedUrl(r) PROVE RunInv'
    BY <1>5 DEF queueRejectedUrl, TypeOK
  <1>6. ASSUME NEW j \in sendq, SendFails(j) PROVE RunInv'
    BY <1>1, <1>6 DEF SendFails, TypeOK
  <1>7. ASSUME NEW a \in answers, onResult(a[1], a[2]) PROVE RunInv'
    <2>1. a[1] \in Job
      BY DEF TypeOK
    <2> QED
      BY <1>1, <1>7, <2>1 DEF onResult
  <1>8. CASE \/ \E j \in sendq : SendJob(j)
             \/ \E u \in packetq : GeneratePacket(u)
             \/ \E j \in delivered, o \in Outcome : AgentAnswers(j, o)
             \/ \E n \in Nodes : SessionChanges(n)
             \/ UNCHANGED vars
    <2>1. UNCHANGED <<run, runOf, status>>
      BY <1>8 DEF SendJob, GeneratePacket, AgentAnswers, SessionChanges, vars
    <2> QED
      BY <2>1 DEF AllDone
  <1> QED
    BY <1>3, <1>4, <1>5, <1>6, <1>7, <1>8 DEF Next, Microtask, Event

\* A run that is reported completed has no URL that is still running: what
\* maybeCompleteRun checks stays true until queueUrl re-opens the run.
THEOREM CompletedRunsAreSettled == Spec => []CompletedRunIsSettled
  <1>1. Init => RunInv
    BY DEF Init, RunInv, CompletedRunIsSettled
  <1>2. RunInv => CompletedRunIsSettled
    BY DEF RunInv
  <1> QED
    BY <1>1, <1>2, RunStep, TypeCorrect, PTL DEF Spec

\* The URLs of a run have been queued.
OwnInv == \A u \in Urls : runOf[u] # {} => status[u] # "absent"

LEMMA OwnStep == TypeOK /\ OwnInv /\ [Next]_vars => OwnInv'
  <1> SUFFICES ASSUME TypeOK, OwnInv, [Next]_vars PROVE OwnInv'
    OBVIOUS
  <1> USE DEF OwnInv
  <1>1. ASSUME NEW j \in Job, NEW outcome, NEW q, recordResult(j, outcome, q), UNCHANGED runOf
        PROVE  OwnInv'
    <2>1. \A u \in Urls : status[u] # "absent" => status'[u] # "absent"
      BY <1>1 DEF recordResult, Stay, StartBrowserValidation, finalize, TypeOK
    <2> QED
      BY <1>1, <2>1
  <1>2. ASSUME NEW r \in Runs, NEW us \in SUBSET Urls, NEW S, Enqueue(r, us, S) PROVE OwnInv'
    BY <1>2 DEF Enqueue
  <1>3. ASSUME NEW j \in sendq, SendFails(j) PROVE OwnInv'
    BY <1>1, <1>3 DEF SendFails, TypeOK
  <1>4. ASSUME NEW a \in answers, onResult(a[1], a[2]) PROVE OwnInv'
    <2>1. a[1] \in Job
      BY DEF TypeOK
    <2> QED
      BY <1>1, <1>4, <2>1 DEF onResult
  <1>5. CASE \/ \E r \in Runs : queueRejectedUrl(r)
             \/ \E j \in sendq : SendJob(j)
             \/ \E u \in packetq : GeneratePacket(u)
             \/ \E j \in delivered, o \in Outcome : AgentAnswers(j, o)
             \/ \E n \in Nodes : SessionChanges(n)
             \/ UNCHANGED vars
    BY <1>5 DEF queueRejectedUrl, SendJob, GeneratePacket, AgentAnswers, SessionChanges, vars
  <1>6. ASSUME NEW r \in Runs, NEW S, NEW us \in SUBSET Urls, NEW rejected \in BOOLEAN,
               createRun(r, us, S, rejected)
        PROVE  OwnInv'
    BY <1>2, <1>6 DEF createRun
  <1>7. ASSUME NEW r \in Runs, NEW S, NEW u \in Urls, queueUrl(r, u, S) PROVE OwnInv'
    BY <1>2, <1>7 DEF queueUrl
  <1> QED
    BY <1>3, <1>4, <1>5, <1>6, <1>7 DEF Next, Microtask, Event

\* What a step may do to a run with an open URL.
LEMMA LastUrlStep ==
  ASSUME TypeOK, RunInv, OwnInv, [Next]_vars, NEW r \in Runs,
         NEW u \in Urls, r \in runOf[u], status[u] \notin Terminal, AllDone(r, status', runOf')
  PROVE  run'[r] = "completed"
  <1>1. status[u] # "absent" /\ run[r] # "none"
    BY DEF OwnInv, RunInv
  <1>2. ~(r \in runOf'[u] /\ status'[u] = status[u])
    BY DEF AllDone
  <1>3. ASSUME NEW j \in Job, NEW outcome, NEW q, recordResult(j, outcome, q), UNCHANGED runOf
        PROVE  run'[r] = "completed"
    <2> DEFINE res == [results EXCEPT ![j] = outcome]
    <2> HIDE DEF res
    <2>1. ~Stay(j[1], res, q)
      BY <1>2, <1>3 DEF Stay
    <2>2. ~StartBrowserValidation(j[1], res, q)
      <3>1. ASSUME StartBrowserValidation(j[1], res, q) PROVE status'[u] \notin Terminal
        BY <3>1 DEF StartBrowserValidation, Terminal, TypeOK
      <3> QED
        BY <1>3, <3>1 DEF AllDone
    <2>3. finalize(j[1], res, q)
      BY <1>3, <2>1, <2>2 DEF recordResult, res
    <2>4. j[1] = u
      BY <1>2, <1>3, <2>3 DEF finalize, TypeOK
    <2> QED
      BY <1>3, <2>3, <2>4 DEF finalize
  <1>4. ASSUME NEW s \in Runs, NEW us \in SUBSET Urls, NEW S, Enqueue(s, us, S) PROVE FALSE
    <2>1. u \notin us
      BY <1>1, <1>4 DEF Enqueue
    <2> QED
      BY <1>2, <1>4, <2>1 DEF Enqueue
  <1>5. ASSUME NEW j \in sendq, SendFails(j) PROVE run'[r] = "completed"
    BY <1>3, <1>5 DEF SendFails, TypeOK
  <1>6. ASSUME NEW a \in answers, onResult(a[1], a[2]) PROVE run'[r] = "completed"
    <2>1. a[1] \in Job
      BY DEF TypeOK
    <2> QED
      BY <1>3, <1>6, <2>1 DEF onResult
  <1>7. CASE \/ \E s \in Runs : queueRejectedUrl(s)
             \/ \E j \in sendq : SendJob(j)
             \/ \E v \in packetq : GeneratePacket(v)
             \/ \E j \in delivered, o \in Outcome : AgentAnswers(j, o)
             \/ \E n \in Nodes : SessionChanges(n)
             \/ UNCHANGED vars
    BY <1>2, <1>7 DEF queueRejectedUrl, SendJob, GeneratePacket, AgentAnswers, SessionChanges, vars
  <1>8. ASSUME NEW s \in Runs, NEW S, NEW us \in SUBSET Urls, NEW rejected \in BOOLEAN,
               createRun(s, us, S, rejected)
        PROVE  FALSE
    BY <1>4, <1>8 DEF createRun
  <1>9. ASSUME NEW s \in Runs, NEW S, NEW v \in Urls, queueUrl(s, v, S) PROVE FALSE
    BY <1>4, <1>9 DEF queueUrl
  <1> QED
    BY <1>5, <1>6, <1>7, <1>8, <1>9 DEF Next, Microtask, Event

\* The step that ends the last open URL of a run completes the run (the call
\* of maybeCompleteRun in finalize), however often the run was re-opened.
THEOREM RunsCompleteWithLastUrl == Spec => RunCompletesWithLastUrl
  <1>1. Init => RunInv /\ OwnInv
    BY DEF Init, RunInv, OwnInv, CompletedRunIsSettled
  <1>2. TypeOK /\ RunInv /\ OwnInv /\ [Next]_vars =>
          [\A r \in Runs : (\E u \in Urls : r \in runOf[u] /\ status[u] \notin Terminal)
             /\ AllDone(r, status', runOf') => run'[r] = "completed"]_vars
    BY LastUrlStep
  <1> QED
    BY <1>1, <1>2, RunStep, OwnStep, TypeCorrect, PTL DEF Spec, RunCompletesWithLastUrl
-----------------------------------------------------------------------------
(* The pipeline implements UrlFlow *)

\* What FlowPhase and FlowWaiting are in each status.
PhaseMeans ==
  \A u \in Urls :
    /\ status[u] = "initial_tests_running" => FlowPhase[u] = "first"
    /\ status[u] = "browser_validation_running" => FlowPhase[u] = "second"
    /\ status[u] = "completed" => FlowPhase[u] = "done"
    /\ status[u] \in {"absent", "blocked"} => FlowPhase[u] = status[u]

WaitingMeans ==
  \A u \in Urls :
    /\ status[u] \in {"absent", "blocked", "completed"} => FlowWaiting[u] = {}
    /\ status[u] = "initial_tests_running" =>
         FlowWaiting[u] = {n \in selected[u] : results[<<u, n, "initial_test">>] = "missing"}
    /\ status[u] = "browser_validation_running" =>
         FlowWaiting[u] = {n \in selected[u] : results[<<u, n, "browser_validation">>] = "missing"}

LEMMA FlowMeans == PhaseMeans /\ WaitingMeans
  <1>1. ASSUME NEW u \in Urls
        PROVE  /\ status[u] = "initial_tests_running" => FlowPhase[u] = "first"
               /\ status[u] = "browser_validation_running" => FlowPhase[u] = "second"
               /\ status[u] = "completed" => FlowPhase[u] = "done"
               /\ status[u] \in {"absent", "blocked"} => FlowPhase[u] = status[u]
    BY DEF FlowPhase
  <1>2. ASSUME NEW u \in Urls
        PROVE  /\ status[u] \in {"absent", "blocked", "completed"} => FlowWaiting[u] = {}
               /\ status[u] = "initial_tests_running" =>
                    FlowWaiting[u] = {n \in selected[u] : results[<<u, n, "initial_test">>] = "missing"}
               /\ status[u] = "browser_validation_running" =>
                    FlowWaiting[u] = {n \in selected[u] : results[<<u, n, "browser_validation">>] = "missing"}
    BY DEF FlowWaiting, Stage, Terminal
  <1> QED
    BY <1>1, <1>2 DEF PhaseMeans, WaitingMeans

\* A URL with members still waits for one until it ends.
OpenInv ==
  \A u \in Urls : FlowPhase[u] \in {"first", "second"} /\ selected[u] # {} => FlowWaiting[u] # {}

Shape == /\ FlowPhase = [u \in Urls |-> FlowPhase[u]]
         /\ FlowWaiting = [u \in Urls |-> FlowWaiting[u]]

LEMMA FlowShape == Shape
  BY DEF FlowPhase, FlowWaiting, Shape

\* UrlFlow never waits for nobody.
LEMMA OpenStep ==
  ASSUME TypeOK, OpenInv, [Flow!Next]_(Flow!flowVars)
  PROVE  OpenInv'
  <1> USE DEF OpenInv
  <1>s. selected \in [Urls -> SUBSET Nodes] /\ DOMAIN FlowPhase = Urls /\ DOMAIN FlowWaiting = Urls
    BY FlowShape DEF TypeOK, Shape
  <1>1. ASSUME NEW us \in SUBSET Urls, NEW S, Flow!Accept(us, S) PROVE OpenInv'
    BY <1>1 DEF Flow!Accept
  <1>2. ASSUME NEW us \in SUBSET Urls, NEW S, Flow!Block(us, S) PROVE OpenInv'
    BY <1>2 DEF Flow!Block
  <1>3. ASSUME NEW u \in Urls, NEW n \in Nodes, Flow!Answer(u, n) PROVE OpenInv'
    BY <1>s, <1>3 DEF Flow!Answer
  <1>4. ASSUME NEW u \in Urls, NEW n \in Nodes, Flow!OpenSecond(u, n) PROVE OpenInv'
    BY <1>s, <1>4 DEF Flow!OpenSecond
  <1>5. ASSUME NEW u \in Urls, NEW n \in Nodes, Flow!Finish(u, n) PROVE OpenInv'
    BY <1>s, <1>5 DEF Flow!Finish
  <1>6. CASE UNCHANGED Flow!flowVars
    BY <1>6 DEF Flow!flowVars
  <1> QED
    BY <1>1, <1>2, <1>3, <1>4, <1>5, <1>6 DEF Flow!Next

\* A URL whose status, members and answers stay is where it was.
LEMMA SameFlow ==
  ASSUME TypeOK, PhaseMeans, PhaseMeans', WaitingMeans, WaitingMeans', NEW u \in Urls,
         status'[u] = status[u], selected'[u] = selected[u],
         \A n \in selected[u], s \in Stages : results'[<<u, n, s>>] = results[<<u, n, s>>]
  PROVE  FlowPhase'[u] = FlowPhase[u] /\ FlowWaiting'[u] = FlowWaiting[u]
  <1>1. status[u] \in {"absent", "blocked", "initial_tests_running",
                       "browser_validation_running", "completed"}
    BY DEF TypeOK
  <1>2. FlowPhase'[u] = FlowPhase[u]
    BY <1>1 DEF PhaseMeans
  <1>3. CASE status[u] = "initial_tests_running"
    <2>1. FlowWaiting[u] = {n \in selected[u] : results[<<u, n, "initial_test">>] = "missing"}
      BY <1>3 DEF WaitingMeans
    <2>2. status'[u] = "initial_tests_running"
      BY <1>3
    <2>3. FlowWaiting'[u] = {n \in selected'[u] : results'[<<u, n, "initial_test">>] = "missing"}
      BY <2>2 DEF WaitingMeans
    <2>4. FlowWaiting'[u] = FlowWaiting[u]
      BY <2>1, <2>3 DEF Stages
    <2> QED
      BY <1>2, <2>4
  <1>4. CASE status[u] = "browser_validation_running"
    <2>1. FlowWaiting[u] = {n \in selected[u] : results[<<u, n, "browser_validation">>] = "missing"}
      BY <1>4 DEF WaitingMeans
    <2>2. status'[u] = "browser_validation_running"
      BY <1>4
    <2>3. FlowWaiting'[u] = {n \in selected'[u] : results'[<<u, n, "browser_validation">>] = "missing"}
      BY <2>2 DEF WaitingMeans
    <2>4. FlowWaiting'[u] = FlowWaiting[u]
      BY <2>1, <2>3 DEF Stages
    <2> QED
      BY <1>2, <2>4
  <1>5. CASE status[u] \in {"absent", "blocked", "completed"}
    <2>1. FlowWaiting[u] = {}
      BY <1>5 DEF WaitingMeans
    <2>2. status'[u] \in {"absent", "blocked", "completed"}
      BY <1>5
    <2>3. FlowWaiting'[u] = {}
      BY <2>2 DEF WaitingMeans
    <2> QED
      BY <1>2, <2>1, <2>3
  <1> QED
    BY <1>1, <1>3, <1>4, <1>5

\* Queuing URLs accepts or blocks them.
LEMMA EnqueueFlows ==
  ASSUME TypeOK, TypeOK', IInv, IInv', PhaseMeans, PhaseMeans', WaitingMeans, WaitingMeans',
         Shape, Shape',
         NEW r \in Runs, NEW us \in SUBSET Urls, NEW S \in SUBSET Nodes, Enqueue(r, us, S)
  PROVE  Flow!Accept(us, S) \/ Flow!Block(us, S)
  <1>1. /\ \A u \in us : status[u] = "absent" /\ selected'[u] = S
        /\ \A u \in Urls \ us : status'[u] = status[u] /\ selected'[u] = selected[u]
        /\ UNCHANGED results
        /\ selected' = [u \in Urls |-> IF u \in us THEN S ELSE selected[u]]
    BY DEF Enqueue
  <1>2. \A u \in us, n \in S : results[<<u, n, "initial_test">>] = "missing"
    <2> SUFFICES ASSUME NEW u \in us, NEW n \in S PROVE results[<<u, n, "initial_test">>] = "missing"
      OBVIOUS
    <2>1. <<u, n, "initial_test">> \in Job
      BY DEF Job, Stages
    <2> QED
      BY <1>1, <2>1 DEF IInv, JobsInv
  <1>3. \A u \in us : FlowPhase[u] = "absent" /\ FlowWaiting[u] = {}
    BY <1>1 DEF PhaseMeans, WaitingMeans
  <1>4. \A u \in Urls \ us : FlowPhase'[u] = FlowPhase[u] /\ FlowWaiting'[u] = FlowWaiting[u]
    <2> SUFFICES ASSUME NEW u \in Urls \ us
                 PROVE  FlowPhase'[u] = FlowPhase[u] /\ FlowWaiting'[u] = FlowWaiting[u]
      OBVIOUS
    <2>1. /\ u \in Urls /\ status'[u] = status[u] /\ selected'[u] = selected[u]
          /\ \A n \in selected[u], s \in Stages : results'[<<u, n, s>>] = results[<<u, n, s>>]
      BY <1>1
    <2> QED
      BY <2>1, SameFlow
  <1>5. CASE CanDispatch(S)
    <2>1. \A u \in us : status'[u] = "initial_tests_running"
      BY <1>5 DEF Enqueue
    <2>2. \A u \in us : FlowPhase'[u] = "first" /\ FlowWaiting'[u] = S
      <3> SUFFICES ASSUME NEW u \in us PROVE FlowPhase'[u] = "first" /\ FlowWaiting'[u] = S
        OBVIOUS
      <3>1. u \in Urls /\ status'[u] = "initial_tests_running"
        BY <2>1
      <3>2. FlowPhase'[u] = "first"
        BY <3>1 DEF PhaseMeans
      <3>3. FlowWaiting'[u] = {n \in selected'[u] : results'[<<u, n, "initial_test">>] = "missing"}
        BY <3>1 DEF WaitingMeans
      <3>4. selected'[u] = S /\ \A n \in S : results'[<<u, n, "initial_test">>] = "missing"
        BY <1>1, <1>2
      <3>5. FlowWaiting'[u] = S
        BY <3>3, <3>4
      <3> QED
        BY <3>2, <3>5
    <2>3. FlowPhase' = [u \in Urls |-> IF u \in us THEN "first" ELSE FlowPhase[u]]
      BY <1>4, <2>2 DEF Shape
    <2>4. FlowWaiting' = [u \in Urls |-> IF u \in us THEN S ELSE FlowWaiting[u]]
      BY <1>4, <2>2 DEF Shape
    <2> QED
      BY <1>1, <1>3, <2>3, <2>4 DEF Flow!Accept
  <1>6. CASE ~CanDispatch(S)
    <2>1. \A u \in us : status'[u] = "blocked"
      BY <1>6 DEF Enqueue
    <2>2. \A u \in us : FlowPhase'[u] = "blocked" /\ FlowWaiting'[u] = {}
      <3> SUFFICES ASSUME NEW u \in us PROVE FlowPhase'[u] = "blocked" /\ FlowWaiting'[u] = {}
        OBVIOUS
      <3>1. u \in Urls /\ status'[u] = "blocked"
        BY <2>1
      <3>2. FlowPhase'[u] = "blocked"
        BY <3>1 DEF PhaseMeans
      <3>3. FlowWaiting'[u] = {}
        BY <3>1 DEF WaitingMeans
      <3> QED
        BY <3>2, <3>3
    <2>3. FlowPhase' = [u \in Urls |-> IF u \in us THEN "blocked" ELSE FlowPhase[u]]
      BY <1>4, <2>2 DEF Shape
    <2>4. FlowWaiting' = FlowWaiting
      BY <1>3, <1>4, <2>2 DEF Shape
    <2> QED
      BY <1>1, <1>3, <2>3, <2>4 DEF Flow!Block
  <1> QED
    BY <1>5, <1>6

\* A recorded answer is a new one of a member that is waited for, or changes nothing.
LEMMA RecordFlows ==
  ASSUME TypeOK, TypeOK', IInv, IInv', OpenInv, PhaseMeans, PhaseMeans', WaitingMeans, WaitingMeans',
         Shape, Shape',
         NEW j \in Job, NEW outcome \in Outcome, Recordable(j, outcome), NEW q,
         recordResult(j, outcome, q), UNCHANGED selected
  PROVE  \/ UNCHANGED <<FlowPhase, selected, FlowWaiting>>
         \/ Flow!Answer(j[1], j[2]) \/ Flow!OpenSecond(j[1], j[2]) \/ Flow!Finish(j[1], j[2])
  <1> DEFINE u == j[1]
             n == j[2]
             res == [results EXCEPT ![j] = outcome]
  <1>1. /\ u \in Urls /\ n \in Nodes /\ j = <<u, n, j[3]>> /\ j[3] \in Stages
        /\ results[j] \in {"missing", outcome} /\ outcome # "missing"
        /\ status[u] = "completed" => results[j] = outcome
        /\ n \in selected[u] /\ selected[u] \subseteq Nodes
        /\ status[u] \notin {"absent", "blocked"}
        /\ status[u] \in {"absent", "blocked", "initial_tests_running",
                          "browser_validation_running", "completed"}
        /\ status[u] = "initial_tests_running" => j[3] = "initial_test"
    <2>1. /\ u \in Urls /\ n \in Nodes /\ j = <<u, n, j[3]>> /\ j[3] \in Stages
          /\ j \in sendq \cup delivered
          /\ results[j] \in {"missing", outcome}
          /\ status[u] = "completed" => results[j] = outcome
      BY RecordableFacts
    <2>2. outcome # "missing"
      BY DEF Outcome
    <2>3. /\ n \in selected[u] /\ status[u] \notin {"absent", "blocked"}
          /\ status[u] = "initial_tests_running" => j[3] = "initial_test"
      BY <2>1 DEF IInv, JobsInv
    <2> QED
      BY <2>1, <2>2, <2>3 DEF TypeOK
  <1>2. results' = res /\ (Stay(u, res, q) \/ StartBrowserValidation(u, res, q) \/ finalize(u, res, q))
    BY DEF recordResult
  <1>3. \A k \in Job : res[k] = IF k = j THEN outcome ELSE results[k]
    BY DEF TypeOK
  <1>4. \A v \in Urls, m \in Nodes, s \in Stages : <<v, m, s>> \in Job
    BY DEF Job
  <1>w. /\ status[u] = "initial_tests_running" =>
             /\ FlowPhase[u] = "first"
             /\ FlowWaiting[u] = {m \in selected[u] : results[<<u, m, "initial_test">>] = "missing"}
             /\ FlowWaiting[u] # {}
        /\ status[u] = "browser_validation_running" =>
             /\ FlowPhase[u] = "second"
             /\ FlowWaiting[u] = {m \in selected[u] : results[<<u, m, "browser_validation">>] = "missing"}
             /\ FlowWaiting[u] # {}
    BY <1>1 DEF PhaseMeans, WaitingMeans, OpenInv
  <1>x. \A v \in Urls : v # u => FlowPhase'[v] = FlowPhase[v] /\ FlowWaiting'[v] = FlowWaiting[v]
    <2> SUFFICES ASSUME NEW v \in Urls, v # u
                 PROVE  FlowPhase'[v] = FlowPhase[v] /\ FlowWaiting'[v] = FlowWaiting[v]
      OBVIOUS
    <2>1. status'[v] = status[v] /\ selected'[v] = selected[v] /\ selected[v] \subseteq Nodes
      BY <1>1, <1>2 DEF Stay, StartBrowserValidation, finalize, TypeOK
    <2>2. \A m \in Nodes, s \in Stages : results'[<<v, m, s>>] = results[<<v, m, s>>]
      <3> SUFFICES ASSUME NEW m \in Nodes, NEW s \in Stages
                   PROVE  results'[<<v, m, s>>] = results[<<v, m, s>>]
        OBVIOUS
      <3>1. <<v, m, s>> # j
        BY <1>1
      <3> QED
        BY <1>2, <1>3, <1>4, <3>1
    <2>3. \A m \in selected[v], s \in Stages : results'[<<v, m, s>>] = results[<<v, m, s>>]
      BY <2>1, <2>2
    <2> QED
      BY <2>1, <2>3, SameFlow
  <1> HIDE DEF u, n, res
  <1>5. CASE results[j] = outcome
    <2>1. \A k \in Job : res[k] = results[k]
      BY <1>3, <1>5
    <2>2. \A s \in Stages : StageDone(u, s, res) <=> StageDone(u, s, results)
      BY <1>1, <1>4, <2>1 DEF StageDone
    <2>3. status[u] = "initial_tests_running" => ~StageDone(u, "initial_test", res)
      BY <1>w, <2>2 DEF StageDone, Stages
    <2>4. status[u] = "browser_validation_running" => ~StageDone(u, "browser_validation", res)
      BY <1>w, <2>2 DEF StageDone, Stages
    <2>5. UNCHANGED status
      BY <1>2, <2>3, <2>4 DEF Stay, StartBrowserValidation, finalize
    <2>6. results' = results
      BY <1>2, <1>3, <2>1 DEF TypeOK
    <2>7. FlowPhase'[u] = FlowPhase[u] /\ FlowWaiting'[u] = FlowWaiting[u]
      <3>1. /\ u \in Urls /\ status'[u] = status[u] /\ selected'[u] = selected[u]
            /\ \A m \in selected[u], s \in Stages : results'[<<u, m, s>>] = results[<<u, m, s>>]
        BY <1>1, <2>5, <2>6
      <3> QED
        BY <3>1, SameFlow
    <2>8. FlowPhase' = FlowPhase /\ FlowWaiting' = FlowWaiting
      BY <1>x, <2>7 DEF Shape
    <2> QED
      BY <2>8
  <1>6. CASE results[j] = "missing"
    <2>1. /\ status[u] \in {"initial_tests_running", "browser_validation_running"}
          /\ status[u] = "browser_validation_running" => j[3] = "browser_validation"
      <3>1. status[u] = "browser_validation_running" => StageDone(u, "initial_test", results)
        BY <1>1 DEF IInv, SecondStageInv
      <3> QED
        BY <1>1, <1>6, <3>1 DEF StageDone, Stages
    <2> DEFINE s == j[3]
               W == {m \in selected[u] : results[<<u, m, s>>] = "missing"}
    <2>2. n \in W /\ FlowWaiting[u] = W
      BY <1>1, <1>6, <1>w, <2>1
    <2>3. {m \in selected[u] : res[<<u, m, s>>] = "missing"} = W \ {n}
      <3>1. \A m \in selected[u] : res[<<u, m, s>>] = IF m = n THEN outcome ELSE results[<<u, m, s>>]
        BY <1>1, <1>3, <1>4
      <3> QED
        BY <1>1, <3>1
    <2>4. StageDone(u, s, res) <=> W = {n}
      BY <2>2, <2>3 DEF StageDone
    <2>5. status[u] = "browser_validation_running" => StageDone(u, "initial_test", res)
      <3>1. status[u] = "browser_validation_running" => StageDone(u, "initial_test", results)
        BY <1>1 DEF IInv, SecondStageInv
      <3> QED
        BY <1>1, <1>3, <1>4, <3>1 DEF StageDone, Stages
    <2> HIDE DEF W
    <2>6. CASE Stay(u, res, q)
      <3>1. W # {n} /\ UNCHANGED status
        BY <1>1, <2>1, <2>4, <2>5, <2>6 DEF Stay
      <3>2. FlowPhase'[u] = FlowPhase[u] /\ FlowWaiting'[u] = W \ {n}
        <4>1. u \in Urls /\ status'[u] = status[u] /\ selected'[u] = selected[u] /\ results' = res
          BY <1>1, <1>2, <3>1
        <4>2. FlowPhase'[u] = FlowPhase[u]
          BY <2>1, <4>1 DEF PhaseMeans
        <4>3. FlowWaiting'[u] = {m \in selected'[u] : results'[<<u, m, s>>] = "missing"}
          BY <1>1, <2>1, <4>1 DEF WaitingMeans
        <4>4. FlowWaiting'[u] = W \ {n}
          BY <2>3, <4>1, <4>3
        <4> QED
          BY <4>2, <4>4
      <3>3. FlowPhase' = FlowPhase
        BY <1>x, <3>2 DEF Shape
      <3>4. FlowWaiting' = [FlowWaiting EXCEPT ![u] = FlowWaiting[u] \ {n}]
        BY <1>1, <1>x, <2>2, <3>2 DEF Shape
      <3>5. Flow!Answer(u, n)
        BY <2>2, <3>1, <3>3, <3>4 DEF Flow!Answer
      <3> QED
        BY <3>5 DEF u, n
    <2>7. CASE StartBrowserValidation(u, res, q)
      <3>1. /\ status[u] = "initial_tests_running" /\ status'[u] = "browser_validation_running"
            /\ s = "initial_test" /\ W = {n}
        <4>1. status[u] = "initial_tests_running" /\ StageDone(u, "initial_test", res)
              /\ status'[u] = "browser_validation_running"
          BY <1>1, <2>7 DEF StartBrowserValidation, TypeOK
        <4>2. s = "initial_test"
          BY <1>1, <4>1
        <4> QED
          BY <2>4, <4>1, <4>2
      <3>2. \A m \in selected[u] : results'[<<u, m, "browser_validation">>] = "missing"
        <4> SUFFICES ASSUME NEW m \in selected[u]
                     PROVE  results'[<<u, m, "browser_validation">>] = "missing"
          OBVIOUS
        <4>1. <<u, m, "browser_validation">> \in Job
          <5>1. u \in Urls /\ m \in Nodes /\ "browser_validation" \in Stages
            BY <1>1 DEF Stages
          <5> QED
            BY <1>4, <5>1
        <4>3. <<u, m, "browser_validation">> # j
          BY <1>1, <3>1
        <4>2. results[<<u, m, "browser_validation">>] = "missing"
          BY <3>1, <4>1 DEF IInv, JobsInv
        <4> QED
          BY <1>2, <1>3, <4>1, <4>2, <4>3
      <3>3. FlowPhase'[u] = "second" /\ FlowWaiting'[u] = selected[u]
        <4>1. u \in Urls /\ selected'[u] = selected[u]
          BY <1>1
        <4>2. FlowPhase'[u] = "second"
          BY <3>1, <4>1 DEF PhaseMeans
        <4>3. FlowWaiting'[u] = {m \in selected'[u] : results'[<<u, m, "browser_validation">>] = "missing"}
          BY <3>1, <4>1 DEF WaitingMeans
        <4>4. FlowWaiting'[u] = selected[u]
          BY <3>2, <4>1, <4>3
        <4> QED
          BY <4>2, <4>4
      <3>4. FlowPhase' = [FlowPhase EXCEPT ![u] = "second"]
        BY <1>1, <1>x, <3>3 DEF Shape
      <3>5. FlowWaiting' = [FlowWaiting EXCEPT ![u] = selected[u]]
        BY <1>1, <1>x, <3>3 DEF Shape
      <3>6. Flow!OpenSecond(u, n)
        BY <1>w, <2>2, <3>1, <3>4, <3>5 DEF Flow!OpenSecond
      <3> QED
        BY <3>6 DEF u, n
    <2>8. CASE finalize(u, res, q)
      <3>1. status'[u] = "completed" /\ W = {n}
        BY <1>1, <2>1, <2>4, <2>8 DEF finalize, TypeOK
      <3>2. FlowPhase'[u] = "done" /\ FlowWaiting'[u] = {}
        <4>1. FlowPhase'[u] = "done"
          BY <1>1, <3>1 DEF PhaseMeans
        <4>2. FlowWaiting'[u] = {}
          BY <1>1, <3>1 DEF WaitingMeans
        <4> QED
          BY <4>1, <4>2
      <3>3. FlowPhase' = [FlowPhase EXCEPT ![u] = "done"]
        BY <1>1, <1>x, <3>2 DEF Shape
      <3>4. FlowWaiting' = [FlowWaiting EXCEPT ![u] = {}]
        BY <1>1, <1>x, <3>2 DEF Shape
      <3>5. Flow!Finish(u, n)
        BY <1>w, <2>1, <2>2, <3>1, <3>3, <3>4 DEF Flow!Finish
      <3> QED
        BY <3>5 DEF u, n
    <2> QED
      BY <1>2, <2>6, <2>7, <2>8
  <1> QED
    BY <1>1, <1>5, <1>6

\* Every step of the pipeline is a step of UrlFlow, or none.
LEMMA StepFlows ==
  ASSUME TypeOK, TypeOK', IInv, IInv', OpenInv, [Next]_vars
  PROVE  [Flow!Next]_(Flow!flowVars)
  <1> USE DEF Flow!flowVars
  <1>m. PhaseMeans /\ PhaseMeans' /\ WaitingMeans /\ WaitingMeans' /\ Shape /\ Shape'
    <2>1. PhaseMeans /\ WaitingMeans /\ Shape
      BY FlowMeans, FlowShape
    <2>2. PhaseMeans' /\ WaitingMeans' /\ Shape'
      BY FlowMeans, FlowShape, PTL
    <2> QED
      BY <2>1, <2>2
  <1>1. ASSUME NEW r \in Runs, NEW eligible \in SUBSET live, NEW S \in Selections(eligible),
               NEW us \in SUBSET Urls, Enqueue(r, us, S)
        PROVE  Flow!Next
    <2>1. S \in SUBSET Nodes
      BY SelectionsType DEF TypeOK
    <2>2. Flow!Accept(us, S) \/ Flow!Block(us, S)
      BY <1>m, <1>1, <2>1, EnqueueFlows
    <2> QED
      BY <2>1, <2>2 DEF Flow!Next
  <1>2. ASSUME NEW j \in Job, NEW outcome \in Outcome, Recordable(j, outcome), NEW q,
               recordResult(j, outcome, q), UNCHANGED selected
        PROVE  [Flow!Next]_(Flow!flowVars)
    <2>1. j[1] \in Urls /\ j[2] \in Nodes
      BY DEF Job
    <2>2. \/ UNCHANGED <<FlowPhase, selected, FlowWaiting>>
          \/ Flow!Answer(j[1], j[2]) \/ Flow!OpenSecond(j[1], j[2]) \/ Flow!Finish(j[1], j[2])
      BY <1>m, <1>2, RecordFlows
    <2> QED
      BY <2>1, <2>2 DEF Flow!Next
  <1>3. ASSUME NEW j \in sendq, SendFails(j) PROVE [Flow!Next]_(Flow!flowVars)
    <2>1. j \in Job /\ "fail" \in Outcome /\ Recordable(j, "fail")
      BY DEF TypeOK, Outcome, Recordable
    <2> QED
      BY <1>2, <1>3, <2>1 DEF SendFails
  <1>4. ASSUME NEW a \in answers, onResult(a[1], a[2]) PROVE [Flow!Next]_(Flow!flowVars)
    <2>1. a[1] \in Job /\ a[2] \in Outcome /\ Recordable(a[1], a[2])
      BY <1>4 DEF onResult, TypeOK, Recordable
    <2> QED
      BY <1>2, <1>4, <2>1 DEF onResult
  <1>5. CASE \/ \E r \in Runs : queueRejectedUrl(r)
             \/ \E j \in sendq : SendJob(j)
             \/ \E u \in packetq : GeneratePacket(u)
             \/ \E j \in delivered, o \in Outcome : AgentAnswers(j, o)
             \/ \E n \in Nodes : SessionChanges(n)
             \/ UNCHANGED vars
    <2>1. UNCHANGED <<status, selected, results>>
      BY <1>5 DEF queueRejectedUrl, SendJob, GeneratePacket, AgentAnswers, SessionChanges, vars
    <2>2. UNCHANGED <<FlowPhase, FlowWaiting>>
      BY <2>1 DEF FlowPhase, FlowWaiting, Stage
    <2> QED
      BY <2>1, <2>2
  <1>6. ASSUME NEW r \in Runs, NEW eligible \in SUBSET live, NEW S \in Selections(eligible),
               NEW us \in SUBSET Urls, NEW rejected \in BOOLEAN, createRun(r, us, S, rejected)
        PROVE  Flow!Next
    BY <1>1, <1>6 DEF createRun
  <1>7. ASSUME NEW r \in Runs, NEW eligible \in SUBSET live, NEW S \in Selections(eligible),
               NEW u \in Urls, queueUrl(r, u, S)
        PROVE  Flow!Next
    BY <1>1, <1>7 DEF queueUrl
  <1> QED
    BY <1>3, <1>4, <1>5, <1>6, <1>7 DEF Next, Microtask, Event

\* The run pipeline implements UrlFlow: for every fleet, policy, order and
\* repetition of answers, each URL goes through a fork and join in one or two
\* stages and never leaves its end (recordResult, advance, finalize).
THEOREM ImplementsUrlFlow == Spec => FlowSpec
  <1>1. Init => Flow!Init /\ OpenInv
    <2> SUFFICES ASSUME Init PROVE Flow!Init /\ OpenInv
      OBVIOUS
    <2>1. \A u \in Urls : status[u] = "absent" /\ selected[u] = {}
      BY DEF Init
    <2>2. \A u \in Urls : FlowPhase[u] = "absent" /\ FlowWaiting[u] = {}
      BY <2>1, FlowMeans DEF PhaseMeans, WaitingMeans
    <2>3. FlowPhase = [u \in Urls |-> "absent"] /\ FlowWaiting = [u \in Urls |-> {}]
      BY <2>2, FlowShape DEF Shape
    <2>4. selected = [u \in Urls |-> {}]
      BY DEF Init
    <2> QED
      BY <2>1, <2>3, <2>4 DEF Flow!Init, OpenInv
  <1>2. TypeOK /\ TypeOK' /\ IInv /\ IInv' /\ OpenInv /\ [Next]_vars =>
          [Flow!Next]_(Flow!flowVars) /\ OpenInv'
    BY StepFlows, OpenStep
  <1> QED
    BY <1>1, <1>2, Invariance, PTL DEF Spec, FlowSpec, Flow!Spec
===============================================================================
