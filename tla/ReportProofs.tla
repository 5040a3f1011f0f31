----------------------------- MODULE ReportProofs -----------------------------
(***************************************************************************)
(* That a report never contradicts itself, for every fleet, policy and     *)
(* order of answers.  The orchestrator's classification and the columns of *)
(* the report are computed apart; they agree because the verdict of a      *)
(* completed URL never parts from its answers (RunOrchestratorProofs) and  *)
(* no other URL is classified.                                             *)
(***************************************************************************)
EXTENDS Report, RunOrchestratorProofs

-----------------------------------------------------------------------------
(* Columns *)

\* Of two columns one stands before the other.
LEMMA BeforeFacts ==
  /\ Before("azure_direct") = {}
  /\ Before("gsa_remotenet") = {"azure_direct"}
  /\ Before("gsa_client") = {"azure_direct", "gsa_remotenet"}
  /\ Before("cloudflare_client") = {"azure_direct", "gsa_remotenet", "gsa_client"}
  /\ Before("external_direct") = Arm_Columns \ {"external_direct"}
<1>1. Before("azure_direct") = {}
  BY Zenon DEF Before
<1>2. Before("gsa_remotenet") = {"azure_direct"}
  BY Zenon DEF Before
<1>3. Before("gsa_client") = {"azure_direct", "gsa_remotenet"}
  BY Zenon DEF Before
<1>4. Before("cloudflare_client") = {"azure_direct", "gsa_remotenet", "gsa_client"}
  BY Zenon DEF Before
<1>5. Before("external_direct") = Arm_Columns \ {"external_direct"}
  BY Zenon DEF Before
<1> QED BY <1>1, <1>2, <1>3, <1>4, <1>5

LEMMA BeforeTotal ==
  \A s, t \in Arm_Columns : s = t \/ s \in Before(t) \/ t \in Before(s)
BY BeforeFacts DEF Arm_Columns

\* The leftmost column with a failing node is the one the reason is taken from.
LEMMA FirstColumn ==
  ASSUME NEW u, NEW t \in Arm_Columns, Failing(u, t) # {}, \A s \in Before(t) : Failing(u, s) = {}
  PROVE  primaryArm(u) = t
<1> DEFINE First(x) == Failing(u, x) # {} /\ \A s \in Before(x) : Failing(u, s) = {}
<1>1. First(t) /\ \A x \in Arm_Columns : First(x) => x = t
  BY BeforeTotal
<1>2. (CHOOSE x \in Arm_Columns : First(x)) = t
  <2> HIDE DEF First
  <2> QED BY <1>1
<1> QED BY <1>2 DEF primaryArm

\* What the report makes of a column is what the orchestrator made of that arm.
LEMMA CellIsArm ==
  ASSUME NEW u, NEW t \in NodeTypes
  PROVE  CellStatus(u, t) = Arms(u, results)[t]
<1>1. \A n : effectiveFor(u, n) = Effective(u, n, results)
  BY DEF effectiveFor, Effective, Stages
<1>2. {effectiveFor(u, n) : n \in CellNodes(u, t)}
        = {Effective(u, n, results) : n \in OfType(selected[u], t)}
  <2>1. CellNodes(u, t) = OfType(selected[u], t)
    BY DEF CellNodes
  <2> DEFINE N == OfType(selected[u], t)
             e(n) == effectiveFor(u, n)
             f(n) == Effective(u, n, results)
  <2>2. \A n : e(n) = f(n)
    BY <1>1
  <2>3. {e(n) : n \in N} = {f(n) : n \in N}
    <3> HIDE DEF N, e, f
    <3> QED BY <2>2
  <2> QED BY <2>1, <2>3
<1>3. CellStatus(u, t) = armStatus({Effective(u, n, results) : n \in OfType(selected[u], t)} \ {"missing"})
  BY <1>2 DEF CellStatus
<1> QED BY <1>3 DEF Arms

LEMMA EffectiveType ==
  ASSUME TypeOK, NEW u \in Urls, NEW n \in selected[u]
  PROVE  effectiveFor(u, n) \in Outcome \cup {"missing"}
<1>1. n \in Nodes
  BY DEF TypeOK
<1>2. \A s \in Stages : results[<<u, n, s>>] \in Outcome \cup {"missing"}
  BY <1>1 DEF TypeOK, Job
<1> QED BY <1>2 DEF effectiveFor, Stages

LEMMA StatusMeans ==
  ASSUME NEW given, given \subseteq Outcome
  PROVE  /\ armStatus(given) \in {"ok", "unavailable"} => "fail" \notin given
         /\ armStatus(given) = "fail" => "fail" \in given
         /\ armStatus(given) = "mixed" => "fail" \in given
<1>1. armStatus(given) \in {"ok", "unavailable"} => "fail" \notin given
  BY armStatusQuiet DEF Outcome
<1>2. armStatus(given) = "fail" => "fail" \in given
  BY Zenon DEF armStatus, Outcome
<1>3. armStatus(given) = "mixed" => "fail" \in given
  BY Zenon DEF armStatus, Outcome
<1> QED BY <1>1, <1>2, <1>3

\* A column shows fail or mixed exactly when it has a failing node.
LEMMA CellMeans ==
  ASSUME TypeOK, NEW u \in Urls, NEW t \in NodeTypes
  PROVE  /\ CellStatus(u, t) \in ArmStatuses
         /\ CellStatus(u, t) \in {"ok", "unavailable"} <=> Failing(u, t) = {}
<1> DEFINE given == {effectiveFor(u, n) : n \in CellNodes(u, t)} \ {"missing"}
<1>1. \A n \in CellNodes(u, t) : effectiveFor(u, n) \in Outcome \cup {"missing"}
  BY EffectiveType DEF CellNodes, OfType
<1>2. given \subseteq Outcome
  BY <1>1
<1>3. Failing(u, t) = {} <=> "fail" \notin given
  BY DEF Failing
<1>4. CellStatus(u, t) = armStatus(given)
  BY DEF CellStatus
<1> HIDE DEF given
<1>5. CellStatus(u, t) \in ArmStatuses
  BY <1>2, <1>4, armStatusType
<1> QED BY <1>2, <1>3, <1>4, <1>5, StatusMeans DEF ArmStatuses

-----------------------------------------------------------------------------
(* What each classification rests on *)

Gsa(arms) == combineGsa(arms["gsa_remotenet"], arms["gsa_client"])

LEMMA classifyMeans ==
  ASSUME NEW arms
  PROVE  /\ classify(arms) = "healthy" => arms["azure_direct"] = "ok" /\ Gsa(arms) = "ok"
         /\ classify(arms) = "likely_gsa_impacting" =>
              arms["azure_direct"] = "ok" /\ Gsa(arms) = "fail"
         /\ classify(arms) = "likely_cloudflare_impacting" =>
              /\ arms["azure_direct"] = "ok" /\ Gsa(arms) = "ok"
              /\ arms["cloudflare_client"] = "fail"
         /\ classify(arms) \in {"azure_direct_environment_issue", "azure_egress_or_region_issue",
                                "common_destination_or_site_issue"} =>
              arms["azure_direct"] = "fail"
         /\ classify(arms) = "node_group_disagreement" => Gsa(arms) = "mixed"
<1>1. classify(arms) = "healthy" => arms["azure_direct"] = "ok" /\ Gsa(arms) = "ok"
  BY Zenon DEF classify, Gsa
<1>2. classify(arms) = "likely_gsa_impacting" => arms["azure_direct"] = "ok" /\ Gsa(arms) = "fail"
  BY Zenon DEF classify, Gsa
<1>3. classify(arms) = "likely_cloudflare_impacting" =>
        /\ arms["azure_direct"] = "ok" /\ Gsa(arms) = "ok" /\ arms["cloudflare_client"] = "fail"
  BY Zenon DEF classify, Gsa
<1>4. classify(arms) = "azure_direct_environment_issue" => arms["azure_direct"] = "fail"
  BY Zenon DEF classify
<1>5. classify(arms) = "azure_egress_or_region_issue" => arms["azure_direct"] = "fail"
  BY Zenon DEF classify
<1>6. classify(arms) = "common_destination_or_site_issue" => arms["azure_direct"] = "fail"
  BY Zenon DEF classify
<1>7. classify(arms) = "node_group_disagreement" => Gsa(arms) = "mixed"
  BY Zenon DEF classify, Gsa
<1> QED BY <1>1, <1>2, <1>3, <1>4, <1>5, <1>6, <1>7

LEMMA combineGsaMeans ==
  ASSUME NEW r \in ArmStatuses, NEW c \in ArmStatuses
  PROVE  /\ combineGsa(r, c) = "ok" => {r, c} \subseteq {"ok", "unavailable"}
         /\ combineGsa(r, c) = "fail" => {r, c} \subseteq {"fail", "unavailable"} /\ "fail" \in {r, c}
         /\ combineGsa(r, c) = "mixed" => /\ {r, c} \cap {"ok", "mixed"} # {}
                                          /\ {r, c} \cap {"fail", "mixed"} # {}
<1>1. combineGsa(r, c) = "ok" => {r, c} \in {{"ok"}, {"ok", "unavailable"}}
  BY combineGsaOk
<1>2. combineGsa(r, c) = "fail" => {r, c} \in {{"fail"}, {"fail", "unavailable"}}
  BY Zenon DEF combineGsa
<1>3. combineGsa(r, c) = "mixed" => "mixed" \in {r, c} \/ {"ok", "fail"} \subseteq {r, c}
  BY Zenon DEF combineGsa
<1> QED BY <1>1, <1>2, <1>3

-----------------------------------------------------------------------------
(* Which URLs have a verdict *)

\* Only a completed URL is classified as anything but pending or, when it is
\* blocked, inconclusive.
VerdictInv ==
  \A u \in Urls : classification[u] \notin {"pending", "inconclusive"} => status[u] = "completed"

LEMMA VerdictStep == TypeOK /\ VerdictInv /\ [Next]_vars => VerdictInv'
<1> SUFFICES ASSUME TypeOK, VerdictInv, [Next]_vars PROVE VerdictInv'
  OBVIOUS
<1> USE DEF VerdictInv
<1>1. ASSUME NEW r, NEW us \in SUBSET Urls, NEW S, Enqueue(r, us, S) PROVE VerdictInv'
  BY <1>1 DEF Enqueue, TypeOK
<1>2. ASSUME NEW j \in Job, NEW outcome, NEW q, recordResult(j, outcome, q) PROVE VerdictInv'
  <2>0. j[1] \in Urls
    BY DEF Job
  <2> DEFINE res == [results EXCEPT ![j] = outcome]
  <2> HIDE DEF res
  <2>1. CASE Stay(j[1], res, q)
    BY <2>1 DEF Stay
  <2>2. CASE StartBrowserValidation(j[1], res, q)
    \* The guard leaves no URL with a verdict: its status was not completed.
    BY <2>0, <2>2 DEF StartBrowserValidation, TypeOK
  <2>3. CASE finalize(j[1], res, q)
    BY <2>0, <2>3 DEF finalize, TypeOK
  <2> QED BY <1>2, <2>1, <2>2, <2>3 DEF recordResult, res
<1>3. ASSUME NEW r \in Runs, NEW S, NEW us \in SUBSET Urls, NEW rejected \in BOOLEAN,
             createRun(r, us, S, rejected)
      PROVE  VerdictInv'
  BY <1>1, <1>3 DEF createRun
<1>4. ASSUME NEW r \in Runs, NEW S, NEW u \in Urls, queueUrl(r, u, S) PROVE VerdictInv'
  BY <1>1, <1>4 DEF queueUrl
<1>5. ASSUME NEW j \in sendq, SendFails(j) PROVE VerdictInv'
  BY <1>2, <1>5 DEF SendFails, TypeOK
<1>6. ASSUME NEW a \in answers, onResult(a[1], a[2]) PROVE VerdictInv'
  <2>1. a[1] \in Job
    BY DEF TypeOK
  <2> QED BY <1>2, <1>6, <2>1 DEF onResult
<1>7. CASE \/ \E j \in sendq : SendJob(j)
           \/ \E u \in packetq : GeneratePacket(u)
           \/ \E r \in Runs : queueRejectedUrl(r)
           \/ \E j \in delivered, o \in Outcome : AgentAnswers(j, o)
           \/ \E n \in Nodes : SessionChanges(n)
           \/ UNCHANGED vars
  BY <1>7 DEF SendJob, GeneratePacket, queueRejectedUrl, AgentAnswers, SessionChanges, vars
<1> QED BY <1>3, <1>4, <1>5, <1>6, <1>7 DEF Next, Microtask, Event

-----------------------------------------------------------------------------
(* What the report shows of a classified URL *)

\* The URLs whose verdict the report shows beside their columns.
Judged(u) == classification[u] \notin {"pending", "inconclusive"}

LEMMA JudgedByCells ==
  ASSUME TypeOK, VerdictMatchesEvidence, VerdictInv, NEW u \in Urls, Judged(u)
  PROVE  \E arms : /\ classification[u] = classify(arms)
                   /\ \A t \in NodeTypes : arms[t] = CellStatus(u, t)
<1>1. classification[u] = classify(Arms(u, results))
  BY DEF Judged, VerdictInv, VerdictMatchesEvidence, Verdict
<1>2. \A t \in NodeTypes : Arms(u, results)[t] = CellStatus(u, t)
  BY CellIsArm
<1> QED BY <1>1, <1>2

\* The rows of a column are its failing nodes.
LEMMA RowsOfColumn ==
  ASSUME TypeOK, NEW u \in Urls, NEW t \in Arm_Columns, Failing(u, t) # {},
         classification[u] \notin {"healthy", "pending"}
  PROVE  \E row \in evidenceRows(u) : row[1] = t
<1>1. PICK n : n \in Failing(u, t)
  OBVIOUS
<1>2. n \in Nodes
  BY <1>1 DEF Failing, CellNodes, OfType, TypeOK
<1>3. <<t, n>> \in evidenceRows(u)
  BY <1>1, <1>2 DEF evidenceRows, classificationOf
<1> QED BY <1>3

\* A column with a failing node that can only be fail or unavailable is fail.
LEMMA FailingColumn ==
  ASSUME TypeOK, NEW u \in Urls, NEW t \in Arm_Columns, Failing(u, t) # {},
         \A s \in Before(t) : Failing(u, s) = {},
         CellStatus(u, t) \in {"fail", "unavailable"},
         classification[u] \notin {"healthy", "pending"}
  PROVE  /\ primaryArm(u) = t
         /\ CellStatus(u, t) = "fail"
         /\ \E row \in evidenceRows(u) : row[1] = t
<1>1. t \in NodeTypes
  BY DEF Arm_Columns, NodeTypes
<1>2. CellStatus(u, t) = "fail"
  BY <1>1, CellMeans
<1>3. primaryArm(u) = t
  BY FirstColumn
<1> QED BY <1>2, <1>3, RowsOfColumn

LEMMA AccusedIsShown ==
  ASSUME TypeOK, VerdictMatchesEvidence, VerdictInv, NEW u \in Urls,
         classification[u] \in DOMAIN Accused
  PROVE  /\ primaryArm(u) \in Accused[classification[u]]
         /\ CellStatus(u, primaryArm(u)) = "fail"
         /\ \E row \in evidenceRows(u) : row[1] = primaryArm(u)
<1> DEFINE c == classification[u]
           cell(t) == CellStatus(u, t)
           gsa == combineGsa(cell("gsa_remotenet"), cell("gsa_client"))
<1>0. c \in {"likely_gsa_impacting", "likely_cloudflare_impacting",
             "azure_direct_environment_issue", "azure_egress_or_region_issue",
             "common_destination_or_site_issue"}
  BY DEF Accused
<1>1. PICK arms : c = classify(arms) /\ \A t \in NodeTypes : arms[t] = cell(t)
  BY <1>0, JudgedByCells DEF Judged
<1>2. /\ arms["azure_direct"] = cell("azure_direct")
      /\ arms["cloudflare_client"] = cell("cloudflare_client")
      /\ Gsa(arms) = gsa
  BY <1>1 DEF Gsa, NodeTypes
<1>3. \A t \in NodeTypes : /\ cell(t) \in ArmStatuses
                           /\ cell(t) \in {"ok", "unavailable"} <=> Failing(u, t) = {}
  BY CellMeans
<1>c. c \notin {"healthy", "pending"}
  BY <1>0
<1>4. CASE c = "likely_gsa_impacting"
  <2>1. cell("azure_direct") = "ok" /\ gsa = "fail"
    BY <1>1, <1>2, <1>4, classifyMeans
  <2>2. /\ {cell("gsa_remotenet"), cell("gsa_client")} \subseteq {"fail", "unavailable"}
        /\ "fail" \in {cell("gsa_remotenet"), cell("gsa_client")}
    BY <1>3, <2>1, combineGsaMeans DEF NodeTypes
  <2>3. Failing(u, "azure_direct") = {}
    BY <1>3, <2>1 DEF NodeTypes
  <2>4. CASE Failing(u, "gsa_remotenet") # {}
    <3>1. /\ primaryArm(u) = "gsa_remotenet"
          /\ cell("gsa_remotenet") = "fail"
          /\ \E row \in evidenceRows(u) : row[1] = "gsa_remotenet"
      BY <1>c, <2>2, <2>3, <2>4, FailingColumn, BeforeFacts DEF Arm_Columns
    <3>2. "gsa_remotenet" \in Accused[c]
      BY <1>4 DEF Accused, GsaColumns
    <3> QED BY <3>1, <3>2
  <2>5. CASE Failing(u, "gsa_remotenet") = {}
    <3>0. Failing(u, "gsa_client") # {}
      BY <1>3, <2>2, <2>5 DEF NodeTypes
    <3>1. /\ primaryArm(u) = "gsa_client"
          /\ cell("gsa_client") = "fail"
          /\ \E row \in evidenceRows(u) : row[1] = "gsa_client"
      BY <1>c, <2>2, <2>3, <2>5, <3>0, FailingColumn, BeforeFacts DEF Arm_Columns
    <3>2. "gsa_client" \in Accused[c]
      BY <1>4 DEF Accused, GsaColumns
    <3> QED BY <3>1, <3>2
  <2> QED BY <2>4, <2>5
<1>5. CASE c = "likely_cloudflare_impacting"
  <2>1. cell("azure_direct") = "ok" /\ gsa = "ok" /\ cell("cloudflare_client") = "fail"
    BY <1>1, <1>2, <1>5, classifyMeans
  <2>2. {cell("gsa_remotenet"), cell("gsa_client")} \subseteq {"ok", "unavailable"}
    BY <1>3, <2>1, combineGsaMeans DEF NodeTypes
  <2>3. \A t \in Before("cloudflare_client") : Failing(u, t) = {}
    BY <1>3, <2>1, <2>2, BeforeFacts DEF NodeTypes
  <2>4. Failing(u, "cloudflare_client") # {}
    BY <1>3, <2>1 DEF NodeTypes
  <2>5. /\ primaryArm(u) = "cloudflare_client"
        /\ cell("cloudflare_client") = "fail"
        /\ \E row \in evidenceRows(u) : row[1] = "cloudflare_client"
    BY <1>c, <2>1, <2>3, <2>4, FailingColumn DEF Arm_Columns
  <2>6. "cloudflare_client" \in Accused[c]
    BY <1>5 DEF Accused
  <2> QED BY <2>5, <2>6
<1>6. CASE c \in {"azure_direct_environment_issue", "azure_egress_or_region_issue",
                  "common_destination_or_site_issue"}
  <2>1. cell("azure_direct") = "fail"
    BY <1>1, <1>2, <1>6, classifyMeans
  <2>2. Failing(u, "azure_direct") # {}
    BY <1>3, <2>1 DEF NodeTypes
  <2>3. /\ primaryArm(u) = "azure_direct"
        /\ cell("azure_direct") = "fail"
        /\ \E row \in evidenceRows(u) : row[1] = "azure_direct"
    BY <1>c, <2>1, <2>2, FailingColumn, BeforeFacts DEF Arm_Columns
  <2>4. "azure_direct" \in Accused[c]
    BY <1>6 DEF Accused
  <2> QED BY <2>3, <2>4
<1> QED BY <1>0, <1>4, <1>5, <1>6

LEMMA DisagreementIsShown ==
  ASSUME TypeOK, VerdictMatchesEvidence, VerdictInv, NEW u \in Urls,
         classification[u] = "node_group_disagreement"
  PROVE  /\ \E row \in evidenceRows(u) : row[1] \in GsaColumns
         /\ \E t \in GsaColumns : CellStatus(u, t) \in {"ok", "mixed"}
<1> DEFINE cell(t) == CellStatus(u, t)
<1>1. PICK arms : /\ classification[u] = classify(arms)
                  /\ \A t \in NodeTypes : arms[t] = cell(t)
  BY JudgedByCells DEF Judged
<1>2. combineGsa(cell("gsa_remotenet"), cell("gsa_client")) = "mixed"
  BY <1>1, classifyMeans DEF Gsa, NodeTypes
<1>3. \A t \in NodeTypes : /\ cell(t) \in ArmStatuses
                           /\ cell(t) \in {"ok", "unavailable"} <=> Failing(u, t) = {}
  BY CellMeans
<1>4. /\ {cell("gsa_remotenet"), cell("gsa_client")} \cap {"ok", "mixed"} # {}
      /\ {cell("gsa_remotenet"), cell("gsa_client")} \cap {"fail", "mixed"} # {}
  BY <1>2, <1>3, combineGsaMeans DEF NodeTypes
<1>5. PICK t \in GsaColumns : cell(t) \in {"fail", "mixed"}
  BY <1>4 DEF GsaColumns
<1>6. Failing(u, t) # {} /\ t \in Arm_Columns
  BY <1>3, <1>5 DEF GsaColumns, NodeTypes, Arm_Columns
<1>7. \E row \in evidenceRows(u) : row[1] = t
  BY <1>6, RowsOfColumn
<1>8. \E s \in GsaColumns : cell(s) \in {"ok", "mixed"}
  BY <1>4 DEF GsaColumns
<1> QED BY <1>7, <1>8

LEMMA HealthIsShown ==
  ASSUME TypeOK, VerdictMatchesEvidence, VerdictInv, NEW u \in Urls,
         classification[u] = "healthy", NEW t \in GsaColumns \cup {"azure_direct"}
  PROVE  CellStatus(u, t) \in {"ok", "unavailable"}
<1> DEFINE cell(s) == CellStatus(u, s)
<1>1. PICK arms : /\ classification[u] = classify(arms)
                  /\ \A s \in NodeTypes : arms[s] = cell(s)
  BY JudgedByCells DEF Judged
<1>2. cell("azure_direct") = "ok" /\ combineGsa(cell("gsa_remotenet"), cell("gsa_client")) = "ok"
  BY <1>1, classifyMeans DEF Gsa, NodeTypes
<1>3. \A s \in NodeTypes : cell(s) \in ArmStatuses
  BY CellMeans
<1>4. {cell("gsa_remotenet"), cell("gsa_client")} \subseteq {"ok", "unavailable"}
  BY <1>2, <1>3, combineGsaMeans DEF NodeTypes
<1> QED BY <1>2, <1>4 DEF GsaColumns

\* A row is about a node the URL selected, which the inventory lists.
LEMMA RowsAreListed ==
  ASSUME NEW r \in Runs, NEW u \in UrlViews(r), NEW row \in evidenceRows(u)
  PROVE  row[2] \in NodeInventory(r, live)
<1>1. row[2] \in selected[u]
  BY DEF evidenceRows, Failing, CellNodes, OfType
<1> QED BY <1>1 DEF NodeInventory

LEMMA Consistent ==
  ASSUME TypeOK, VerdictMatchesEvidence, VerdictInv
  PROVE  BlameHasEvidence
<1> SUFFICES ASSUME NEW r \in Runs
             PROVE  /\ \A u \in UrlViews(r) :
                         /\ classificationOf(u) \in DOMAIN Accused =>
                              /\ primaryArm(u) \in Accused[classificationOf(u)]
                              /\ CellStatus(u, primaryArm(u)) = "fail"
                              /\ \E row \in evidenceRows(u) : row[1] = primaryArm(u)
                         /\ classificationOf(u) = "node_group_disagreement" =>
                              /\ \E row \in evidenceRows(u) : row[1] \in GsaColumns
                              /\ \E t \in GsaColumns : CellStatus(u, t) \in {"ok", "mixed"}
                         /\ classificationOf(u) = "healthy" =>
                              \A t \in GsaColumns \cup {"azure_direct"} :
                                CellStatus(u, t) \in {"ok", "unavailable"}
                         /\ \A row \in evidenceRows(u) : row[2] \in NodeInventory(r, live)
                    /\ \A c \in DOMAIN Accused :
                         Summary(r, c) = Cardinality({u \in UrlViews(r) :
                                           classificationOf(u) = c /\ evidenceRows(u) # {}})
  BY DEF BlameHasEvidence
<1>1. \A u \in UrlViews(r) : u \in Urls /\ classificationOf(u) = classification[u]
  BY DEF UrlViews, classificationOf
<1>2. ASSUME NEW u \in UrlViews(r), classificationOf(u) \in DOMAIN Accused
      PROVE  /\ primaryArm(u) \in Accused[classificationOf(u)]
             /\ CellStatus(u, primaryArm(u)) = "fail"
             /\ \E row \in evidenceRows(u) : row[1] = primaryArm(u)
  BY <1>1, <1>2, AccusedIsShown
<1>3. ASSUME NEW u \in UrlViews(r), classificationOf(u) = "node_group_disagreement"
      PROVE  /\ \E row \in evidenceRows(u) : row[1] \in GsaColumns
             /\ \E t \in GsaColumns : CellStatus(u, t) \in {"ok", "mixed"}
  BY <1>1, <1>3, DisagreementIsShown
<1>4. ASSUME NEW u \in UrlViews(r), classificationOf(u) = "healthy",
             NEW t \in GsaColumns \cup {"azure_direct"}
      PROVE  CellStatus(u, t) \in {"ok", "unavailable"}
  BY <1>1, <1>4, HealthIsShown
<1>5. ASSUME NEW c \in DOMAIN Accused
      PROVE  Summary(r, c) = Cardinality({u \in UrlViews(r) :
                               classificationOf(u) = c /\ evidenceRows(u) # {}})
  <2>1. \A u \in UrlViews(r) : classificationOf(u) = c => evidenceRows(u) # {}
    BY <1>2
  <2>2. {u \in UrlViews(r) : classificationOf(u) = c}
          = {u \in UrlViews(r) : classificationOf(u) = c /\ evidenceRows(u) # {}}
    BY <2>1
  <2> QED BY <2>2 DEF Summary
<1> QED BY <1>2, <1>3, <1>4, <1>5, RowsAreListed

\* However the answers came, in whatever order and however often, a report
\* rendered at any moment agrees with itself.
THEOREM ReportsAreConsistent == Spec => []BlameHasEvidence
<1>1. Init => VerdictInv
  BY DEF Init, VerdictInv
<1>2. TypeOK /\ VerdictInv /\ [Next]_vars => VerdictInv'
  BY VerdictStep
<1>3. TypeOK /\ IInv /\ VerdictInv => BlameHasEvidence
  BY Consistent DEF IInv
<1> QED BY <1>1, <1>2, <1>3, Invariance, PTL DEF Spec
===============================================================================
