---------------------------- MODULE EvidenceProofs ----------------------------
(***************************************************************************)
(* Theorems about Evidence, for every set of nodes, pages and digests and  *)
(* every number of crashes.                                                *)
(***************************************************************************)
EXTENDS Evidence, TLAPS

USE DEF workVars, storeVars

(***************************************************************************)
(* The inductive invariant.  Where the worker of a node stands tells which *)
(* layers its probe has passed and which files it can have; what the       *)
(* control plane has recorded tells where a worker can stand.              *)
(***************************************************************************)

Probing == {"dns", "tcp", "tls", "http"}
Validating == {"launch", "goto", "screenshot", "close", "keep", "upload", "response"}

AllLayers == IF secure THEN {"dns", "tcp", "tls"} ELSE {"dns", "tcp"}

\* A probe under way has no verdict yet and has passed the layers before its own.
UnderWay(n) ==
  at[n] \in Probing =>
    /\ out[n].reason = "UNKNOWN" /\ out[n].failureLayer = "none"
    /\ out[n].timeoutPhase = "none" /\ out[n].ok = FALSE
    /\ out[n].hops \in 0..MaxRedirects
    /\ at[n] = "dns"  => out[n].passed = {}
    /\ at[n] = "tcp"  => out[n].passed = {"dns"}
    /\ at[n] = "tls"  => out[n].passed = {"dns", "tcp"} /\ secure = TRUE
    /\ at[n] = "http" => out[n].passed = AllLayers

\* What BlameIsReached says of one record.
Blamed(o) ==
  o.reason # "UNKNOWN" =>
    /\ \/ o.passed = CASE o.ok \/ o.failureLayer = "http" -> AllLayers
                       [] o.failureLayer = "tls" -> {"dns", "tcp"}
                       [] o.failureLayer = "tcp" -> {"dns"}
                       [] o.failureLayer = "dns" -> {}
                       [] OTHER -> IF o.reason = "NETWORK_FAILURE" THEN {} ELSE AllLayers
       \/ o.passed = {} /\ ~o.ok /\ o.failureLayer \in host
    /\ o.failureLayer = "tls" => secure \/ o.passed = {}
    /\ o.failureLayer = "timeout" => o.passed = {}
    /\ (o.reason = "TIMEOUT") <=> (o.timeoutPhase # "none")
    /\ ~o.ok /\ o.failureLayer = "none" => o.reason \in {"HTTP_ERROR", "NETWORK_FAILURE"}

ProbeInv == \A n \in Nodes : UnderWay(n) /\ Blamed(out[n])

\* What the control plane has recorded, and who may still answer.
RecordInv ==
  /\ \A n \in Nodes : url # "forgotten" =>
       /\ at[n] \in Probing => result[n]["initial_test"] = Missing
       /\ at[n] \in Validating => /\ result[n]["browser_validation"] = Missing
                                  /\ url = "browser_validation_running"
  /\ url \in {"browser_validation_running", "completed"} =>
       \A n \in Nodes : result[n]["initial_test"] # Missing
  /\ \A n \in Nodes : result[n]["browser_validation"] # Missing =>
       result[n]["browser_validation"].artifactRefs \subseteq refs[n]
  /\ url = "completed" => packet = generate(result)

\* A node whose browser has not met the page yet has left no trace.
Untouched(n) ==
  /\ page[n] = NoPage /\ harFile[n] = "none"
  /\ artifacts[n] = {} /\ refs[n] = {} /\ putting[n] = NoArtifact /\ blob[n] = "absent"

Fresh(n) == \/ at[n] \in Probing \cup {"launch", "goto"}
            \/ at[n] = "done" /\ url # "forgotten" /\ result[n]["browser_validation"] = Missing

\* An archive has the digest of its own node, a screenshot one of Shots.
Owned(n, a) == a \in Artifact /\ (IF a.kind = "har" THEN a.digest = n ELSE a.digest \in Shots)

\* A node that met a healthy page says so, and has its archive on disk at most
\* between the closing of the browser and the answer.
Clean(n) ==
  /\ \A a \in artifacts[n] \cup refs[n] : a.kind # "har"
  /\ putting[n] # NoArtifact => putting[n].kind # "har"
  /\ blob[n] = "absent"
  /\ harFile[n] = "written" => at[n] \in {"keep", "killed"}
  /\ at[n] \in {"screenshot", "close", "keep"} => answer[n].ok

NodeInv(n) ==
  /\ Fresh(n) => Untouched(n)
  /\ \A a \in artifacts[n] \cup refs[n] : Owned(n, a)
  /\ putting[n] # NoArtifact => Owned(n, putting[n]) /\ at[n] \in {"response", "killed"}
  /\ page[n] # NoPage /\ Healthy(page[n]) => Clean(n)

\* A file is open only while somebody writes it, and both files of a digest
\* are there once a reference was given.
StoreInv ==
  /\ \A n \in Nodes : IF putting[n] = NoArtifact THEN part[n] = "bytes"
                      ELSE /\ blob[putting[n].digest] # "absent"
                           /\ part[n] = "json" => meta[putting[n].digest] # "absent"
  /\ \A n \in Nodes : \A a \in refs[n] : blob[a.digest] # "absent" /\ meta[a.digest] # "absent"
  /\ \A d \in Digests : blob[d] = "open" => \E m \in Nodes : Writes(m, d, "bytes")
  /\ \A d \in Digests : meta[d] = "open" => \E m \in Nodes : Writes(m, d, "json")

FilesInv == (\A n \in Nodes : NodeInv(n)) /\ StoreInv

IInv == TypeOK /\ ProbeInv /\ RecordInv /\ FilesInv

-----------------------------------------------------------------------------
(* Lemmas about the operators *)

LEMMA MissingIsNoAnswer == Missing \notin Answers
<1>1. DOMAIN Missing = {"stage"}
  BY DEF Missing
<1>2. \A a \in Answers : DOMAIN a = {"ok", "artifactRefs"}
  BY DEF Answers
<1> QED BY <1>1, <1>2

LEMMA NoArtifactIsNone == NoArtifact \notin Artifact
<1>1. DOMAIN NoArtifact = {"kind"}
  BY DEF NoArtifact
<1>2. \A a \in Artifact : DOMAIN a = {"kind", "digest"}
  BY DEF Artifact
<1> QED BY <1>1, <1>2

LEMMA SummaryIsAnswer ==
  ASSUME NEW r \in Answers
  PROVE  summarizeResult(r) \in Answers /\ summarizeResult(r).artifactRefs = {}
BY DEF summarizeResult, Answers

\* The artifact that is uploaded next is one of those that wait.
LEMMA NextArtifactWaits ==
  ASSUME TypeOK, NEW n \in Nodes, artifacts[n] # {}
  PROVE  NextArtifact(n) \in artifacts[n]
<1>1. \A a \in artifacts[n] : a.kind \in {"screenshot", "har"}
  BY DEF TypeOK, Artifact, Kinds
<1>2. \E a \in artifacts[n] : a.kind = "screenshot" \/ \A b \in artifacts[n] : b.kind = "har"
  BY <1>1
<1> QED BY <1>2 DEF NextArtifact

\* The reason of every text is one of Reasons, and no layer's name follows
\* from a reason but its own.
LEMMA ReasonFacts ==
  /\ \A text : reasonFromError(text) \in {"DNS_FAILURE", "TLS_FAILURE", "TIMEOUT", "TCP_FAILURE",
                                          "NETWORK_FAILURE"}
  /\ \A text : layeredReason("tcp", text) = "TCP_FAILURE"
  /\ \A text : layeredReason("tls", text) = "TLS_FAILURE"
  /\ \A text : layeredReason("http", text) \in Reasons
  /\ failureLayerFromReason("DNS_FAILURE") = "dns"
  /\ failureLayerFromReason("TLS_FAILURE") = "tls"
  /\ failureLayerFromReason("TIMEOUT") = "timeout"
  /\ failureLayerFromReason("TCP_FAILURE") = "tcp"
  /\ failureLayerFromReason("NETWORK_FAILURE") = "none"
<1>1. \A text : reasonFromError(text) \in {"DNS_FAILURE", "TLS_FAILURE", "TIMEOUT", "TCP_FAILURE",
                                           "NETWORK_FAILURE"}
  BY Zenon DEF reasonFromError
<1>2. \A text : layeredReason("tcp", text) = "TCP_FAILURE"
  BY Zenon DEF layeredReason
<1>3. \A text : layeredReason("tls", text) = "TLS_FAILURE"
  BY Zenon DEF layeredReason
<1>4. \A text : layeredReason("http", text) \in Reasons
  <2>1. \A text : layeredReason("http", text) = IF "timeout" \in text THEN "TIMEOUT"
                                                ELSE reasonFromError(text)
    BY Zenon DEF layeredReason
  <2> QED BY <1>1, <2>1 DEF Reasons
<1>5. /\ failureLayerFromReason("DNS_FAILURE") = "dns"
      /\ failureLayerFromReason("TLS_FAILURE") = "tls"
      /\ failureLayerFromReason("TIMEOUT") = "timeout"
      /\ failureLayerFromReason("TCP_FAILURE") = "tcp"
      /\ failureLayerFromReason("NETWORK_FAILURE") = "none"
  BY Zenon DEF failureLayerFromReason
<1> QED BY <1>1, <1>2, <1>3, <1>4, <1>5

\* A lookup error blames DNS, nothing, or what is found in the host's name.
LEMMA LookupBlames ==
  ASSUME NEW e \in DnsErrors
  PROVE  LET reason == reasonFromError(LookupText(e, host))
             blamed == failureLayerFromReason(reason)
         IN  \/ reason = "DNS_FAILURE" /\ blamed = "dns"
             \/ reason = "NETWORK_FAILURE" /\ blamed = "none"
             \/ reason \in {"TLS_FAILURE", "TCP_FAILURE"} /\ blamed \in host \cap {"tls", "tcp"}
             \/ reason = "TIMEOUT" /\ blamed = "timeout" /\ blamed \in host
<1> DEFINE text == LookupText(e, host)
<1>1. ErrorText("ENOTFOUND") = {"dns"} /\ ErrorText("EAI_FAIL") = {}
  BY Zenon DEF ErrorText
<1>2. \A g \in text : g = "dns" \/ g \in host
  BY <1>1 DEF LookupText, DnsErrors
<1> HIDE DEF text
<1>3. reasonFromError(text) = "TLS_FAILURE" => "tls" \in text
  BY Zenon DEF reasonFromError
<1>4. reasonFromError(text) = "TIMEOUT" => "timeout" \in text
  BY Zenon DEF reasonFromError
<1>5. reasonFromError(text) = "TCP_FAILURE" => text = {"tcp"}
  BY Zenon DEF reasonFromError
<1> QED BY <1>2, <1>3, <1>4, <1>5, ReasonFacts DEF text

\* The record of a layer's failure blames that layer; that of a lookup may not.
LEMMA FailureFacts ==
  ASSUME NEW record \in ProbeRecord, NEW layer \in Probing, NEW e,
         layer = "dns" => e \in DnsErrors
  PROVE  LET f == Failure(layer, e, record)
         IN  /\ f \in ProbeRecord
             /\ f.passed = record.passed /\ f.ok = record.ok
             /\ layer = "dns" =>
                  \/ f.reason = "DNS_FAILURE" /\ f.failureLayer = "dns"
                  \/ f.reason = "NETWORK_FAILURE" /\ f.failureLayer = "none"
                  \/ f.failureLayer \in host \cap {"tls", "tcp", "timeout"}
             /\ layer # "dns" => f.failureLayer = layer
             /\ f.reason # "TIMEOUT" <=> f.timeoutPhase = "none"
<1> DEFINE reason == IF layer = "dns" THEN reasonFromError(LookupText(e, host))
                     ELSE layeredReason(layer, ErrorText(e))
           blamed == IF layer = "dns" THEN failureLayerFromReason(reason) ELSE layer
           phase == IF reason # "TIMEOUT" THEN "none"
                    ELSE IF blamed = "none" THEN "http" ELSE blamed
<1>1. reason \in Reasons
  BY ReasonFacts DEF Probing, Reasons
<1>2. /\ layer = "dns" =>
           \/ reason = "DNS_FAILURE" /\ blamed = "dns"
           \/ reason = "NETWORK_FAILURE" /\ blamed = "none"
           \/ reason \in {"TLS_FAILURE", "TCP_FAILURE"} /\ blamed \in host \cap {"tls", "tcp"}
           \/ reason = "TIMEOUT" /\ blamed = "timeout" /\ blamed \in host
      /\ layer # "dns" => blamed = layer
  BY LookupBlames
<1>3. /\ blamed \in {"none", "dns", "tcp", "tls", "http", "timeout"}
      /\ phase \in {"none", "dns", "tcp", "tls", "http", "timeout"}
  BY <1>2 DEF Probing
<1>4. reason # "TIMEOUT" <=> phase = "none"
  BY <1>2, <1>3
<1>5. Failure(layer, e, record) =
        [record EXCEPT !.reason = reason, !.failureLayer = blamed, !.timeoutPhase = phase]
  BY DEF Failure
<1> HIDE DEF reason, blamed, phase
<1>6. [record EXCEPT !.reason = reason, !.failureLayer = blamed, !.timeoutPhase = phase]
        \in ProbeRecord
  BY <1>1, <1>3 DEF ProbeRecord
<1> DEFINE f == Failure(layer, e, record)
<1>7. /\ f.passed = record.passed /\ f.ok = record.ok
      /\ f.reason = reason /\ f.failureLayer = blamed /\ f.timeoutPhase = phase
  BY <1>5 DEF ProbeRecord
<1> QED BY <1>2, <1>4, <1>5, <1>6, <1>7

\* What recording an answer does.
LEMMA RecordFacts ==
  ASSUME TypeOK, NEW n \in Nodes, NEW stage \in Stages, NEW r \in Answers, Record(n, stage, r)
  PROVE  /\ result' \in [Nodes -> [Stages -> Answers \cup {Missing}]]
         /\ url' \in {"initial_tests_running", "browser_validation_running", "completed", "forgotten"}
         /\ url = "forgotten" <=> url' = "forgotten"
         /\ url = "forgotten" => result' = result
         /\ url # "forgotten" =>
              /\ \A m \in Nodes, s \in Stages :
                   result'[m][s] = IF m = n /\ s = stage THEN summarizeResult(r) ELSE result[m][s]
              /\ \/ UNCHANGED <<url, packet>>
                 \/ /\ stage = "initial_test" /\ url' = "browser_validation_running"
                    /\ \A m \in Nodes : result'[m][stage] # Missing
                 \/ /\ url' = "completed" /\ packet' = generate(result')
                    /\ \A m \in Nodes : result'[m][stage] # Missing
<1>1. CASE url = "forgotten"
  BY <1>1 DEF Record, TypeOK
<1>2. CASE url # "forgotten"
  <2> DEFINE sum == summarizeResult(r)
             res == [result EXCEPT ![n][stage] = sum]
  <2>1. sum \in Answers
    BY SummaryIsAnswer
  <2>2. result' = res
    BY <1>2 DEF Record
  <2> HIDE DEF sum
  <2>3. /\ res \in [Nodes -> [Stages -> Answers \cup {Missing}]]
        /\ \A m \in Nodes, s \in Stages :
             res[m][s] = IF m = n /\ s = stage THEN sum ELSE result[m][s]
    BY <2>1 DEF TypeOK
  <2>4. \/ UNCHANGED <<url, packet>>
        \/ /\ stage = "initial_test" /\ url' = "browser_validation_running"
           /\ \A m \in Nodes : res[m][stage] # Missing
        \/ /\ url' = "completed" /\ packet' = generate(res)
           /\ \A m \in Nodes : res[m][stage] # Missing
    BY <1>2 DEF Record, sum
  <2> HIDE DEF res
  <2>5. url' \in {"initial_tests_running", "browser_validation_running", "completed"}
    BY <1>2, <2>4 DEF TypeOK
  <2> QED BY <1>2, <2>2, <2>3, <2>4, <2>5 DEF sum
<1> QED BY <1>1, <1>2

-----------------------------------------------------------------------------
(* Type correctness *)

\* What an answered probe changes.
LEMMA ProbeEndsType ==
  ASSUME TypeOK, NEW n \in Nodes, NEW from, Go(n, from, "done"), NEW record \in ProbeRecord,
         ProbeEnds(n, record)
  PROVE  TypeOK'
<1>0. at' \in [Nodes -> Places]
  BY DEF Go, TypeOK, Places
<1>1. out' \in [Nodes -> ProbeRecord]
  BY DEF ProbeEnds, TypeOK
<1>2. record.ok \in BOOLEAN
  BY DEF ProbeRecord
<1> DEFINE r == [ok |-> record.ok, artifactRefs |-> {}]
<1>3. r \in Answers
  BY <1>2 DEF Answers
<1>4. Record(n, "initial_test", r)
  BY DEF ProbeEnds
<1> HIDE DEF r
<1>5. /\ result' \in [Nodes -> [Stages -> Answers \cup {Missing}]]
      /\ url' \in {"initial_tests_running", "browser_validation_running", "completed", "forgotten"}
  BY <1>3, <1>4, RecordFacts DEF Stages
<1>6. UNCHANGED <<secure, host, workVars, artifacts, refs, storeVars, faults>>
  BY DEF ProbeEnds
<1>7. AnswerTypeOK'
  BY <1>6 DEF TypeOK, AnswerTypeOK
<1> QED BY <1>0, <1>1, <1>5, <1>6, <1>7 DEF TypeOK

LEMMA ProbeStepType ==
  ASSUME TypeOK, ProbeInv, NEW n \in Nodes, ProbeStep(n)
  PROVE  TypeOK'
<1> USE EvidenceAssumption
<1>0. out[n] \in ProbeRecord
  BY DEF TypeOK
<1>1. ASSUME NEW layer \in {"dns", "tcp", "tls"}, NEW next \in {"tcp", "tls", "http"},
             Passes(n, layer, next)
      PROVE  TypeOK'
  <2>1. at' \in [Nodes -> Places]
    BY <1>1 DEF Passes, Go, TypeOK, Places
  <2>2. [out[n] EXCEPT !.passed = @ \cup {layer}] \in ProbeRecord
    BY <1>0 DEF ProbeRecord
  <2>3. out' \in [Nodes -> ProbeRecord]
    BY <1>1, <2>2 DEF Passes, TypeOK
  <2>4. AnswerTypeOK'
    BY <1>1 DEF Passes, TypeOK, AnswerTypeOK
  <2> QED BY <1>1, <2>1, <2>3, <2>4 DEF Passes, TypeOK
<1>2. ASSUME NEW layer \in Probing, NEW e, layer = "dns" => e \in DnsErrors, ProbeFails(n, layer, e)
      PROVE  TypeOK'
  <2>1. Failure(layer, e, out[n]) \in ProbeRecord
    BY <1>0, <1>2, FailureFacts
  <2> QED BY <1>2, <2>1, ProbeEndsType DEF ProbeFails
<1>3. CASE Redirect(n)
  <2> DEFINE chained == [out[n] EXCEPT !.hops = @ + 1]
  <2>1. out[n].hops \in 0..MaxRedirects
    BY <1>3 DEF Redirect, ProbeInv, UnderWay, Probing
  <2>2. out[n].hops + 1 \in 0..(MaxRedirects + 1)
    BY <2>1
  <2>3. chained \in ProbeRecord
    BY <1>0, <2>2 DEF ProbeRecord
  <2> HIDE DEF chained
  <2>4. CASE Go(n, "http", "done") /\ ProbeEnds(n, Failure("http", "TOO_MANY_REDIRECTS", chained))
    <3>1. Failure("http", "TOO_MANY_REDIRECTS", chained) \in ProbeRecord
      BY <2>3, FailureFacts DEF Probing
    <3> QED BY <2>4, <3>1, ProbeEndsType
  <2>5. CASE /\ out' = [out EXCEPT ![n] = chained]
             /\ UNCHANGED <<secure, host, url, at, workVars, artifacts, refs, storeVars, result,
                            packet, faults>>
    <3>1. out' \in [Nodes -> ProbeRecord]
      BY <2>3, <2>5 DEF TypeOK
    <3>2. AnswerTypeOK'
      BY <2>5 DEF TypeOK, AnswerTypeOK
    <3> QED BY <2>5, <3>1, <3>2 DEF TypeOK
  <2> QED BY <1>3, <2>4, <2>5 DEF Redirect, chained
<1>4. CASE Respond(n)
  <2>1. [out[n] EXCEPT !.ok = TRUE, !.reason = "OK"] \in ProbeRecord
    BY <1>0 DEF ProbeRecord, Reasons
  <2>2. [out[n] EXCEPT !.reason = "HTTP_ERROR"] \in ProbeRecord
    BY <1>0 DEF ProbeRecord, Reasons
  <2> QED BY <1>4, <2>1, <2>2, ProbeEndsType DEF Respond
<1>5. CASE Lookup(n)
  BY <1>1, <1>2, <1>5 DEF Lookup, Probing
<1>6. CASE Connect(n)
  BY <1>1, <1>2, <1>6 DEF Connect, Probing
<1>7. CASE Handshake(n)
  BY <1>1, <1>2, <1>7 DEF Handshake, Probing
<1>8. CASE FetchFails(n)
  BY <1>2, <1>8 DEF FetchFails, Probing
<1> QED BY <1>3, <1>4, <1>5, <1>6, <1>7, <1>8 DEF ProbeStep

\* What a validation makes of a page says whether the page worked.
LEMMA OutcomeType ==
  ASSUME NEW p
  PROVE  classifyOutcome(p).ok \in BOOLEAN
<1>1. \A ok \in BOOLEAN : \A c, s : outcome(ok, c, s).ok \in BOOLEAN
  BY DEF outcome
<1> QED BY <1>1 DEF classifyOutcome

LEMMA ValidationStepType ==
  ASSUME TypeOK, NEW n \in Nodes, ValidationStep(n)
  PROVE  TypeOK'
<1>1. ASSUME UNCHANGED answer
      PROVE  AnswerTypeOK'
  BY <1>1 DEF TypeOK, AnswerTypeOK
<1>2. CASE TakeValidation(n)
  <2>1. NewProbe \in ProbeRecord
    BY EvidenceAssumption DEF NewProbe, ProbeRecord, Reasons
  <2>2. out' \in [Nodes -> ProbeRecord]
    BY <1>2, <2>1 DEF TakeValidation, TypeOK
  <2>3. at' \in [Nodes -> Places]
    BY <1>2 DEF TakeValidation, Go, TypeOK, Places
  <2> QED BY <1>1, <1>2, <2>2, <2>3 DEF TakeValidation, TypeOK
<1>3. CASE Launch(n)
  <2>1. at' \in [Nodes -> Places]
    BY <1>3 DEF Launch, Go, TypeOK, Places
  <2> QED BY <1>1, <1>3, <2>1 DEF Launch, TypeOK
<1>4. CASE BrowserFails(n)
  <2>1. at' \in [Nodes -> Places]
    BY <1>4 DEF BrowserFails, TypeOK, Places
  <2>2. browserError.ok \in BOOLEAN
    BY DEF browserError, outcome
  <2>3. AnswerTypeOK'
    <3>1. answer' = [answer EXCEPT ![n] = browserError]
      BY <1>4 DEF BrowserFails
    <3>2. DOMAIN answer' = Nodes
      BY <3>1 DEF TypeOK, AnswerTypeOK
    <3>3. \A m \in Nodes : answer'[m] = IF m = n THEN browserError ELSE answer[m]
      BY <3>1 DEF TypeOK, AnswerTypeOK
    <3> QED BY <2>2, <3>2, <3>3 DEF TypeOK, AnswerTypeOK
  <2>4. harFile' \in [Nodes -> {"none", "written", "stuck"}]
    BY <1>4 DEF BrowserFails, TypeOK
  <2> QED BY <1>4, <2>1, <2>3, <2>4 DEF BrowserFails, TypeOK, storeVars
<1>5. CASE Goto(n)
  <2>1. at' \in [Nodes -> Places]
    BY <1>5 DEF Goto, Go, TypeOK, Places
  <2>2. PICK p \in Pages : /\ page' = [page EXCEPT ![n] = p]
                           /\ answer' = [answer EXCEPT ![n] = classifyOutcome(p)]
    BY <1>5 DEF Goto
  <2>3. AnswerTypeOK'
    <3>2. classifyOutcome(p).ok \in BOOLEAN
      BY OutcomeType
    <3>3. DOMAIN answer' = Nodes
      BY <2>2 DEF TypeOK, AnswerTypeOK
    <3>4. \A m \in Nodes : answer'[m] = IF m = n THEN classifyOutcome(p) ELSE answer[m]
      BY <2>2 DEF TypeOK, AnswerTypeOK
    <3> QED BY <3>2, <3>3, <3>4 DEF TypeOK, AnswerTypeOK
  <2>4. page' \in [Nodes -> Pages \cup {NoPage}]
    BY <2>2 DEF TypeOK
  <2> QED BY <1>5, <2>1, <2>3, <2>4 DEF Goto, TypeOK, storeVars
<1>6. CASE Screenshot(n)
  <2>1. at' \in [Nodes -> Places]
    BY <1>6 DEF Screenshot, Go, TypeOK, Places
  <2>2. \A d \in Shots : [kind |-> "screenshot", digest |-> d] \in Artifact
    BY DEF Artifact, Kinds, Digests
  <2>3. PICK found : found \subseteq Artifact /\ Keep(n, found)
    BY <1>6, <2>2 DEF Screenshot
  <2>4. artifacts' \in [Nodes -> SUBSET Artifact]
    BY <2>3 DEF Keep, TypeOK
  <2> QED BY <1>1, <1>6, <2>1, <2>4 DEF Screenshot, TypeOK, workVars, storeVars
<1>7. CASE Close(n)
  <2>1. at' \in [Nodes -> Places]
    BY <1>7 DEF Close, Go, TypeOK, Places
  <2>2. harFile' \in [Nodes -> {"none", "written", "stuck"}]
    BY <1>7 DEF Close, TypeOK
  <2> QED BY <1>1, <1>7, <2>1, <2>2 DEF Close, TypeOK, storeVars
<1>8. CASE KeepHar(n)
  <2>1. at' \in [Nodes -> Places]
    BY <1>8 DEF KeepHar, Go, TypeOK, Places
  <2>2. [kind |-> "har", digest |-> n] \in Artifact
    BY DEF Artifact, Kinds, Digests
  <2>3. artifacts' = artifacts \/ \E found : found \subseteq Artifact /\ Keep(n, found)
    BY <1>8, <2>2 DEF KeepHar
  <2>4. artifacts' \in [Nodes -> SUBSET Artifact]
    BY <2>3 DEF Keep, TypeOK
  <2>5. harFile' \in [Nodes -> {"none", "written", "stuck"}]
    BY <1>8 DEF KeepHar, TypeOK
  <2> QED BY <1>1, <1>8, <2>1, <2>4, <2>5 DEF KeepHar, TypeOK, storeVars
<1> QED BY <1>2, <1>3, <1>4, <1>5, <1>6, <1>7, <1>8 DEF ValidationStep

LEMMA WrittenType ==
  ASSUME NEW file \in [Digests -> FileStates], NEW n
  PROVE  Written(file, n) \in [Digests -> FileStates]
<1>1. (IF \E m \in Nodes \ {n} : Writes(m, putting[n].digest, part[n]) THEN "open" ELSE "whole")
        \in FileStates
  BY DEF FileStates
<1> QED BY <1>1 DEF Written

LEMMA UploadStepType ==
  ASSUME TypeOK, NEW n \in Nodes, UploadStep(n)
  PROVE  TypeOK'
<1>1. ASSUME UNCHANGED answer
      PROVE  AnswerTypeOK'
  BY <1>1 DEF TypeOK, AnswerTypeOK
<1>2. CASE UploadFails(n)
  <2>1. artifacts' \in [Nodes -> SUBSET Artifact]
    BY <1>2 DEF UploadFails, TypeOK
  <2> QED BY <1>1, <1>2, <2>1 DEF UploadFails, TypeOK
<1>3. CASE PutStarts(n)
  <2>1. at' \in [Nodes -> Places]
    BY <1>3 DEF PutStarts, Go, TypeOK, Places
  <2>2. NextArtifact(n) \in Artifact
    BY <1>3, NextArtifactWaits DEF PutStarts, TypeOK
  <2>3. putting' \in [Nodes -> Artifact \cup {NoArtifact}]
    BY <1>3, <2>2 DEF PutStarts, TypeOK
  <2>4. blob' \in [Digests -> FileStates]
    BY <1>3 DEF PutStarts, TypeOK, FileStates
  <2> QED BY <1>1, <1>3, <2>1, <2>3, <2>4 DEF PutStarts, TypeOK, workVars
<1>4. CASE PutEnds(n)
  <2>1. at' \in [Nodes -> Places]
    BY <1>4 DEF PutEnds, Go, TypeOK, Places
  <2>2. putting[n] \in Artifact
    BY <1>4 DEF PutEnds, TypeOK
  <2>3. putting' \in [Nodes -> Artifact \cup {NoArtifact}]
    BY <1>4 DEF PutEnds, TypeOK
  <2>4. meta' \in [Digests -> FileStates] /\ part' \in [Nodes -> Parts]
    BY <1>4, WrittenType DEF PutEnds, TypeOK, Parts
  <2>5. artifacts' \in [Nodes -> SUBSET Artifact]
    BY <1>4 DEF PutEnds, TypeOK
  <2>6. refs' \in [Nodes -> SUBSET Artifact]
    <3>1. refs' = refs \/ refs' = [refs EXCEPT ![n] = @ \cup {putting[n]}]
      BY <1>4 DEF PutEnds
    <3> QED BY <2>2, <3>1 DEF TypeOK
  <2> QED BY <1>1, <1>4, <2>1, <2>3, <2>4, <2>5, <2>6 DEF PutEnds, TypeOK, workVars
<1>5. CASE Answer(n)
  <2>1. at' \in [Nodes -> Places]
    BY <1>5 DEF Answer, Go, TypeOK, Places
  <2> DEFINE r == [ok |-> answer[n].ok, artifactRefs |-> refs[n]]
  <2>2. r \in Answers
    BY DEF TypeOK, AnswerTypeOK, Answers
  <2>3. Record(n, "browser_validation", r)
    BY <1>5 DEF Answer
  <2> HIDE DEF r
  <2>4. /\ result' \in [Nodes -> [Stages -> Answers \cup {Missing}]]
        /\ url' \in {"initial_tests_running", "browser_validation_running", "completed", "forgotten"}
    BY <2>2, <2>3, RecordFacts DEF Stages
  <2> QED BY <1>1, <1>5, <2>1, <2>4 DEF Answer, TypeOK
<1>6. CASE PutGoesOn(n)
  <2>1. /\ blob' \in [Digests -> FileStates]
        /\ part' \in [Nodes -> Parts]
    BY <1>6, WrittenType DEF PutGoesOn, TypeOK, Parts
  <2>2. meta' \in [Digests -> FileStates]
    BY <1>6 DEF PutGoesOn, TypeOK, FileStates
  <2> QED BY <1>1, <1>6, <2>1, <2>2 DEF PutGoesOn, TypeOK, workVars
<1> QED BY <1>2, <1>3, <1>4, <1>5, <1>6 DEF UploadStep

LEMMA FaultType ==
  ASSUME TypeOK, ControlPlaneCrashes \/ \E n \in Nodes : WorkerKilled(n)
  PROVE  TypeOK'
<1> USE EvidenceAssumption
<1>1. ASSUME UNCHANGED answer
      PROVE  AnswerTypeOK'
  BY <1>1 DEF TypeOK, AnswerTypeOK
<1>2. ASSUME NEW n \in Nodes, WorkerKilled(n) PROVE TypeOK'
  <2>1. at' \in [Nodes -> Places]
    BY <1>2 DEF WorkerKilled, TypeOK, Places
  <2>2. faults' \in 0..MaxFaults
    BY <1>2 DEF WorkerKilled, TypeOK
  <2> QED BY <1>1, <1>2, <2>1, <2>2 DEF WorkerKilled, TypeOK
<1>3. CASE ControlPlaneCrashes
  <2>1. at' \in [Nodes -> Places]
    BY <1>3 DEF ControlPlaneCrashes, TypeOK, Places
  <2>2. faults' \in 0..MaxFaults
    BY <1>3 DEF ControlPlaneCrashes, TypeOK
  <2>3. artifacts' \in [Nodes -> SUBSET Artifact]
    BY <1>3 DEF ControlPlaneCrashes, TypeOK
  <2>4. result' \in [Nodes -> [Stages -> Answers \cup {Missing}]]
    BY <1>3 DEF ControlPlaneCrashes
  <2>5. putting' \in [Nodes -> Artifact \cup {NoArtifact}] /\ part' \in [Nodes -> Parts]
    BY <1>3 DEF ControlPlaneCrashes, Parts
  <2>6. /\ blob' \in [Digests -> FileStates]
        /\ meta' \in [Digests -> FileStates]
    BY <1>3 DEF ControlPlaneCrashes, Cut, TypeOK, FileStates
  <2> QED BY <1>1, <1>3, <2>1, <2>2, <2>3, <2>4, <2>5, <2>6
          DEF ControlPlaneCrashes, TypeOK, workVars
<1> QED BY <1>2, <1>3

LEMMA TypeStep == TypeOK /\ ProbeInv /\ [Next]_vars => TypeOK'
<1> SUFFICES ASSUME TypeOK, ProbeInv, [Next]_vars PROVE TypeOK'
  OBVIOUS
<1>1. CASE UNCHANGED vars
  <2>1. AnswerTypeOK'
    BY <1>1 DEF vars, TypeOK, AnswerTypeOK
  <2> QED BY <1>1, <2>1 DEF vars, TypeOK
<1> QED BY <1>1, ProbeStepType, ValidationStepType, UploadStepType, FaultType DEF Next

-----------------------------------------------------------------------------
(* Layers *)

\* Only the record of one node changes with a step of its worker.
LEMMA ProbeFrame ==
  ASSUME ProbeInv, NEW n \in Nodes, secure' = secure /\ host' = host,
         \A m \in Nodes \ {n} : at'[m] = at[m] /\ out'[m] = out[m],
         UnderWay(n)', Blamed(out[n])'
  PROVE  ProbeInv'
<1> SUFFICES ASSUME NEW m \in Nodes PROVE UnderWay(m)' /\ Blamed(out[m])'
  BY DEF ProbeInv
<1>1. CASE m = n
  BY <1>1
<1>2. CASE m # n
  <2>1. at'[m] = at[m] /\ out'[m] = out[m] /\ UnderWay(m) /\ Blamed(out[m])
    BY <1>2 DEF ProbeInv
  <2>2. UnderWay(m)'
    BY <2>1 DEF UnderWay, AllLayers
  <2>3. Blamed(out[m])'
    BY <2>1 DEF Blamed, AllLayers
  <2> QED BY <2>2, <2>3
<1> QED BY <1>1, <1>2

\* A probe that fails at a layer it has reached blames that layer.
LEMMA FailureBlames ==
  ASSUME NEW record \in ProbeRecord, NEW layer \in Probing, NEW e,
         layer = "dns" => e \in DnsErrors, record.ok = FALSE,
         layer = "dns" => record.passed = {},
         layer = "tcp" => record.passed = {"dns"},
         layer = "tls" => record.passed = {"dns", "tcp"} /\ secure = TRUE,
         layer = "http" => record.passed = AllLayers
  PROVE  Blamed(Failure(layer, e, record))
<1> DEFINE f == Failure(layer, e, record)
<1>1. /\ f.passed = record.passed /\ f.ok = FALSE
      /\ layer = "dns" => \/ f.reason = "DNS_FAILURE" /\ f.failureLayer = "dns"
                          \/ f.reason = "NETWORK_FAILURE" /\ f.failureLayer = "none"
                          \/ f.failureLayer \in host \cap {"tls", "tcp", "timeout"}
      /\ layer # "dns" => f.failureLayer = layer
      /\ f.reason # "TIMEOUT" <=> f.timeoutPhase = "none"
  BY FailureFacts
<1> HIDE DEF f
<1>2. f.failureLayer = "timeout" => f.passed = {}
  BY <1>1 DEF Probing
<1>3. f.failureLayer = "tls" => secure \/ f.passed = {}
  BY <1>1
<1>4. ~f.ok /\ f.failureLayer = "none" => f.reason \in {"HTTP_ERROR", "NETWORK_FAILURE"}
  BY <1>1 DEF Probing
<1>5. \/ f.passed = CASE f.ok \/ f.failureLayer = "http" -> AllLayers
                      [] f.failureLayer = "tls" -> {"dns", "tcp"}
                      [] f.failureLayer = "tcp" -> {"dns"}
                      [] f.failureLayer = "dns" -> {}
                      [] OTHER -> IF f.reason = "NETWORK_FAILURE" THEN {} ELSE AllLayers
      \/ f.passed = {} /\ ~f.ok /\ f.failureLayer \in host
  <2>1. CASE layer = "http"
    <3>1. f.passed = AllLayers /\ f.failureLayer = "http"
      BY <1>1, <2>1
    <3> QED BY <3>1, Zenon
  <2>2. CASE layer = "tls"
    <3>1. f.passed = {"dns", "tcp"} /\ f.failureLayer = "tls" /\ f.ok = FALSE
      BY <1>1, <2>2
    <3> QED BY <3>1, Zenon
  <2>3. CASE layer = "tcp"
    <3>1. f.passed = {"dns"} /\ f.failureLayer = "tcp" /\ f.ok = FALSE
      BY <1>1, <2>3
    <3> QED BY <3>1, Zenon
  <2>4. CASE layer = "dns" /\ f.failureLayer = "dns"
    <3>1. f.passed = {} /\ f.failureLayer = "dns" /\ f.ok = FALSE
      BY <1>1, <2>4
    <3> QED BY <3>1, Zenon
  <2>5. CASE layer = "dns" /\ f.failureLayer = "none"
    <3>1. f.passed = {} /\ f.failureLayer = "none" /\ f.ok = FALSE /\ f.reason = "NETWORK_FAILURE"
      BY <1>1, <2>5
    <3> QED BY <3>1, Zenon
  <2>6. CASE layer = "dns" /\ f.failureLayer \in host
    BY <1>1, <2>6
  <2> QED BY <1>1, <2>1, <2>2, <2>3, <2>4, <2>5, <2>6 DEF Probing
<1> QED BY <1>1, <1>2, <1>3, <1>4, <1>5 DEF Blamed, f

\* A response ends a probe that has passed every layer.
LEMMA ResponseBlames ==
  ASSUME NEW record \in ProbeRecord, record.ok = FALSE, record.passed = AllLayers,
         record.failureLayer = "none", record.timeoutPhase = "none"
  PROVE  /\ Blamed([record EXCEPT !.ok = TRUE, !.reason = "OK"])
         /\ Blamed([record EXCEPT !.reason = "HTTP_ERROR"])
<1> DEFINE f == [record EXCEPT !.ok = TRUE, !.reason = "OK"]
           g == [record EXCEPT !.reason = "HTTP_ERROR"]
<1>1. /\ f.ok = TRUE /\ f.reason = "OK" /\ f.passed = AllLayers
      /\ f.failureLayer = "none" /\ f.timeoutPhase = "none"
  BY DEF ProbeRecord
<1>2. /\ g.ok = FALSE /\ g.reason = "HTTP_ERROR" /\ g.passed = AllLayers
      /\ g.failureLayer = "none" /\ g.timeoutPhase = "none"
  BY DEF ProbeRecord
<1> HIDE DEF f, g
<1>3. Blamed(f)
  <2>1. f.passed = CASE f.ok \/ f.failureLayer = "http" -> AllLayers
                     [] f.failureLayer = "tls" -> {"dns", "tcp"}
                     [] f.failureLayer = "tcp" -> {"dns"}
                     [] f.failureLayer = "dns" -> {}
                     [] OTHER -> IF f.reason = "NETWORK_FAILURE" THEN {} ELSE AllLayers
    BY <1>1, Zenon
  <2> QED BY <1>1, <2>1 DEF Blamed
<1>4. Blamed(g)
  <2>1. g.passed = CASE g.ok \/ g.failureLayer = "http" -> AllLayers
                     [] g.failureLayer = "tls" -> {"dns", "tcp"}
                     [] g.failureLayer = "tcp" -> {"dns"}
                     [] g.failureLayer = "dns" -> {}
                     [] OTHER -> IF g.reason = "NETWORK_FAILURE" THEN {} ELSE AllLayers
    BY <1>2, Zenon
  <2> QED BY <1>2, <2>1 DEF Blamed
<1> QED BY <1>3, <1>4 DEF f, g

\* A probe that ends with a record that blames what it may keeps the invariant.
LEMMA EndBlames ==
  ASSUME TypeOK, ProbeInv, NEW n \in Nodes, NEW from, Go(n, from, "done"), NEW record,
         ProbeEnds(n, record), Blamed(record)
  PROVE  ProbeInv'
<1>1. /\ at'[n] = "done" /\ out'[n] = record /\ secure' = secure /\ host' = host
      /\ \A m \in Nodes \ {n} : at'[m] = at[m] /\ out'[m] = out[m]
  BY DEF Go, ProbeEnds, TypeOK
<1>2. UnderWay(n)'
  BY <1>1 DEF UnderWay, Probing
<1>3. Blamed(out[n])'
  BY <1>1 DEF Blamed, AllLayers
<1> QED BY <1>1, <1>2, <1>3, ProbeFrame

LEMMA ProbeStepInv ==
  ASSUME TypeOK, ProbeInv, NEW n \in Nodes, ProbeStep(n)
  PROVE  ProbeInv'
<1> USE EvidenceAssumption
<1>0. out[n] \in ProbeRecord /\ UnderWay(n) /\ n \in DOMAIN at /\ n \in DOMAIN out
  BY DEF TypeOK, ProbeInv
<1>p. ASSUME NEW layer \in {"dns", "tcp", "tls"}, NEW next \in {"tcp", "tls", "http"},
             Passes(n, layer, next),
             next = "tcp" => layer = "dns",
             next = "tls" => layer = "tcp" /\ secure = TRUE,
             next = "http" => layer = (IF secure THEN "tls" ELSE "tcp")
      PROVE  ProbeInv'
  <2> DEFINE f == [out[n] EXCEPT !.passed = @ \cup {layer}]
  <2>1. /\ at[n] = layer /\ at'[n] = next /\ out'[n] = f /\ secure' = secure /\ host' = host
        /\ \A m \in Nodes \ {n} : at'[m] = at[m] /\ out'[m] = out[m]
    BY <1>0, <1>p DEF Passes, Go
  <2>2. /\ f.reason = "UNKNOWN" /\ f.failureLayer = "none" /\ f.timeoutPhase = "none"
        /\ f.ok = FALSE /\ f.hops \in 0..MaxRedirects
        /\ f.passed = out[n].passed \cup {layer}
    BY <1>0, <2>1 DEF ProbeRecord, UnderWay, Probing
  <2> HIDE DEF f
  <2>3. /\ next = "tcp" => f.passed = {"dns"}
        /\ next = "tls" => f.passed = {"dns", "tcp"} /\ secure = TRUE
        /\ next = "http" => f.passed = AllLayers
    BY <1>0, <1>p, <2>1, <2>2 DEF UnderWay, Probing, AllLayers
  <2>4. UnderWay(n)'
    BY <2>1, <2>2, <2>3 DEF UnderWay, AllLayers
  <2>5. Blamed(out[n])'
    BY <2>1, <2>2 DEF Blamed
  <2> QED BY <2>1, <2>4, <2>5, ProbeFrame
<1>f. ASSUME NEW layer \in Probing, NEW e, layer = "dns" => e \in DnsErrors, ProbeFails(n, layer, e)
      PROVE  ProbeInv'
  <2>1. at[n] = layer
    BY <1>f DEF ProbeFails, Go
  <2>2. Blamed(Failure(layer, e, out[n]))
    BY <1>0, <1>f, <2>1, FailureBlames DEF UnderWay
  <2> QED BY <1>f, <2>2, EndBlames DEF ProbeFails
<1>1. CASE Lookup(n)
  BY <1>1, <1>p, <1>f DEF Lookup, Probing
<1>2. CASE Connect(n)
  <2>1. CASE secure
    BY <1>2, <1>p, <1>f, <2>1 DEF Connect, Probing, TypeOK
  <2>2. CASE ~secure
    BY <1>2, <1>p, <1>f, <2>2 DEF Connect, Probing
  <2> QED BY <2>1, <2>2
<1>3. CASE Handshake(n)
  <2>1. Passes(n, "tls", "http") => secure = TRUE
    BY <1>0 DEF Passes, Go, UnderWay, Probing
  <2> QED BY <1>3, <1>p, <1>f, <2>1 DEF Handshake, Probing
<1>4. CASE FetchFails(n)
  BY <1>4, <1>f DEF FetchFails, Probing
<1>5. CASE Redirect(n)
  <2> DEFINE chained == [out[n] EXCEPT !.hops = @ + 1]
  <2>0. /\ at[n] = "http" /\ out[n].hops \in 0..MaxRedirects /\ out[n].ok = FALSE
        /\ out[n].passed = AllLayers
        /\ out[n].reason = "UNKNOWN" /\ out[n].failureLayer = "none" /\ out[n].timeoutPhase = "none"
    BY <1>0, <1>5 DEF Redirect, UnderWay, Probing
  <2>1. out[n].hops + 1 \in 0..(MaxRedirects + 1)
    BY <2>0
  <2>2. chained \in ProbeRecord
    BY <1>0, <2>1 DEF ProbeRecord
  <2>3. /\ chained.ok = FALSE /\ chained.passed = AllLayers /\ chained.reason = "UNKNOWN"
        /\ chained.failureLayer = "none" /\ chained.timeoutPhase = "none"
        /\ chained.hops = out[n].hops + 1
    BY <1>0, <2>0 DEF ProbeRecord
  <2> HIDE DEF chained
  <2>4. CASE Go(n, "http", "done") /\ ProbeEnds(n, Failure("http", "TOO_MANY_REDIRECTS", chained))
    <3>1. Blamed(Failure("http", "TOO_MANY_REDIRECTS", chained))
      BY <2>2, <2>3, FailureBlames DEF Probing
    <3> QED BY <2>4, <3>1, EndBlames
  <2>5. CASE /\ chained.hops <= MaxRedirects
             /\ out' = [out EXCEPT ![n] = chained]
             /\ UNCHANGED <<secure, host, url, at, workVars, artifacts, refs, storeVars, result,
                            packet, faults>>
    <3>1. /\ at' = at /\ out'[n] = chained /\ secure' = secure /\ host' = host
          /\ \A m \in Nodes \ {n} : out'[m] = out[m]
      BY <1>0, <2>5
    <3>2. chained.hops \in 0..MaxRedirects
      BY <2>0, <2>3, <2>5
    <3>3. UnderWay(n)'
      BY <2>0, <2>3, <3>1, <3>2 DEF UnderWay, AllLayers
    <3>4. Blamed(out[n])'
      BY <2>3, <3>1 DEF Blamed
    <3> QED BY <3>1, <3>3, <3>4, ProbeFrame
  <2> QED BY <1>5, <2>4, <2>5 DEF Redirect, chained
<1>6. CASE Respond(n)
  <2>1. /\ at[n] = "http" /\ out[n].ok = FALSE /\ out[n].passed = AllLayers
        /\ out[n].failureLayer = "none" /\ out[n].timeoutPhase = "none"
    BY <1>0, <1>6 DEF Respond, Go, UnderWay, Probing
  <2>2. /\ Blamed([out[n] EXCEPT !.ok = TRUE, !.reason = "OK"])
        /\ Blamed([out[n] EXCEPT !.reason = "HTTP_ERROR"])
    BY <1>0, <2>1, ResponseBlames
  <2> QED BY <1>6, <2>2, EndBlames DEF Respond
<1> QED BY <1>1, <1>2, <1>3, <1>4, <1>5, <1>6 DEF ProbeStep

\* A worker that has left its probe does not come back to it.
LEMMA LaterStepInv ==
  ASSUME TypeOK, ProbeInv,
         \/ \E n \in Nodes : ValidationStep(n) \/ UploadStep(n) \/ WorkerKilled(n)
         \/ ControlPlaneCrashes
         \/ UNCHANGED vars
  PROVE  ProbeInv'
<1>1. \A n \in Nodes : at'[n] \in Probing => at'[n] = at[n]
  <2>1. ASSUME NEW n \in Nodes, ValidationStep(n) \/ WorkerKilled(n)
        PROVE  \A m \in Nodes : at'[m] \in Probing => at'[m] = at[m]
    BY <2>1 DEF ValidationStep, TakeValidation, Launch, BrowserFails, Goto, Screenshot, Close, KeepHar,
         WorkerKilled, Go, Probing, TypeOK
  <2>2. ASSUME NEW n \in Nodes, UploadStep(n)
        PROVE  \A m \in Nodes : at'[m] \in Probing => at'[m] = at[m]
    BY <2>2 DEF UploadStep, UploadFails, PutStarts, PutGoesOn, PutEnds, Answer, Go, Probing, TypeOK
  <2>3. CASE ControlPlaneCrashes
    BY <2>3 DEF ControlPlaneCrashes, Probing
  <2>4. CASE UNCHANGED vars
    BY <2>4 DEF vars
  <2> QED BY <2>1, <2>2, <2>3, <2>4
<1>2. secure' = secure /\ host' = host
  BY DEF ValidationStep, TakeValidation, Launch, BrowserFails, Goto, Screenshot, Close, KeepHar, WorkerKilled,
       UploadStep, UploadFails, PutStarts, PutGoesOn, PutEnds, Answer, ControlPlaneCrashes, vars
<1>3. \A n \in Nodes : out'[n] \in {out[n], NewProbe} /\ (out'[n] # out[n] => at'[n] \notin Probing)
  <2>1. ASSUME NEW n \in Nodes, TakeValidation(n)
        PROVE  \A m \in Nodes : /\ out'[m] \in {out[m], NewProbe}
                                /\ out'[m] # out[m] => at'[m] \notin Probing
    BY <2>1 DEF TakeValidation, Go, Probing, TypeOK
  <2>2. out' = out \/ \E n \in Nodes : TakeValidation(n)
    BY DEF ValidationStep, Launch, BrowserFails, Goto, Screenshot, Close, KeepHar, WorkerKilled,
         UploadStep, UploadFails, PutStarts, PutGoesOn, PutEnds, Answer, ControlPlaneCrashes, vars
  <2> QED BY <2>1, <2>2
<1>4. SUFFICES ASSUME NEW n \in Nodes PROVE UnderWay(n)' /\ Blamed(out[n])'
  BY DEF ProbeInv
<1>5. UnderWay(n) /\ Blamed(out[n])
  BY DEF ProbeInv
<1>6. UnderWay(n)'
  <2>1. CASE at'[n] \in Probing
    <3>1. at'[n] = at[n] /\ out'[n] = out[n]
      BY <1>1, <1>3, <2>1
    <3> QED BY <1>2, <1>5, <3>1 DEF UnderWay, AllLayers
  <2>2. CASE at'[n] \notin Probing
    BY <2>2 DEF UnderWay
  <2> QED BY <2>1, <2>2
<1>7. Blamed(out[n])'
  <2>1. CASE out'[n] = out[n]
    BY <1>2, <1>5, <2>1 DEF Blamed, AllLayers
  <2>2. CASE out'[n] = NewProbe
    <3>1. out'[n].reason = "UNKNOWN"
      BY <2>2 DEF NewProbe
    <3> QED BY <3>1 DEF Blamed
  <2> QED BY <1>3, <2>1, <2>2
<1> QED BY <1>6, <1>7

-----------------------------------------------------------------------------
(* Recorded answers *)

\* An answer is recorded only while its stage is open, so that no answer
\* follows the completion of the URL.
LEMMA RecordKeeps ==
  ASSUME TypeOK, RecordInv, NEW n \in Nodes, NEW stage \in Stages, NEW r \in Answers,
         Record(n, stage, r), refs' = refs, at' = [at EXCEPT ![n] = "done"],
         stage = "initial_test" => at[n] \in Probing,
         stage = "browser_validation" => at[n] \in Validating
  PROVE  RecordInv'
<1>1. /\ url = "forgotten" <=> url' = "forgotten"
      /\ url = "forgotten" => result' = result
      /\ url # "forgotten" =>
           /\ \A m \in Nodes, s \in Stages :
                result'[m][s] = IF m = n /\ s = stage THEN summarizeResult(r) ELSE result[m][s]
           /\ \/ UNCHANGED <<url, packet>>
              \/ /\ stage = "initial_test" /\ url' = "browser_validation_running"
                 /\ \A m \in Nodes : result'[m][stage] # Missing
              \/ /\ url' = "completed" /\ packet' = generate(result')
                 /\ \A m \in Nodes : result'[m][stage] # Missing
  BY RecordFacts
<1>2. summarizeResult(r) # Missing /\ summarizeResult(r).artifactRefs = {}
  BY SummaryIsAnswer, MissingIsNoAnswer
<1> DEFINE sum == summarizeResult(r)
<1> HIDE DEF sum
<1>3. at'[n] = "done" /\ \A m \in Nodes \ {n} : at'[m] = at[m]
  BY DEF TypeOK
<1>4. "done" \notin Probing \cup Validating
  BY DEF Probing, Validating
<1>5. CASE url = "forgotten"
  BY <1>1, <1>5 DEF RecordInv
<1>6. CASE url # "forgotten"
  <2>1. \A m \in Nodes, s \in Stages :
          result'[m][s] = IF m = n /\ s = stage THEN sum ELSE result[m][s]
    BY <1>1, <1>6 DEF sum
  <2>2. sum # Missing /\ sum.artifactRefs = {}
    BY <1>2 DEF sum
  <2>3. stage = "initial_test" => url = "initial_tests_running"
    BY <1>6 DEF RecordInv, TypeOK
  <2>4. stage = "browser_validation" => url = "browser_validation_running"
    BY <1>6 DEF RecordInv
  <2>5. \/ url' = url /\ url # "completed"
        \/ /\ stage = "initial_test" /\ url' = "browser_validation_running"
           /\ \A m \in Nodes : result'[m][stage] # Missing
        \/ /\ url' = "completed" /\ packet' = generate(result')
           /\ \A m \in Nodes : result'[m][stage] # Missing
    BY <1>1, <1>6, <2>3, <2>4 DEF Stages
  <2>6. \A m \in Nodes : at'[m] \in Probing \cup Validating => m # n /\ at'[m] = at[m]
    BY <1>3, <1>4
  <2>7. ASSUME NEW m \in Nodes
        PROVE  /\ at'[m] \in Probing => result'[m]["initial_test"] = Missing
               /\ at'[m] \in Validating => /\ result'[m]["browser_validation"] = Missing
                                           /\ url' = "browser_validation_running"
    <3>1. at'[m] \in Probing => result'[m]["initial_test"] = Missing
      BY <1>6, <2>1, <2>6 DEF RecordInv, Stages
    <3>2. at'[m] \in Validating => /\ result[m]["browser_validation"] = Missing
                                   /\ url = "browser_validation_running" /\ m # n
      BY <1>6, <2>6 DEF RecordInv
    <3>3. at'[m] \in Validating => result'[m]["browser_validation"] = Missing
      BY <2>1, <3>2 DEF Stages
    <3>4. at'[m] \in Validating => url' = "browser_validation_running"
      BY <2>3, <2>5, <3>2, <3>3 DEF Stages
    <3> QED BY <3>1, <3>3, <3>4
  <2>8. url' \in {"browser_validation_running", "completed"} =>
          \A m \in Nodes : result'[m]["initial_test"] # Missing
    <3>1. CASE stage = "initial_test"
      BY <2>3, <2>5, <3>1
    <3>2. CASE stage = "browser_validation"
      BY <2>1, <2>4, <3>2 DEF RecordInv, Stages
    <3> QED BY <3>1, <3>2 DEF Stages
  <2>9. \A m \in Nodes : result'[m]["browser_validation"] # Missing =>
          result'[m]["browser_validation"].artifactRefs \subseteq refs'[m]
    BY <2>1, <2>2 DEF RecordInv, Stages
  <2>10. url' = "completed" => packet' = generate(result')
    BY <2>5
  <2>11. url' = "completed" => (packet = generate(result))'
    BY <2>10
  <2> QED BY <2>7, <2>8, <2>9, <2>11 DEF RecordInv
<1> QED BY <1>5, <1>6

\* The steps that record nothing.
LEMMA RecordFrame ==
  ASSUME RecordInv, url' = url, result' = result, packet' = packet,
         \A n \in Nodes : refs[n] \subseteq refs'[n],
         \A n \in Nodes : at'[n] \in Probing => at[n] \in Probing,
         \A n \in Nodes : at'[n] \in Validating =>
           \/ at[n] \in Validating
           \/ /\ url = "browser_validation_running"
              /\ result[n]["browser_validation"] = Missing
  PROVE  RecordInv'
<1>1. (packet = generate(result))' <=> packet = generate(result)
  BY DEF generate, requiredArtifacts, collectArtifacts
<1> QED BY <1>1 DEF RecordInv

\* A step of a probe passes a layer, ends the probe or follows a redirect.
LEMMA ProbeStepCases ==
  ASSUME TypeOK, ProbeInv, NEW n \in Nodes, ProbeStep(n)
  PROVE  \/ \E layer \in Probing, next \in {"tcp", "tls", "http"} : Passes(n, layer, next)
         \/ \E layer \in Probing, record \in ProbeRecord :
              Go(n, layer, "done") /\ ProbeEnds(n, record)
         \/ UNCHANGED <<secure, host, url, at, workVars, artifacts, refs, storeVars, result,
                        packet, faults>>
<1> USE EvidenceAssumption
<1>0. out[n] \in ProbeRecord
  BY DEF TypeOK
<1>f. ASSUME NEW layer \in Probing, NEW e, layer = "dns" => e \in DnsErrors, ProbeFails(n, layer, e)
      PROVE  \E record \in ProbeRecord : Go(n, layer, "done") /\ ProbeEnds(n, record)
  <2>1. Failure(layer, e, out[n]) \in ProbeRecord
    BY <1>0, <1>f, FailureFacts
  <2> QED BY <1>f, <2>1 DEF ProbeFails
<1>1. CASE Lookup(n)
  BY <1>1, <1>f DEF Lookup, Probing
<1>2. CASE Connect(n)
  BY <1>2, <1>f DEF Connect, Probing
<1>3. CASE Handshake(n)
  BY <1>3, <1>f DEF Handshake, Probing
<1>4. CASE FetchFails(n)
  BY <1>4, <1>f DEF FetchFails, Probing
<1>5. CASE Redirect(n)
  <2> DEFINE chained == [out[n] EXCEPT !.hops = @ + 1]
  <2>1. out[n].hops \in 0..MaxRedirects
    BY <1>5 DEF Redirect, ProbeInv, UnderWay, Probing
  <2>2. out[n].hops + 1 \in 0..(MaxRedirects + 1)
    BY <2>1
  <2>3. chained \in ProbeRecord
    BY <1>0, <2>2 DEF ProbeRecord
  <2> HIDE DEF chained
  <2>4. Failure("http", "TOO_MANY_REDIRECTS", chained) \in ProbeRecord
    BY <2>3, FailureFacts DEF Probing
  <2> QED BY <1>5, <2>4 DEF Redirect, chained, Probing
<1>6. CASE Respond(n)
  <2>1. [out[n] EXCEPT !.ok = TRUE, !.reason = "OK"] \in ProbeRecord
    BY <1>0 DEF ProbeRecord, Reasons
  <2>2. [out[n] EXCEPT !.reason = "HTTP_ERROR"] \in ProbeRecord
    BY <1>0 DEF ProbeRecord, Reasons
  <2> QED BY <1>6, <2>1, <2>2 DEF Respond, Probing
<1> QED BY <1>1, <1>2, <1>3, <1>4, <1>5, <1>6 DEF ProbeStep

LEMMA RecordStep == TypeOK /\ ProbeInv /\ RecordInv /\ [Next]_vars => RecordInv'
<1> SUFFICES ASSUME TypeOK, ProbeInv, RecordInv, [Next]_vars PROVE RecordInv'
  OBVIOUS
<1>1. ASSUME NEW n \in Nodes, NEW layer \in Probing, NEW next \in {"tcp", "tls", "http"},
             Passes(n, layer, next)
      PROVE  RecordInv'
  <2>1. /\ at[n] = layer /\ at' = [at EXCEPT ![n] = next]
        /\ UNCHANGED <<url, result, packet, refs>>
    BY <1>1 DEF Passes, Go
  <2>2. next \notin Validating
    BY DEF Validating
  <2>3. \A m \in Nodes : at'[m] \in Validating => at[m] \in Validating
    BY <2>1, <2>2 DEF TypeOK
  <2>4. \A m \in Nodes : at'[m] \in Probing => at[m] \in Probing
    BY <2>1 DEF TypeOK
  <2> QED BY <2>1, <2>3, <2>4, RecordFrame
<1>2. ASSUME NEW n \in Nodes, NEW layer \in Probing, NEW record \in ProbeRecord,
             Go(n, layer, "done"), ProbeEnds(n, record)
      PROVE  RecordInv'
  <2> DEFINE r == [ok |-> record.ok, artifactRefs |-> {}]
  <2>1. r \in Answers
    BY DEF ProbeRecord, Answers
  <2>2. Record(n, "initial_test", r) /\ refs' = refs
    BY <1>2 DEF ProbeEnds
  <2> HIDE DEF r
  <2>3. at[n] \in Probing /\ at' = [at EXCEPT ![n] = "done"]
    BY <1>2 DEF Go
  <2> QED BY <2>1, <2>2, <2>3, RecordKeeps DEF Stages
<1>3. ASSUME NEW n \in Nodes, ProbeStep(n) PROVE RecordInv'
  <2>1. CASE UNCHANGED <<secure, host, url, at, workVars, artifacts, refs, storeVars, result,
                         packet, faults>>
    BY <2>1, RecordFrame
  <2> QED BY <1>1, <1>2, <1>3, <2>1, ProbeStepCases
<1>4. ASSUME NEW n \in Nodes, ValidationStep(n) PROVE RecordInv'
  <2>1. UNCHANGED <<url, result, packet, refs>>
    BY <1>4 DEF ValidationStep, TakeValidation, Launch, BrowserFails, Goto, Screenshot, Close,
         KeepHar
  <2>2. \A m \in Nodes : at'[m] \in Probing => at[m] \in Probing
    BY <1>4 DEF ValidationStep, TakeValidation, Launch, BrowserFails, Goto, Screenshot, Close, KeepHar,
         Go, TypeOK, Probing
  <2>3. \A m \in Nodes : at'[m] \in Validating =>
          \/ at[m] \in Validating
          \/ url = "browser_validation_running" /\ result[m]["browser_validation"] = Missing
    BY <1>4 DEF ValidationStep, TakeValidation, Launch, BrowserFails, Goto, Screenshot, Close, KeepHar,
         Go, TypeOK, Validating
  <2> QED BY <2>1, <2>2, <2>3, RecordFrame
<1>5. ASSUME NEW n \in Nodes, UploadFails(n) \/ PutStarts(n) \/ PutGoesOn(n) \/ PutEnds(n) \/ WorkerKilled(n)
      PROVE  RecordInv'
  <2>1. UNCHANGED <<url, result, packet>>
    BY <1>5 DEF UploadFails, PutStarts, PutGoesOn, PutEnds, WorkerKilled
  <2>2. \A m \in Nodes : refs[m] \subseteq refs'[m]
    <3>1. refs' = refs \/ \E a : refs' = [refs EXCEPT ![n] = @ \cup {a}]
      BY <1>5 DEF UploadFails, PutStarts, PutGoesOn, PutEnds, WorkerKilled
    <3> QED BY <3>1 DEF TypeOK
  <2>3. \A m \in Nodes : at'[m] \in Probing => at[m] \in Probing
    BY <1>5 DEF UploadFails, PutStarts, PutGoesOn, PutEnds, WorkerKilled, Go, TypeOK, Probing
  <2>4. \A m \in Nodes : at'[m] \in Validating => at[m] \in Validating
    BY <1>5 DEF UploadFails, PutStarts, PutGoesOn, PutEnds, WorkerKilled, Go, TypeOK, Validating
  <2> QED BY <2>1, <2>2, <2>3, <2>4, RecordFrame
<1>6. ASSUME NEW n \in Nodes, Answer(n) PROVE RecordInv'
  <2> DEFINE r == [ok |-> answer[n].ok, artifactRefs |-> refs[n]]
  <2>1. r \in Answers
    BY DEF TypeOK, AnswerTypeOK, Answers
  <2>2. Record(n, "browser_validation", r) /\ refs' = refs
    BY <1>6 DEF Answer
  <2> HIDE DEF r
  <2>3. at[n] \in Validating /\ at' = [at EXCEPT ![n] = "done"]
    BY <1>6 DEF Answer, Go, Validating
  <2> QED BY <2>1, <2>2, <2>3, RecordKeeps DEF Stages
<1>7. CASE ControlPlaneCrashes
  <2>1. url' = "forgotten"
    BY <1>7 DEF ControlPlaneCrashes
  <2>2. \A n \in Nodes : result'[n]["browser_validation"] = Missing
    BY <1>7 DEF ControlPlaneCrashes, Stages
  <2> QED BY <2>1, <2>2 DEF RecordInv
<1>8. CASE UNCHANGED vars
  BY <1>8, RecordFrame DEF vars
<1> QED BY <1>3, <1>4, <1>5, <1>6, <1>7, <1>8 DEF Next, UploadStep

-----------------------------------------------------------------------------
(* The files of one node *)

\* A node whose files and page stay as they are, and whose worker does not
\* enter a part of its job in which more is said of them.
LEMMA NodeFrame ==
  ASSUME NEW m \in Nodes, NodeInv(m),
         /\ page'[m] = page[m] /\ answer'[m] = answer[m] /\ harFile'[m] = harFile[m]
         /\ artifacts'[m] \subseteq artifacts[m] /\ refs'[m] = refs[m]
         /\ putting'[m] = putting[m] /\ blob'[m] = blob[m],
         Fresh(m)' => Fresh(m),
         at[m] \in {"response", "killed"} => at'[m] \in {"response", "killed"},
         at[m] \in {"keep", "killed"} => at'[m] \in {"keep", "killed"},
         at'[m] \in {"screenshot", "close", "keep"} => at[m] \in {"screenshot", "close", "keep"}
  PROVE  NodeInv(m)'
<1>1. Fresh(m)' => Untouched(m)'
  BY DEF NodeInv, Untouched
<1>2. \A a \in artifacts'[m] \cup refs'[m] : Owned(m, a)
  BY DEF NodeInv
<1>3. putting'[m] # NoArtifact => Owned(m, putting'[m]) /\ at'[m] \in {"response", "killed"}
  BY DEF NodeInv
<1>4. ASSUME page'[m] # NoPage, Healthy(page'[m])
      PROVE  Clean(m)'
  <2>1. Clean(m)
    BY <1>4 DEF NodeInv
  <2> QED BY <2>1 DEF Clean
<1> QED BY <1>1, <1>2, <1>3, <1>4 DEF NodeInv, Owned

\* The nodes whose worker and files a step leaves alone.
LEMMA OthersFrame ==
  ASSUME TypeOK, FilesInv, NEW n \in Nodes, UNCHANGED <<url, result>>,
         \A m \in Nodes \ {n} :
           /\ page'[m] = page[m] /\ answer'[m] = answer[m] /\ harFile'[m] = harFile[m]
           /\ artifacts'[m] = artifacts[m] /\ refs'[m] = refs[m] /\ at'[m] = at[m]
           /\ putting'[m] = putting[m] /\ blob'[m] = blob[m],
         NodeInv(n)'
  PROVE  \A m \in Nodes : NodeInv(m)'
<1> SUFFICES ASSUME NEW m \in Nodes PROVE NodeInv(m)'
  OBVIOUS
<1>1. CASE m = n
  BY <1>1
<1>2. CASE m # n
  <2>1. NodeInv(m)
    BY DEF FilesInv
  <2>2. Fresh(m)' => Fresh(m)
    BY <1>2 DEF Fresh
  <2> QED BY <1>2, <2>1, <2>2, NodeFrame
<1> QED BY <1>1, <1>2

\* A worker that answers leaves the part of its job in which it is fresh, or
\* stays in it.
LEMMA AnswerFresh ==
  ASSUME TypeOK, NEW n \in Nodes, NEW stage \in Stages, NEW r \in Answers,
         Record(n, stage, r), at' = [at EXCEPT ![n] = "done"],
         stage = "initial_test" => at[n] \in Probing
  PROVE  \A m \in Nodes : Fresh(m)' => Fresh(m)
<1> SUFFICES ASSUME NEW m \in Nodes, Fresh(m)' PROVE Fresh(m)
  OBVIOUS
<1>1. /\ url = "forgotten" <=> url' = "forgotten"
      /\ url = "forgotten" => result' = result
      /\ url # "forgotten" =>
           \A k \in Nodes, s \in Stages :
             result'[k][s] = IF k = n /\ s = stage THEN summarizeResult(r) ELSE result[k][s]
  BY RecordFacts
<1>2. summarizeResult(r) # Missing
  BY SummaryIsAnswer, MissingIsNoAnswer
<1>3. at'[m] = IF m = n THEN "done" ELSE at[m]
  BY DEF TypeOK
<1>4. CASE m # n
  <2>1. at'[m] = at[m]
    BY <1>3, <1>4
  <2>2. url # "forgotten" => result'[m]["browser_validation"] = result[m]["browser_validation"]
    BY <1>1, <1>4 DEF Stages
  <2> QED BY <1>1, <2>1, <2>2 DEF Fresh
<1>5. CASE m = n
  <2>1. at'[n] = "done" /\ url' # "forgotten" /\ result'[n]["browser_validation"] = Missing
    BY <1>3, <1>5 DEF Fresh, Probing
  <2>2. stage # "browser_validation"
    BY <1>1, <1>2, <2>1 DEF Stages
  <2> QED BY <1>5, <2>2 DEF Fresh, Stages
<1> QED BY <1>4, <1>5

\* A page that came without an error, from an origin server or Akamai's edge,
\* is not taken for a failure.
LEMMA HealthyWorks ==
  ASSUME NEW p, Healthy(p)
  PROVE  classifyOutcome(p).ok
<1>1. p.status = "200" /\ p.nav = "none" /\ p.marks \subseteq {"akamaighost"}
  BY DEF Healthy
<1>2. \A marks : marks \cap {"akamaighost"} = {} => ~Marked(p, marks)
  BY <1>1 DEF Marked
<1>3. /\ ~Marked(p, {"cf-mitigated", "interstitial text"}) /\ ~Marked(p, {"denied text"})
      /\ ~Marked(p, {"forbidden text"}) /\ ~Marked(p, {"x-iinfo", "incapsula text"})
      /\ ~Marked(p, {"px text"}) /\ ~Marked(p, {"x-datadome", "datadome text"})
  BY <1>2
<1>4. ~AkamaiDenies(p)
  BY <1>1, <1>3 DEF AkamaiDenies
<1>5. detectChallenge(p) = "none"
  BY <1>1, <1>3, <1>4 DEF detectChallenge, BlockingStatuses
<1>6. classifyOutcome(p) = CASE p.status = "none" -> outcome(FALSE, "browser_error", "UNKNOWN")
                             [] p.status \in {"403", "429", "404"} ->
                                  outcome(FALSE, "http_error", "HTTP_ERROR")
                             [] OTHER -> outcome(TRUE, "user_visible_ok", "OK")
  BY <1>1, <1>5 DEF classifyOutcome
<1>7. classifyOutcome(p) = outcome(TRUE, "user_visible_ok", "OK")
  BY <1>1, <1>6
<1> QED BY <1>7 DEF outcome

LEMMA ValidationNode ==
  ASSUME TypeOK, FilesInv, NEW n \in Nodes, ValidationStep(n)
  PROVE  \A m \in Nodes : NodeInv(m)'
<1>0. NodeInv(n)
  BY DEF FilesInv
<1>1. CASE TakeValidation(n) \/ Launch(n)
  <2>1. /\ UNCHANGED <<url, result, workVars, artifacts, refs, storeVars>>
        /\ \A m \in Nodes \ {n} : at'[m] = at[m]
        /\ at[n] \in {"done", "launch"} /\ at'[n] \in {"launch", "goto"}
        /\ Fresh(n)
    BY <1>1 DEF TakeValidation, Launch, Go, Fresh, TypeOK
  <2>2. NodeInv(n)'
    BY <1>0, <2>1, NodeFrame
  <2> QED BY <2>1, <2>2, OthersFrame
<1>2. CASE BrowserFails(n)
  <2>1. /\ UNCHANGED <<url, result, page, artifacts, refs, storeVars>>
        /\ \A m \in Nodes \ {n} : /\ at'[m] = at[m] /\ answer'[m] = answer[m]
                                  /\ harFile'[m] = harFile[m]
        /\ at[n] \in {"launch", "goto"} /\ at'[n] = "upload"
    BY <1>2 DEF BrowserFails, TypeOK, AnswerTypeOK
  <2>2. Untouched(n)
    BY <1>0, <2>1 DEF NodeInv, Fresh
  <2>3. NodeInv(n)'
    BY <2>1, <2>2 DEF NodeInv, Fresh, Probing, Untouched
  <2> QED BY <2>1, <2>3, OthersFrame
<1>3. CASE Goto(n)
  <2>1. PICK p \in Pages : /\ page' = [page EXCEPT ![n] = p]
                           /\ answer' = [answer EXCEPT ![n] = classifyOutcome(p)]
    BY <1>3 DEF Goto
  <2>2. /\ UNCHANGED <<url, result, harFile, artifacts, refs, storeVars>>
        /\ \A m \in Nodes \ {n} : /\ at'[m] = at[m] /\ answer'[m] = answer[m]
                                  /\ page'[m] = page[m]
        /\ page'[n] = p /\ answer'[n] = classifyOutcome(p)
        /\ at[n] = "goto" /\ at'[n] = "screenshot"
    BY <1>3, <2>1 DEF Goto, Go, TypeOK, AnswerTypeOK
  <2>3. Untouched(n)
    BY <1>0, <2>2 DEF NodeInv, Fresh
  <2>4. Healthy(page'[n]) => Clean(n)'
    <3>1. Healthy(p) => answer'[n].ok
      BY <2>2, HealthyWorks
    <3> QED BY <2>2, <2>3, <3>1 DEF Clean, Untouched
  <2>5. NodeInv(n)'
    <3>1. ~Fresh(n)'
      BY <2>2 DEF Fresh, Probing
    <3> QED BY <2>2, <2>3, <2>4, <3>1 DEF NodeInv, Untouched
  <2> QED BY <2>2, <2>5, OthersFrame
<1>4. CASE Screenshot(n)
  <2>1. \A d \in Shots : LET a == [kind |-> "screenshot", digest |-> d]
                         IN  Owned(n, a) /\ a.kind # "har"
    BY DEF Owned, Artifact, Kinds, Digests
  <2>2. PICK found : /\ Keep(n, found)
                     /\ \A a \in found : Owned(n, a) /\ a.kind # "har"
    BY <1>4, <2>1 DEF Screenshot
  <2>3. /\ UNCHANGED <<url, result, workVars, refs, storeVars>>
        /\ \A m \in Nodes \ {n} : at'[m] = at[m] /\ artifacts'[m] = artifacts[m]
        /\ artifacts'[n] = artifacts[n] \cup found
        /\ at[n] = "screenshot" /\ at'[n] = "close"
    BY <1>4, <2>2 DEF Screenshot, Go, Keep, TypeOK
  <2>4. NodeInv(n)'
    <3>1. ~Fresh(n)'
      BY <2>3 DEF Fresh, Probing
    <3>2. \A a \in artifacts'[n] \cup refs'[n] : Owned(n, a)
      BY <1>0, <2>2, <2>3 DEF NodeInv
    <3>3. page[n] # NoPage /\ Healthy(page[n]) => Clean(n)'
      BY <1>0, <2>2, <2>3 DEF NodeInv, Clean
    <3> QED BY <1>0, <2>3, <3>1, <3>2, <3>3 DEF NodeInv, Owned
  <2> QED BY <2>3, <2>4, OthersFrame
<1>5. CASE Close(n)
  <2>1. /\ UNCHANGED <<url, result, page, answer, artifacts, refs, storeVars>>
        /\ \A m \in Nodes \ {n} : at'[m] = at[m] /\ harFile'[m] = harFile[m]
        /\ at[n] = "close" /\ at'[n] = "keep"
    BY <1>5 DEF Close, Go, TypeOK
  <2>2. NodeInv(n)'
    <3>1. ~Fresh(n)'
      BY <2>1 DEF Fresh, Probing
    <3>2. page[n] # NoPage /\ Healthy(page[n]) => Clean(n)'
      BY <1>0, <2>1 DEF NodeInv, Clean
    <3> QED BY <1>0, <2>1, <3>1, <3>2 DEF NodeInv, Owned
  <2> QED BY <2>1, <2>2, OthersFrame
<1>6. CASE KeepHar(n)
  <2>1. /\ UNCHANGED <<url, result, page, answer, refs, storeVars>>
        /\ \A m \in Nodes \ {n} : at'[m] = at[m]
        /\ at[n] = "keep" /\ at'[n] = "upload"
    BY <1>6 DEF KeepHar, Go, TypeOK
  <2>2. ~Fresh(n)'
    BY <2>1 DEF Fresh, Probing
  <2>3. CASE answer[n].ok
    <3>1. UNCHANGED artifacts /\ harFile'[n] # "written"
          /\ \A m \in Nodes \ {n} : harFile'[m] = harFile[m]
      BY <1>6, <2>3 DEF KeepHar, shouldKeepHar, TypeOK
    <3>2. page[n] # NoPage /\ Healthy(page[n]) => Clean(n)'
      BY <1>0, <2>1, <3>1 DEF NodeInv, Clean
    <3>3. NodeInv(n)'
      BY <1>0, <2>1, <2>2, <3>1, <3>2 DEF NodeInv, Owned
    <3> QED BY <2>1, <3>1, <3>3, OthersFrame
  <2>4. CASE ~answer[n].ok
    <3>1. LET a == [kind |-> "har", digest |-> n] IN Owned(n, a)
      BY DEF Owned, Artifact, Kinds, Digests
    <3>2. PICK found : Keep(n, found) /\ \A a \in found : Owned(n, a)
      BY <1>6, <2>4, <3>1 DEF KeepHar, shouldKeepHar
    <3>3. /\ UNCHANGED harFile
          /\ \A m \in Nodes \ {n} : artifacts'[m] = artifacts[m]
          /\ artifacts'[n] = artifacts[n] \cup found
      BY <1>6, <2>4, <3>2 DEF KeepHar, Keep, shouldKeepHar, TypeOK
    <3>4. ~(page[n] # NoPage /\ Healthy(page[n]))
      BY <1>0, <2>1, <2>4 DEF NodeInv, Clean
    <3>5. \A a \in artifacts'[n] \cup refs'[n] : Owned(n, a)
      BY <1>0, <2>1, <3>2, <3>3 DEF NodeInv
    <3>6. NodeInv(n)'
      BY <1>0, <2>1, <2>2, <3>4, <3>5 DEF NodeInv, Owned
    <3> QED BY <2>1, <3>3, <3>6, OthersFrame
  <2> QED BY <2>3, <2>4
<1> QED BY <1>1, <1>2, <1>3, <1>4, <1>5, <1>6 DEF ValidationStep

\* Two nodes share the digest of a screenshot, never that of an archive.
LEMMA ForeignDigest ==
  ASSUME NEW n \in Nodes, NEW m \in Nodes, NEW a, Owned(m, a), m # n \/ a.kind # "har"
  PROVE  a.digest # n
BY EvidenceAssumption DEF Owned

LEMMA UploadNode ==
  ASSUME TypeOK, FilesInv, NEW n \in Nodes,
         UploadFails(n) \/ PutStarts(n) \/ PutGoesOn(n) \/ PutEnds(n)
  PROVE  \A m \in Nodes : NodeInv(m)'
<1>0. NodeInv(n)
  BY DEF FilesInv
<1>1. CASE UploadFails(n)
  <2>1. /\ artifacts'[n] \subseteq artifacts[n]
        /\ \A m \in Nodes \ {n} : artifacts'[m] = artifacts[m]
        /\ UNCHANGED <<url, at, workVars, refs, storeVars, result>>
    BY <1>1 DEF UploadFails, TypeOK
  <2>2. Fresh(n)' => Fresh(n)
    BY <2>1 DEF Fresh
  <2>3. NodeInv(n)'
    BY <1>0, <2>1, <2>2, NodeFrame
  <2> QED BY <2>1, <2>3, OthersFrame
<1>2. CASE PutStarts(n)
  <2> DEFINE a0 == NextArtifact(n)
  <2>1. a0 \in artifacts[n] /\ Owned(n, a0)
    BY <1>0, <1>2, NextArtifactWaits DEF PutStarts, NodeInv
  <2>2. /\ at[n] = "upload" /\ at'[n] = "response" /\ putting'[n] = a0
        /\ \A m \in Nodes \ {n} : at'[m] = at[m] /\ putting'[m] = putting[m]
        /\ blob' = [blob EXCEPT ![a0.digest] = "open"]
        /\ UNCHANGED <<url, workVars, artifacts, refs, result>>
    BY <1>2 DEF PutStarts, Go, TypeOK
  <2> HIDE DEF a0
  <2>3. \A m \in Nodes : m # n \/ a0.kind # "har" => blob'[m] = blob[m]
    BY <2>1, <2>2, ForeignDigest DEF TypeOK, Digests
  <2>4. ~Fresh(n)'
    BY <2>2 DEF Fresh, Probing
  <2>5. page[n] # NoPage /\ Healthy(page[n]) => Clean(n)'
    <3>1. Clean(n) => a0.kind # "har"
      BY <2>1 DEF Clean
    <3> QED BY <1>0, <2>2, <2>3, <3>1 DEF NodeInv, Clean
  <2>6. NodeInv(n)'
    BY <1>0, <2>1, <2>2, <2>4, <2>5 DEF NodeInv, Owned
  <2> QED BY <2>2, <2>3, <2>6, OthersFrame
<1>3. CASE PutGoesOn(n) \/ PutEnds(n)
  <2> DEFINE a0 == putting[n]
  <2>1. a0 # NoArtifact /\ Owned(n, a0) /\ at[n] \in {"response", "killed"}
    BY <1>0, <1>3 DEF PutGoesOn, PutEnds, NodeInv
  <2>2. /\ \A m \in Nodes \ {n} : at'[m] = at[m] /\ putting'[m] = putting[m]
        /\ putting'[n] \in {a0, NoArtifact} /\ (putting'[n] = a0 => at'[n] = at[n])
        /\ UNCHANGED <<url, workVars, result>>
        /\ at'[n] \in {"response", "upload", "killed"} /\ (at[n] = "killed" => at'[n] = "killed")
    BY <1>3, <2>1 DEF PutGoesOn, PutEnds, Go, TypeOK
  <2>3. /\ artifacts'[n] \subseteq artifacts[n] /\ refs'[n] \subseteq refs[n] \cup {a0}
        /\ \A m \in Nodes \ {n} : artifacts'[m] = artifacts[m] /\ refs'[m] = refs[m]
    <3>1. artifacts' = artifacts \/ artifacts' = [artifacts EXCEPT ![n] = @ \ {a0}]
      BY <1>3 DEF PutGoesOn, PutEnds
    <3>2. refs' = refs \/ refs' = [refs EXCEPT ![n] = @ \cup {a0}]
      BY <1>3 DEF PutGoesOn, PutEnds
    <3> HIDE DEF a0
    <3> QED BY <3>1, <3>2 DEF TypeOK
  <2>4. \A m \in Nodes : m # n \/ a0.kind # "har" => blob'[m] = blob[m]
    <3>1. blob' = blob \/ \E x : blob' = [blob EXCEPT ![a0.digest] = x]
      BY <1>3 DEF PutGoesOn, PutEnds, Written
    <3>2. \A m \in Nodes : m # n \/ a0.kind # "har" => a0.digest # m
      BY <2>1, ForeignDigest
    <3> HIDE DEF a0
    <3> QED BY <3>1, <3>2 DEF TypeOK, Digests
  <2>5. a0 = putting[n]
    OBVIOUS
  <2> HIDE DEF a0
  <2>6. ~Fresh(n)'
    BY <2>2 DEF Fresh, Probing
  <2>7. page[n] # NoPage /\ Healthy(page[n]) => Clean(n)'
    <3>1. Clean(n) => a0.kind # "har"
      BY <2>1, <2>5 DEF Clean
    <3> QED BY <1>0, <2>1, <2>2, <2>3, <2>4, <3>1 DEF NodeInv, Clean
  <2>8. NodeInv(n)'
    <3>1. \A a \in artifacts'[n] \cup refs'[n] : Owned(n, a)
      BY <1>0, <2>1, <2>3 DEF NodeInv
    <3>2. putting'[n] # NoArtifact => Owned(n, putting'[n]) /\ at'[n] \in {"response", "killed"}
      BY <2>1, <2>2
    <3>3. page'[n] = page[n]
      BY <2>2
    <3> QED BY <2>6, <2>7, <3>1, <3>2, <3>3 DEF NodeInv, Owned
  <2> QED BY <2>2, <2>3, <2>4, <2>8, OthersFrame
<1> QED BY <1>1, <1>2, <1>3

LEMMA NodeStep ==
  TypeOK /\ ProbeInv /\ FilesInv /\ [Next]_vars => \A m \in Nodes : NodeInv(m)'
<1> SUFFICES ASSUME TypeOK, ProbeInv, FilesInv, [Next]_vars, NEW m \in Nodes PROVE NodeInv(m)'
  OBVIOUS
<1>0. \A k \in Nodes : NodeInv(k)
  BY DEF FilesInv
<1>1. ASSUME NEW n \in Nodes, NEW layer \in Probing, NEW next \in {"tcp", "tls", "http"},
             Passes(n, layer, next)
      PROVE  NodeInv(m)'
  <2>1. /\ at[n] = layer /\ at'[n] = next /\ \A k \in Nodes \ {n} : at'[k] = at[k]
        /\ UNCHANGED <<url, result, workVars, artifacts, refs, storeVars>>
    BY <1>1 DEF Passes, Go, TypeOK
  <2>2. Fresh(m)' => Fresh(m)
    BY <2>1 DEF Fresh
  <2> QED BY <1>0, <2>1, <2>2, NodeFrame DEF Probing
<1>2. ASSUME NEW n \in Nodes, NEW layer \in Probing, NEW record \in ProbeRecord,
             Go(n, layer, "done"), ProbeEnds(n, record)
      PROVE  NodeInv(m)'
  <2> DEFINE r == [ok |-> record.ok, artifactRefs |-> {}]
  <2>1. r \in Answers
    BY DEF ProbeRecord, Answers
  <2>2. /\ Record(n, "initial_test", r)
        /\ UNCHANGED <<workVars, artifacts, refs, storeVars>>
    BY <1>2 DEF ProbeEnds
  <2> HIDE DEF r
  <2>3. at[n] \in Probing /\ at' = [at EXCEPT ![n] = "done"]
    BY <1>2 DEF Go
  <2>4. Fresh(m)' => Fresh(m)
    BY <2>1, <2>2, <2>3, AnswerFresh DEF Stages
  <2>5. at'[m] = at[m] \/ (at[m] \in Probing /\ at'[m] = "done")
    <3>1. at \in [Nodes -> Places]
      BY DEF TypeOK
    <3> QED BY <2>3, <3>1
  <2> QED BY <1>0, <2>2, <2>4, <2>5, NodeFrame DEF Probing
<1>3. ASSUME NEW n \in Nodes, ProbeStep(n) PROVE NodeInv(m)'
  <2>1. CASE UNCHANGED <<secure, host, url, at, workVars, artifacts, refs, storeVars, result,
                         packet, faults>>
    <3>1. Fresh(m)' => Fresh(m)
      BY <2>1 DEF Fresh
    <3> QED BY <1>0, <2>1, <3>1, NodeFrame
  <2> QED BY <1>1, <1>2, <1>3, <2>1, ProbeStepCases
<1>4. ASSUME NEW n \in Nodes, Answer(n) PROVE NodeInv(m)'
  <2> DEFINE r == [ok |-> answer[n].ok, artifactRefs |-> refs[n]]
  <2>1. r \in Answers
    BY DEF TypeOK, AnswerTypeOK, Answers
  <2>2. /\ Record(n, "browser_validation", r)
        /\ UNCHANGED <<workVars, artifacts, refs, storeVars>>
    BY <1>4 DEF Answer
  <2> HIDE DEF r
  <2>3. at[n] = "upload" /\ at' = [at EXCEPT ![n] = "done"]
    BY <1>4 DEF Answer, Go
  <2>4. Fresh(m)' => Fresh(m)
    BY <2>1, <2>2, <2>3, AnswerFresh DEF Stages
  <2>5. at'[m] = at[m] \/ (at[m] = "upload" /\ at'[m] = "done")
    <3>1. at \in [Nodes -> Places]
      BY DEF TypeOK
    <3> QED BY <2>3, <3>1
  <2> QED BY <1>0, <2>2, <2>4, <2>5, NodeFrame
<1>5. ASSUME NEW n \in Nodes, WorkerKilled(n) PROVE NodeInv(m)'
  <2>1. /\ at[n] \notin {"done", "killed"} /\ at' = [at EXCEPT ![n] = "killed"]
        /\ UNCHANGED <<url, result, workVars, artifacts, refs, storeVars>>
    BY <1>5 DEF WorkerKilled
  <2>2. at'[n] = "killed" /\ \A k \in Nodes \ {n} : at'[k] = at[k]
    BY <2>1 DEF TypeOK
  <2>3. Fresh(m)' => Fresh(m)
    BY <2>1, <2>2 DEF Fresh, Probing
  <2> QED BY <1>0, <2>1, <2>2, <2>3, NodeFrame
<1>6. CASE ControlPlaneCrashes
  <2>1. /\ url' = "forgotten" /\ putting'[m] = NoArtifact
        /\ artifacts'[m] \subseteq artifacts[m]
        /\ at'[m] = IF at[m] = "response" THEN "upload" ELSE at[m]
        /\ UNCHANGED <<workVars, refs>>
    BY <1>6 DEF ControlPlaneCrashes, TypeOK
  <2>2. blob'[m] = "absent" <=> blob[m] = "absent"
    BY <1>6 DEF ControlPlaneCrashes, Cut, Digests
  <2>3. NodeInv(m)
    BY <1>0
  <2>4. Fresh(m)' => Untouched(m)'
    <3>1. Fresh(m)' => Fresh(m)
      BY <2>1 DEF Fresh, Probing
    <3> QED BY <2>1, <2>2, <2>3, <3>1 DEF NodeInv, Untouched
  <2>5. page[m] # NoPage /\ Healthy(page[m]) => Clean(m)'
    BY <2>1, <2>2, <2>3 DEF NodeInv, Clean
  <2> QED BY <2>1, <2>3, <2>4, <2>5 DEF NodeInv, Owned
<1>7. CASE UNCHANGED vars
  <2>1. Fresh(m)' => Fresh(m)
    BY <1>7 DEF Fresh, vars
  <2> QED BY <1>0, <1>7, <2>1, NodeFrame DEF vars
<1> QED BY <1>3, <1>4, <1>5, <1>6, <1>7, ValidationNode, UploadNode DEF Next, UploadStep

-----------------------------------------------------------------------------
(* The blob store *)

LEMMA WriterOf ==
  ASSUME NEW m, NEW d, NEW p, Writes(m, d, p), putting'[m] = putting[m], part'[m] = part[m]
  PROVE  Writes(m, d, p)'
BY DEF Writes

LEMMA PutStartsStore ==
  ASSUME TypeOK, FilesInv, NEW n \in Nodes, PutStarts(n)
  PROVE  StoreInv'
<1> DEFINE a0 == NextArtifact(n)
<1>1. a0 \in Artifact /\ a0.digest \in Digests /\ a0 # NoArtifact
  BY NextArtifactWaits, NoArtifactIsNone DEF PutStarts, TypeOK, Artifact
<1>2. putting[n] = NoArtifact /\ part[n] = "bytes"
  BY DEF PutStarts, Go, FilesInv, NodeInv, StoreInv
<1>3. /\ putting'[n] = a0 /\ \A m \in Nodes \ {n} : putting'[m] = putting[m]
      /\ blob' = [blob EXCEPT ![a0.digest] = "open"]
      /\ UNCHANGED <<refs, part, meta>>
  BY DEF PutStarts, TypeOK
<1> HIDE DEF a0
<1>4. \A d \in Digests : blob'[d] = IF d = a0.digest THEN "open" ELSE blob[d]
  BY <1>3 DEF TypeOK
<1>5. \A m \in Nodes : putting[m] # NoArtifact => putting[m].digest \in Digests
  BY DEF TypeOK, Artifact
<1>6. \A m \in Nodes : IF putting'[m] = NoArtifact THEN part'[m] = "bytes"
                       ELSE /\ blob'[putting'[m].digest] # "absent"
                            /\ part'[m] = "json" => meta'[putting'[m].digest] # "absent"
  BY <1>1, <1>2, <1>3, <1>4, <1>5 DEF FilesInv, StoreInv
<1>7. \A m \in Nodes : \A a \in refs'[m] : blob'[a.digest] # "absent" /\ meta'[a.digest] # "absent"
  <2>1. \A m \in Nodes : \A a \in refs[m] : a.digest \in Digests
    BY DEF TypeOK, Artifact
  <2> QED BY <1>3, <1>4, <2>1 DEF FilesInv, StoreInv
<1>8. ASSUME NEW m \in Nodes, NEW d, NEW p, Writes(m, d, p) PROVE Writes(m, d, p)'
  <2>1. m # n
    BY <1>2, <1>8 DEF Writes
  <2> QED BY <1>3, <1>8, <2>1 DEF Writes
<1>9. ASSUME NEW d, d = a0.digest PROVE Writes(n, d, "bytes")'
  BY <1>1, <1>2, <1>3, <1>9 DEF Writes
<1>10. ASSUME NEW d \in Digests, blob'[d] = "open" PROVE \E m \in Nodes : Writes(m, d, "bytes")'
  <2>1. CASE d = a0.digest
    BY <1>9, <2>1
  <2>2. CASE d # a0.digest
    <3>1. \E m \in Nodes : Writes(m, d, "bytes")
      BY <1>4, <1>10, <2>2 DEF FilesInv, StoreInv
    <3> QED BY <1>8, <3>1
  <2> QED BY <2>1, <2>2
<1>11. \A d \in Digests : meta'[d] = "open" => \E m \in Nodes : Writes(m, d, "json")'
  BY <1>3, <1>8 DEF FilesInv, StoreInv
<1> QED BY <1>6, <1>7, <1>10, <1>11 DEF StoreInv

LEMMA PutGoesOnStore ==
  ASSUME TypeOK, FilesInv, NEW n \in Nodes, PutGoesOn(n)
  PROVE  StoreInv'
<1> DEFINE d0 == putting[n].digest
           others == \E m \in Nodes \ {n} : Writes(m, d0, "bytes")
<1>1. /\ putting[n] # NoArtifact /\ part[n] = "bytes" /\ part'[n] = "json"
      /\ \A m \in Nodes \ {n} : part'[m] = part[m]
      /\ UNCHANGED <<refs, putting>>
      /\ blob' = [blob EXCEPT ![d0] = IF others THEN "open" ELSE "whole"]
      /\ meta' = [meta EXCEPT ![d0] = "open"]
  BY DEF PutGoesOn, Written, TypeOK
<1>2. \A m \in Nodes : putting[m] # NoArtifact => putting[m].digest \in Digests
  BY DEF TypeOK, Artifact
<1>3. ASSUME NEW d, d = d0 PROVE Writes(n, d, "json")'
  BY <1>1, <1>3 DEF Writes
<1>4. \A m \in Nodes \ {n} : \A d, p : Writes(m, d, p) => Writes(m, d, p)'
  BY <1>1, WriterOf
<1>5. \A d, p : Writes(n, d, p) => d = d0 /\ p = "bytes"
  BY <1>1 DEF Writes
<1>d. d0 = putting[n].digest /\ (others <=> \E m \in Nodes \ {n} : Writes(m, d0, "bytes"))
  OBVIOUS
<1> HIDE DEF d0, others
<1>6. /\ \A d \in Digests : blob'[d] = IF d = d0 THEN IF others THEN "open" ELSE "whole" ELSE blob[d]
      /\ \A d \in Digests : meta'[d] = IF d = d0 THEN "open" ELSE meta[d]
  BY <1>1 DEF TypeOK
<1>7. \A m \in Nodes : IF putting'[m] = NoArtifact THEN part'[m] = "bytes"
                       ELSE /\ blob'[putting'[m].digest] # "absent"
                            /\ part'[m] = "json" => meta'[putting'[m].digest] # "absent"
  BY <1>1, <1>2, <1>6, <1>d DEF FilesInv, StoreInv
<1>8. \A m \in Nodes : \A a \in refs'[m] : blob'[a.digest] # "absent" /\ meta'[a.digest] # "absent"
  <2>1. \A m \in Nodes : \A a \in refs[m] : a.digest \in Digests
    BY DEF TypeOK, Artifact
  <2> QED BY <1>1, <1>6, <2>1 DEF FilesInv, StoreInv
<1>9. ASSUME NEW d \in Digests, blob'[d] = "open" PROVE \E m \in Nodes : Writes(m, d, "bytes")'
  <2>1. \E m \in Nodes \ {n} : Writes(m, d, "bytes")
    BY <1>5, <1>6, <1>9, <1>d DEF FilesInv, StoreInv
  <2> QED BY <1>4, <2>1
<1>10. ASSUME NEW d \in Digests, meta'[d] = "open" PROVE \E m \in Nodes : Writes(m, d, "json")'
  <2>1. CASE d = d0
    BY <1>3, <2>1
  <2>2. CASE d # d0
    <3>1. \E m \in Nodes \ {n} : Writes(m, d, "json")
      BY <1>5, <1>6, <1>10, <2>2 DEF FilesInv, StoreInv
    <3> QED BY <1>4, <3>1
  <2> QED BY <2>1, <2>2
<1> QED BY <1>7, <1>8, <1>9, <1>10 DEF StoreInv

LEMMA PutEndsStore ==
  ASSUME TypeOK, FilesInv, NEW n \in Nodes, PutEnds(n)
  PROVE  StoreInv'
<1> DEFINE a0 == putting[n]
           d0 == a0.digest
           others == \E m \in Nodes \ {n} : Writes(m, d0, "json")
<1>1. /\ a0 # NoArtifact /\ part[n] = "json" /\ part'[n] = "bytes" /\ putting'[n] = NoArtifact
      /\ \A m \in Nodes \ {n} : part'[m] = part[m] /\ putting'[m] = putting[m]
      /\ meta' = [meta EXCEPT ![d0] = IF others THEN "open" ELSE "whole"]
      /\ UNCHANGED blob
  BY DEF PutEnds, Written, TypeOK
<1>2. /\ d0 \in Digests /\ blob[d0] # "absent" /\ meta[d0] # "absent"
      /\ \A m \in Nodes : putting[m] # NoArtifact => putting[m].digest \in Digests
  BY <1>1 DEF TypeOK, Artifact, FilesInv, StoreInv
<1>3. \A m \in Nodes : refs'[m] \subseteq refs[m] \cup {a0}
  <2>1. refs' = refs \/ refs' = [refs EXCEPT ![n] = @ \cup {a0}]
    BY DEF PutEnds
  <2> HIDE DEF a0
  <2> QED BY <2>1 DEF TypeOK
<1>4. \A m \in Nodes \ {n} : \A d, p : Writes(m, d, p) => Writes(m, d, p)'
  BY <1>1, WriterOf
<1>5. \A d, p : Writes(n, d, p) => d = d0 /\ p = "json"
  BY <1>1 DEF Writes
<1>d. d0 = a0.digest /\ (others <=> \E m \in Nodes \ {n} : Writes(m, d0, "json"))
  OBVIOUS
<1> HIDE DEF a0, d0, others
<1>6. \A d \in Digests : meta'[d] = IF d = d0 THEN IF others THEN "open" ELSE "whole" ELSE meta[d]
  BY <1>1 DEF TypeOK
<1>7. \A d \in Digests : meta[d] # "absent" => meta'[d] # "absent"
  BY <1>6
<1>8. \A m \in Nodes : IF putting'[m] = NoArtifact THEN part'[m] = "bytes"
                       ELSE /\ blob'[putting'[m].digest] # "absent"
                            /\ part'[m] = "json" => meta'[putting'[m].digest] # "absent"
  BY <1>1, <1>2, <1>7 DEF FilesInv, StoreInv
<1>9. ASSUME NEW m \in Nodes, NEW a \in refs'[m]
      PROVE  blob'[a.digest] # "absent" /\ meta'[a.digest] # "absent"
  <2>1. a \in refs[m] \/ a = a0
    BY <1>3
  <2>2. a.digest \in Digests /\ blob[a.digest] # "absent" /\ meta[a.digest] # "absent"
    BY <1>2, <1>d, <2>1 DEF TypeOK, Artifact, FilesInv, StoreInv
  <2> QED BY <1>1, <1>7, <2>2
<1>10. ASSUME NEW d \in Digests, blob'[d] = "open" PROVE \E m \in Nodes : Writes(m, d, "bytes")'
  <2>1. \E m \in Nodes \ {n} : Writes(m, d, "bytes")
    BY <1>1, <1>5, <1>10 DEF FilesInv, StoreInv
  <2> QED BY <1>4, <2>1
<1>11. ASSUME NEW d \in Digests, meta'[d] = "open" PROVE \E m \in Nodes : Writes(m, d, "json")'
  <2>1. \E m \in Nodes \ {n} : Writes(m, d, "json")
    BY <1>5, <1>6, <1>11, <1>d DEF FilesInv, StoreInv
  <2> QED BY <1>4, <2>1
<1> QED BY <1>8, <1>9, <1>10, <1>11 DEF StoreInv

LEMMA StoreStep == TypeOK /\ ProbeInv /\ FilesInv /\ [Next]_vars => StoreInv'
<1> SUFFICES ASSUME TypeOK, ProbeInv, FilesInv, [Next]_vars PROVE StoreInv'
  OBVIOUS
<1>1. ASSUME UNCHANGED <<refs, storeVars>> PROVE StoreInv'
  BY <1>1 DEF FilesInv, StoreInv, Writes
<1>2. ASSUME NEW n \in Nodes, ProbeStep(n) PROVE StoreInv'
  <2>1. UNCHANGED <<refs, storeVars>>
    BY <1>2, ProbeStepCases DEF Passes, ProbeEnds
  <2> QED BY <1>1, <2>1
<1>3. ASSUME NEW n \in Nodes, ValidationStep(n) \/ UploadFails(n) \/ Answer(n) \/ WorkerKilled(n)
      PROVE  StoreInv'
  <2>1. UNCHANGED <<refs, storeVars>>
    BY <1>3 DEF ValidationStep, TakeValidation, Launch, BrowserFails, Goto, Screenshot, Close,
         KeepHar, UploadFails, Answer, WorkerKilled
  <2> QED BY <1>1, <2>1
<1>4. CASE ControlPlaneCrashes
  <2>1. /\ \A d \in Digests : /\ blob'[d] = (IF blob[d] = "open" THEN "cut" ELSE blob[d])
                              /\ meta'[d] = (IF meta[d] = "open" THEN "cut" ELSE meta[d])
        /\ \A m \in Nodes : putting'[m] = NoArtifact /\ part'[m] = "bytes"
        /\ UNCHANGED refs
    BY <1>4 DEF ControlPlaneCrashes, Cut
  <2>2. \A m \in Nodes : \A a \in refs[m] : a.digest \in Digests
    BY DEF TypeOK, Artifact
  <2> QED BY <2>1, <2>2 DEF FilesInv, StoreInv
<1>5. CASE UNCHANGED vars
  BY <1>1, <1>5 DEF vars
<1> QED BY <1>2, <1>3, <1>4, <1>5, PutStartsStore, PutGoesOnStore, PutEndsStore DEF Next, UploadStep

-----------------------------------------------------------------------------
(* Theorems *)

LEMMA InitInv == Init => IInv
<1> SUFFICES ASSUME Init PROVE IInv
  OBVIOUS
<1> USE EvidenceAssumption
<1>1. TypeOK
  <2>1. NewProbe \in ProbeRecord
    BY DEF NewProbe, ProbeRecord, Reasons
  <2>2. AnswerTypeOK
    BY DEF Init, AnswerTypeOK, browserError, outcome
  <2>3. part \in [Nodes -> Parts] /\ blob \in [Digests -> FileStates] /\ meta \in [Digests -> FileStates]
    BY DEF Init, Parts, FileStates
  <2>4. /\ secure \in BOOLEAN /\ host \in Hosts /\ at \in [Nodes -> Places]
        /\ url = "initial_tests_running"
        /\ page \in [Nodes -> Pages \cup {NoPage}]
        /\ harFile \in [Nodes -> {"none", "written", "stuck"}]
    BY DEF Init, Places
  <2>5. /\ out \in [Nodes -> ProbeRecord]
        /\ artifacts \in [Nodes -> SUBSET Artifact] /\ refs \in [Nodes -> SUBSET Artifact]
        /\ putting \in [Nodes -> Artifact \cup {NoArtifact}]
        /\ result \in [Nodes -> [Stages -> Answers \cup {Missing}]] /\ faults \in 0..MaxFaults
    BY <2>1 DEF Init
  <2> QED BY <2>2, <2>3, <2>4, <2>5 DEF TypeOK
<1>2. ProbeInv
  <2>1. \A n \in Nodes : UnderWay(n)
    BY DEF Init, UnderWay, NewProbe, Probing
  <2>2. \A n \in Nodes : Blamed(out[n])
    BY DEF Init, Blamed, NewProbe
  <2> QED BY <2>1, <2>2 DEF ProbeInv
<1>3. RecordInv
  BY DEF Init, RecordInv, Validating, Stages
<1>4. FilesInv
  <2>1. \A n \in Nodes : NodeInv(n)
    BY DEF Init, NodeInv, Untouched, Digests
  <2>2. StoreInv
    BY DEF Init, StoreInv
  <2> QED BY <2>1, <2>2 DEF FilesInv
<1> QED BY <1>1, <1>2, <1>3, <1>4 DEF IInv

\* The invariant from which the properties follow.
THEOREM Invariance == Spec => []IInv
<1>1. IInv /\ [Next]_vars => IInv'
  <2> SUFFICES ASSUME IInv, [Next]_vars PROVE IInv'
    OBVIOUS
  <2>1. TypeOK'
    BY TypeStep DEF IInv
  <2>2. ProbeInv'
    BY ProbeStepInv, LaterStepInv DEF IInv, Next
  <2>3. RecordInv'
    BY RecordStep DEF IInv
  <2>4. FilesInv'
    BY NodeStep, StoreStep DEF IInv, FilesInv
  <2> QED BY <2>1, <2>2, <2>3, <2>4 DEF IInv
<1> QED BY <1>1, InitInv, PTL DEF Spec

\* Type correctness.
THEOREM TypeCorrect == Spec => []TypeOK
BY Invariance, PTL DEF IInv

\* A probe blames the first layer that failed, and one it has reached, unless
\* it is a lookup error that the name of the host misjudges (the catch of
\* initialTest).
THEOREM BlamesAreReached == Spec => []BlameIsReached
<1>1. IInv => BlameIsReached
  BY DEF IInv, ProbeInv, Blamed, BlameIsReached, AllLayers
<1> QED BY <1>1, Invariance, PTL

\* No archive of a healthy page leaves the worker, or stays on its disk when
\* neither a kill nor an error of the removal keeps it there (shouldKeepHar
\* and the end of browserValidate).
THEOREM HarsAreOfFailures == Spec => []HarOnlyOfFailures
<1>1. IInv => HarOnlyOfFailures
  BY DEF IInv, FilesInv, NodeInv, Clean, HarOnlyOfFailures
<1> QED BY <1>1, Invariance, PTL

\* Whoever is given a reference finds the bytes and their description in the
\* blob store, whole unless somebody writes them now or a crash of the control
\* plane cut them short (put and get of blob-store.mjs).
THEOREM RefsAreServed == Spec => []RefIsServed
<1>1. IInv => RefIsServed
  <2> SUFFICES ASSUME IInv, NEW n \in Nodes, NEW a \in refs[n]
               PROVE  /\ \/ blob[a.digest] \in {"whole", "cut"}
                         \/ /\ blob[a.digest] = "open"
                            /\ \E m \in Nodes : Writes(m, a.digest, "bytes")
                      /\ \/ meta[a.digest] \in {"whole", "cut"}
                         \/ /\ meta[a.digest] = "open"
                            /\ \E m \in Nodes : Writes(m, a.digest, "json")
    BY DEF RefIsServed
  <2>1. a.digest \in Digests
    BY DEF IInv, TypeOK, Artifact
  <2>2. blob[a.digest] \in FileStates \ {"absent"} /\ meta[a.digest] \in FileStates \ {"absent"}
    BY <2>1 DEF IInv, TypeOK, FilesInv, StoreInv
  <2> QED BY <2>1, <2>2 DEF IInv, FilesInv, StoreInv, FileStates
<1> QED BY <1>1, Invariance, PTL

\* A complete packet has the files it asks for.  The argument does not use
\* that the summary drops the references: it holds of any answer that
\* carries no more references than its uploads were given.
THEOREM CompleteIsTrue == Spec => []NoFalseComplete
<1>1. IInv => NoFalseComplete
  <2> SUFFICES ASSUME IInv, url = "completed", packet.complete,
                      NEW n \in Nodes, result[n]["browser_validation"] # Missing
               PROVE  LET kinds == {a.kind : a \in refs[n]}
                      IN  "screenshot" \in kinds
                          /\ (result[n]["browser_validation"].ok \/ "har" \in kinds)
    BY DEF NoFalseComplete
  <2>1. requiredArtifacts(result) \subseteq collectArtifacts(result)
    <3>1. packet = generate(result)
      BY DEF IInv, RecordInv
    <3>2. packet.complete = (requiredArtifacts(result) \ collectArtifacts(result) = {})
      BY <3>1 DEF generate
    <3> QED BY <3>2
  <2>2. \A k : <<n, k>> \in collectArtifacts(result) => \E a \in refs[n] : a.kind = k
    <3>1. \A k : <<n, k>> \in collectArtifacts(result) =>
            \E a \in result[n]["browser_validation"].artifactRefs : a.kind = k
      BY DEF collectArtifacts
    <3> QED BY <3>1 DEF IInv, RecordInv
  <2>3. <<n, "screenshot">> \in requiredArtifacts(result)
    BY DEF requiredArtifacts, Kinds
  <2>4. ~result[n]["browser_validation"].ok => <<n, "har">> \in requiredArtifacts(result)
    BY DEF requiredArtifacts, Kinds
  <2> QED BY <2>1, <2>2, <2>3, <2>4
<1> QED BY <1>1, Invariance, PTL
===============================================================================
