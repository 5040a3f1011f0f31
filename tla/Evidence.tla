------------------------------- MODULE Evidence ------------------------------
(***************************************************************************)
(* The evidence of one URL, from the workers that gather it to the packet  *)
(* that lists it.  A worker probes layer by layer (initial-test.mjs); once *)
(* every selected node has answered and one of them failed, each validates *)
(* the page in a browser, keeps a screenshot and, of a failure, a HAR      *)
(* (browser-validation.mjs), uploads them to the control plane's blob      *)
(* store (upload.mjs, data-plane.mjs, blob-store.mjs) and answers with     *)
(* references (job-runner.mjs).  Its supervisor forwards a summary of the  *)
(* answer (core/index.mjs), and the control plane writes the packet of the *)
(* completed URL (site-packet.mjs).                                        *)
(*                                                                         *)
(* Every await of a worker, and of the two writes of a blob (the bytes,    *)
(* then their description), is a step that the other nodes' steps come     *)
(* between.  A file is "open" while somebody writes it, also when it was   *)
(* whole: writeFile truncates it first.  A crash of the control plane      *)
(* forgets the URL and leaves "cut" the files it was writing; a worker     *)
(* that is killed (an update, a crash) forgets its job.                    *)
(* The order and the loss of answers are RunOrchestrator's subject: here   *)
(* an answer arrives with the step that gives it.                          *)
(***************************************************************************)
EXTENDS Naturals, Probe, BrowserValidation

CONSTANTS
  Nodes,         \* the nodes selected for the URL
  Shots,         \* the digests a screenshot can have, alike on several nodes
  Pages,         \* the pages a browser can meet
  Hosts,         \* what reasonFromError's expressions find in the host's name
  MaxRedirects,  \* fetchWithChain follows so many (10 in the code)
  MaxFaults      \* bound: crashes of the control plane and of workers

ASSUME EvidenceAssumption ==
  /\ Nodes \cap Shots = {}
  /\ Pages \subseteq Page
  /\ Hosts \subseteq SUBSET Groups
  /\ MaxRedirects \in Nat
  /\ MaxFaults \in Nat

Kinds == {"screenshot", "har"}
Digests == Shots \cup Nodes         \* a HAR differs from node to node
Artifact == [kind : Kinds, digest : Digests]
Answers == [ok : BOOLEAN, artifactRefs : SUBSET Artifact]

VARIABLES
  secure,    \* the URL is https
  host,      \* what the expressions find in the name of its host
  url,       \* where the control plane has the URL
  at,        \* at[n]: the await at which the worker of n stands
  out,       \* out[n]: the probe's record
  page,      \* page[n]: the page that the browser of n met, or NoPage
  answer,    \* answer[n]: the outcome of the browser validation
  harFile,   \* harFile[n]: the archive on the worker's disk; "stuck": rm failed
  artifacts, \* artifacts[n]: files described and still to be uploaded
  refs,      \* refs[n]: the artifact_refs of the uploads that succeeded
  putting,   \* putting[n]: the artifact of n that the blob store writes
  part,      \* part[n]: which of its two files
  blob,      \* blob[d]: the file of that digest
  meta,      \* meta[d]: its description, the file <digest>.json
  result,    \* result[n][stage]: the recorded answer, or Missing
  packet,    \* the manifest's evidence, or NoPacket
  faults

workVars == <<page, answer, harFile>>
storeVars == <<putting, part, blob, meta>>
vars == <<secure, host, url, at, out, workVars, artifacts, refs, storeVars, result, packet,
          faults>>

Stages == {"initial_test", "browser_validation"}
Places == {"dns", "tcp", "tls", "http", "launch", "goto", "screenshot", "close", "keep",
           "upload", "response", "done", "killed"}
Parts == {"bytes", "json"}
FileStates == {"absent", "open", "whole", "cut"}

ProbeRecord == [passed : SUBSET {"dns", "tcp", "tls"}, hops : 0..(MaxRedirects + 1),
                ok : BOOLEAN, reason : Reasons,
                failureLayer : {"none", "dns", "tcp", "tls", "http", "timeout"},
                timeoutPhase : {"none", "dns", "tcp", "tls", "http", "timeout"}]

NewProbe == [passed |-> {}, hops |-> 0, ok |-> FALSE, reason |-> "UNKNOWN",
             failureLayer |-> "none", timeoutPhase |-> "none"]
Missing == [stage |-> "none"]
NoPacket == [complete |-> FALSE]
NoArtifact == [kind |-> "none"]
NoPage == [status |-> "no page"]

AnswerTypeOK == DOMAIN answer = Nodes /\ \A n \in Nodes : answer[n].ok \in BOOLEAN

TypeOK ==
  /\ secure \in BOOLEAN
  /\ host \in Hosts
  /\ url \in {"initial_tests_running", "browser_validation_running", "completed", "forgotten"}
  /\ at \in [Nodes -> Places]
  /\ out \in [Nodes -> ProbeRecord]
  /\ page \in [Nodes -> Pages \cup {NoPage}]
  /\ AnswerTypeOK
  /\ harFile \in [Nodes -> {"none", "written", "stuck"}]
  /\ artifacts \in [Nodes -> SUBSET Artifact]
  /\ refs \in [Nodes -> SUBSET Artifact]
  /\ putting \in [Nodes -> Artifact \cup {NoArtifact}]
  /\ part \in [Nodes -> Parts]
  /\ blob \in [Digests -> FileStates]
  /\ meta \in [Digests -> FileStates]
  /\ result \in [Nodes -> [Stages -> Answers \cup {Missing}]]
  /\ faults \in 0..MaxFaults

Init ==
  /\ secure \in BOOLEAN
  /\ host \in Hosts
  /\ url = "initial_tests_running"
  /\ at = [n \in Nodes |-> "dns"]
  /\ out = [n \in Nodes |-> NewProbe]
  /\ page = [n \in Nodes |-> NoPage]
  /\ answer = [n \in Nodes |-> browserError]
  /\ harFile = [n \in Nodes |-> "none"]
  /\ artifacts = [n \in Nodes |-> {}]
  /\ refs = [n \in Nodes |-> {}]
  /\ putting = [n \in Nodes |-> NoArtifact]
  /\ part = [n \in Nodes |-> "bytes"]
  /\ blob = [d \in Digests |-> "absent"]
  /\ meta = [d \in Digests |-> "absent"]
  /\ result = [n \in Nodes |-> [s \in Stages |-> Missing]]
  /\ packet = NoPacket
  /\ faults = 0
-----------------------------------------------------------------------------
(* The control plane records answers and writes the packet *)

\* summarizeResult: what the supervisor forwards of a worker's answer.
summarizeResult(r) == [r EXCEPT !.artifactRefs = {}]

\* Wrong on purpose: a screenshot is asked of failures only.
MutRequiredArtifacts(res) ==
  {r \in Nodes \X Kinds : /\ res[r[1]]["browser_validation"] # Missing
                          /\ ~res[r[1]]["browser_validation"].ok}

\* A screenshot of every browser validation, and a HAR of those that failed.
requiredArtifacts(res) ==
  {r \in Nodes \X Kinds :
     /\ res[r[1]]["browser_validation"] # Missing
     /\ r[2] = "har" => ~res[r[1]]["browser_validation"].ok}

collectArtifacts(res) ==
  UNION {{<<n, a.kind>> : a \in res[n]["browser_validation"].artifactRefs} :
           n \in {m \in Nodes : res[m]["browser_validation"] # Missing}}

\* The evidence section of the manifest.
generate(res) ==
  LET missing == requiredArtifacts(res) \ collectArtifacts(res)
  IN  [required |-> requiredArtifacts(res), missing |-> missing, complete |-> missing = {}]

\* onResult and advance; the answer for a forgotten URL is dropped.
Record(n, stage, r) ==
  LET res == [result EXCEPT ![n][stage] = summarizeResult(r)]
      done(s) == \A m \in Nodes : res[m][s] # Missing
  IN  IF url = "forgotten" THEN UNCHANGED <<url, result, packet>>
      ELSE /\ result' = res
           /\ IF ~done(stage) THEN UNCHANGED <<url, packet>>
              ELSE IF stage = "initial_test" /\ \E m \in Nodes : ~res[m][stage].ok
              THEN url' = "browser_validation_running" /\ UNCHANGED packet
              ELSE url' = "completed" /\ packet' = generate(res)
-----------------------------------------------------------------------------
(* initialTest *)

Go(n, from, to) == at[n] = from /\ at' = [at EXCEPT ![n] = to]

Passes(n, layer, next) ==
  /\ Go(n, layer, next)
  /\ out' = [out EXCEPT ![n].passed = @ \cup {layer}]
  /\ UNCHANGED <<secure, host, url, workVars, artifacts, refs, storeVars, result, packet, faults>>

\* The probe is over: its record is complete and the worker answers.
ProbeEnds(n, record) ==
  /\ out' = [out EXCEPT ![n] = record]
  /\ Record(n, "initial_test", [ok |-> record.ok, artifactRefs |-> {}])
  /\ UNCHANGED <<secure, host, workVars, artifacts, refs, storeVars, faults>>

\* Wrong on purpose: the layer is always worked out from the reason.
MutFailure(layer, e, record) ==
  LET reason == IF layer = "dns" THEN reasonFromError(LookupText(e, host))
                ELSE layeredReason(layer, ErrorText(e))
      blamed == failureLayerFromReason(reason)
  IN  [record EXCEPT !.reason = reason, !.failureLayer = blamed,
         !.timeoutPhase = IF reason # "TIMEOUT" THEN "none"
                          ELSE IF blamed = "none" THEN "http" ELSE blamed]

\* The catch of initialTest.  dns.lookup throws without a layer, and a text of
\* its own.
Failure(layer, e, record) ==
  LET reason == IF layer = "dns" THEN reasonFromError(LookupText(e, host))
                ELSE layeredReason(layer, ErrorText(e))
      blamed == IF layer = "dns" THEN failureLayerFromReason(reason) ELSE layer
  IN  [record EXCEPT !.reason = reason, !.failureLayer = blamed,
         !.timeoutPhase = IF reason # "TIMEOUT" THEN "none"
                          ELSE IF blamed = "none" THEN "http" ELSE blamed]

ProbeFails(n, layer, e) == Go(n, layer, "done") /\ ProbeEnds(n, Failure(layer, e, out[n]))

Lookup(n) == Passes(n, "dns", "tcp") \/ \E e \in DnsErrors : ProbeFails(n, "dns", e)

Connect(n) == \/ Passes(n, "tcp", IF secure THEN "tls" ELSE "http")
              \/ \E e \in TcpErrors : ProbeFails(n, "tcp", e)

Handshake(n) == Passes(n, "tls", "http") \/ \E e \in TlsErrors : ProbeFails(n, "tls", e)

\* Wrong on purpose: the limit is compared with one redirect too late.
MutRedirect(n) ==
  LET chained == [out[n] EXCEPT !.hops = @ + 1]
  IN  /\ at[n] = "http"
      /\ \/ /\ chained.hops > MaxRedirects + 1
            /\ Go(n, "http", "done")
            /\ ProbeEnds(n, Failure("http", "TOO_MANY_REDIRECTS", chained))
         \/ /\ chained.hops <= MaxRedirects + 1
            /\ out' = [out EXCEPT ![n] = chained]
            /\ UNCHANGED <<secure, host, url, at, workVars, artifacts, refs, storeVars, result,
                           packet, faults>>

\* fetchWithChain: one redirect more, and an error after the last allowed ...
Redirect(n) ==
  LET chained == [out[n] EXCEPT !.hops = @ + 1]
  IN  /\ at[n] = "http"
      /\ \/ /\ chained.hops > MaxRedirects
            /\ Go(n, "http", "done")
            /\ ProbeEnds(n, Failure("http", "TOO_MANY_REDIRECTS", chained))
         \/ /\ chained.hops <= MaxRedirects
            /\ out' = [out EXCEPT ![n] = chained]
            /\ UNCHANGED <<secure, host, url, at, workVars, artifacts, refs, storeVars, result,
                           packet, faults>>

\* ... an error of this or of a further host ...
FetchFails(n) == \E e \in FetchErrors : ProbeFails(n, "http", e)

\* ... or a response.  Whether its body can be read changes nothing.
Respond(n) ==
  /\ Go(n, "http", "done")
  /\ \/ ProbeEnds(n, [out[n] EXCEPT !.ok = TRUE, !.reason = "OK"])
     \/ ProbeEnds(n, [out[n] EXCEPT !.reason = "HTTP_ERROR"])
-----------------------------------------------------------------------------
(* browserValidate *)

TakeValidation(n) ==
  /\ url = "browser_validation_running"
  /\ result[n]["browser_validation"] = Missing
  /\ Go(n, "done", "launch")
  /\ out' = [out EXCEPT ![n] = NewProbe]
  /\ UNCHANGED <<secure, host, url, workVars, artifacts, refs, storeVars, result, packet, faults>>

Launch(n) ==
  /\ Go(n, "launch", "goto")
  /\ UNCHANGED <<secure, host, url, out, workVars, artifacts, refs, storeVars, result, packet, faults>>

\* No browser, no context or no page: browserError, without artifacts.  The
\* context, if there is one, is closed on the way out and may write the HAR.
BrowserFails(n) ==
  /\ at[n] \in {"launch", "goto"}
  /\ at' = [at EXCEPT ![n] = "upload"]
  /\ answer' = [answer EXCEPT ![n] = browserError]
  /\ \E written \in {"none", "written"} : harFile' = [harFile EXCEPT ![n] = written]
  /\ UNCHANGED <<secure, host, url, out, page, artifacts, refs, storeVars, result, packet, faults>>

Goto(n) ==
  /\ Go(n, "goto", "screenshot")
  /\ \E p \in Pages : /\ page' = [page EXCEPT ![n] = p]
                      /\ answer' = [answer EXCEPT ![n] = classifyOutcome(p)]
  /\ UNCHANGED <<secure, host, url, out, harFile, artifacts, refs, storeVars, result, packet,
                 faults>>

Keep(n, found) == artifacts' = [artifacts EXCEPT ![n] = @ \cup found]

\* The screenshot is best-effort.
Screenshot(n) ==
  /\ Go(n, "screenshot", "close")
  /\ \E found \in {{}} \cup {{[kind |-> "screenshot", digest |-> d]} : d \in Shots} : Keep(n, found)
  /\ UNCHANGED <<secure, host, url, out, workVars, refs, storeVars, result, packet, faults>>

\* Closing the context writes the HAR of every validation; it may fail.
Close(n) ==
  /\ Go(n, "close", "keep")
  /\ \E written \in {"none", "written"} : harFile' = [harFile EXCEPT ![n] = written]
  /\ UNCHANGED <<secure, host, url, out, page, answer, artifacts, refs, storeVars, result,
                 packet, faults>>

\* The HAR of a failure is described, if it can be read; another is removed,
\* which may fail too.
KeepHar(n) ==
  /\ Go(n, "keep", "upload")
  /\ IF shouldKeepHar(answer[n].ok)
     THEN /\ \E described \in {harFile[n] = "written", FALSE} :
               Keep(n, IF described THEN {[kind |-> "har", digest |-> n]} ELSE {})
          /\ UNCHANGED harFile
     ELSE /\ \E gone \in {"none", "stuck"} :
               harFile' = [harFile EXCEPT ![n] = IF @ = "written" THEN gone ELSE @]
          /\ UNCHANGED artifacts
  /\ UNCHANGED <<secure, host, url, out, page, answer, refs, storeVars, result, packet, faults>>
-----------------------------------------------------------------------------
(* uploadArtifact, ingestArtifact and the blob store *)

\* The screenshot goes first; one upload at a time.
NextArtifact(n) ==
  CHOOSE a \in artifacts[n] : a.kind = "screenshot" \/ \A b \in artifacts[n] : b.kind = "har"

\* Wrong on purpose: the status of the response is not looked at.
MutUploadFails(n) ==
  /\ at[n] = "upload"
  /\ artifacts[n] # {}
  /\ artifacts' = [artifacts EXCEPT ![n] = @ \ {NextArtifact(n)}]
  /\ refs' = [refs EXCEPT ![n] = @ \cup {NextArtifact(n)}]
  /\ UNCHANGED <<secure, host, url, at, out, workVars, storeVars, result, packet, faults>>

\* The request does not get through, or is refused: no reference.
UploadFails(n) ==
  /\ at[n] = "upload"
  /\ artifacts[n] # {}
  /\ artifacts' = [artifacts EXCEPT ![n] = @ \ {NextArtifact(n)}]
  /\ UNCHANGED <<secure, host, url, at, out, workVars, refs, storeVars, result, packet, faults>>

\* put opens the file of the digest, whether or not it exists.
PutStarts(n) ==
  /\ Go(n, "upload", "response")
  /\ artifacts[n] # {}
  /\ putting' = [putting EXCEPT ![n] = NextArtifact(n)]
  /\ blob' = [blob EXCEPT ![NextArtifact(n).digest] = "open"]
  /\ UNCHANGED <<secure, host, url, out, workVars, artifacts, refs, part, meta, result, packet,
                 faults>>

Writes(m, d, p) == putting[m] # NoArtifact /\ putting[m].digest = d /\ part[m] = p

\* A file that n has written is whole if no other upload writes it now.
Written(file, n) ==
  [file EXCEPT ![putting[n].digest] =
     IF \E m \in Nodes \ {n} : Writes(m, putting[n].digest, part[n]) THEN "open" ELSE "whole"]

\* The bytes are written, and the description is opened.
PutGoesOn(n) ==
  /\ putting[n] # NoArtifact
  /\ part[n] = "bytes"
  /\ part' = [part EXCEPT ![n] = "json"]
  /\ blob' = Written(blob, n)
  /\ meta' = [meta EXCEPT ![putting[n].digest] = "open"]
  /\ UNCHANGED <<secure, host, url, at, out, workVars, artifacts, refs, putting, result, packet,
                 faults>>

\* The description is written.  The response makes the reference, unless it is
\* lost or the worker was killed while it waited.
PutEnds(n) ==
  /\ putting[n] # NoArtifact
  /\ part[n] = "json"
  /\ part' = [part EXCEPT ![n] = "bytes"]
  /\ meta' = Written(meta, n)
  /\ putting' = [putting EXCEPT ![n] = NoArtifact]
  /\ \/ /\ Go(n, "response", "upload")
        /\ artifacts' = [artifacts EXCEPT ![n] = @ \ {putting[n]}]
        /\ \/ refs' = [refs EXCEPT ![n] = @ \cup {putting[n]}]
           \/ UNCHANGED refs
     \/ at[n] = "killed" /\ UNCHANGED <<at, artifacts, refs>>
  /\ UNCHANGED <<secure, host, url, out, workVars, blob, result, packet, faults>>

\* runJob answers once every artifact was tried.
Answer(n) ==
  /\ Go(n, "upload", "done")
  /\ artifacts[n] = {}
  /\ Record(n, "browser_validation", [ok |-> answer[n].ok, artifactRefs |-> refs[n]])
  /\ UNCHANGED <<secure, host, out, workVars, artifacts, refs, storeVars, faults>>
-----------------------------------------------------------------------------
(* Faults *)

WorkerKilled(n) ==
  /\ faults < MaxFaults
  /\ at[n] \notin {"done", "killed"}
  /\ at' = [at EXCEPT ![n] = "killed"]
  /\ faults' = faults + 1
  /\ UNCHANGED <<secure, host, url, out, workVars, artifacts, refs, storeVars, result, packet>>

\* Open requests fail; the packet and the blobs are on disk, those being
\* written as far as they were.
Cut(file) == [d \in Digests |-> IF file[d] = "open" THEN "cut" ELSE file[d]]

ControlPlaneCrashes ==
  /\ faults < MaxFaults
  /\ faults' = faults + 1
  /\ url' = "forgotten"
  /\ result' = [n \in Nodes |-> [s \in Stages |-> Missing]]
  /\ putting' = [n \in Nodes |-> NoArtifact]
  /\ part' = [n \in Nodes |-> "bytes"]
  /\ blob' = Cut(blob)
  /\ meta' = Cut(meta)
  /\ at' = [n \in Nodes |-> IF at[n] = "response" THEN "upload" ELSE at[n]]
  /\ artifacts' = [n \in Nodes |-> IF at[n] = "response" THEN artifacts[n] \ {putting[n]}
                                                         ELSE artifacts[n]]
  /\ UNCHANGED <<secure, host, out, workVars, refs, packet>>

ProbeStep(n) ==
  Lookup(n) \/ Connect(n) \/ Handshake(n) \/ Redirect(n) \/ FetchFails(n) \/ Respond(n)

ValidationStep(n) ==
  TakeValidation(n) \/ Launch(n) \/ BrowserFails(n) \/ Goto(n) \/ Screenshot(n) \/ Close(n)
    \/ KeepHar(n)

UploadStep(n) == UploadFails(n) \/ PutStarts(n) \/ PutGoesOn(n) \/ PutEnds(n) \/ Answer(n)

Next ==
  \/ \E n \in Nodes : ProbeStep(n) \/ ValidationStep(n) \/ UploadStep(n) \/ WorkerKilled(n)
  \/ ControlPlaneCrashes

Spec == Init /\ [][Next]_vars
-----------------------------------------------------------------------------
(* Properties *)

\* initial-test.mjs:3-5, "DNS -> TCP -> TLS -> HTTP ... failure-layer
\* classification": the layer a probe blames was reached, every layer before
\* it passed and none after it was tried, however many redirects came before;
\* a timeout, and nothing else, has a phase; and a failure that blames no
\* layer is the status of a response or a lookup error that says nothing.  One
\* kind of failure is misjudged: a lookup error blames what the expressions
\* find in the name of the host, though only DNS was tried.
BlameIsReached ==
  \A n \in Nodes :
    LET o == out[n]
        all == IF secure THEN {"dns", "tcp", "tls"} ELSE {"dns", "tcp"}
    IN  o.reason # "UNKNOWN" =>
          /\ \/ o.passed = CASE o.ok \/ o.failureLayer = "http" -> all
                             [] o.failureLayer = "tls" -> {"dns", "tcp"}
                             [] o.failureLayer = "tcp" -> {"dns"}
                             [] o.failureLayer = "dns" -> {}
                             [] OTHER -> IF o.reason = "NETWORK_FAILURE" THEN {} ELSE all
             \/ o.passed = {} /\ ~o.ok /\ o.failureLayer \in host
          /\ o.failureLayer = "tls" => secure \/ o.passed = {}
          /\ o.failureLayer = "timeout" => o.passed = {}
          /\ (o.reason = "TIMEOUT") <=> (o.timeoutPhase # "none")
          /\ ~o.ok /\ o.failureLayer = "none" => o.reason \in {"HTTP_ERROR", "NETWORK_FAILURE"}

\* A page that came without an error and without a mark of a challenge or of a
\* refusal, from an origin server or Akamai's edge.  (Imperva and DataDome
\* mark all the pages they front, and those are taken for blocked.)
Healthy(p) == p.status = "200" /\ p.nav = "none" /\ p.marks \subseteq {"akamaighost"}

\* har.mjs:3-4, "recorded ONLY on failing browser validations": every validation
\* records an archive, but that of a healthy page never leaves the worker, and
\* it is off the worker's disk before anything is uploaded or answered, unless
\* the worker is killed first or the file cannot be removed.
HarOnlyOfFailures ==
  \A n \in Nodes : page[n] # NoPage /\ Healthy(page[n]) =>
    /\ \A a \in artifacts[n] \cup refs[n] : a.kind # "har"
    /\ blob[n] = "absent"
    /\ harFile[n] = "written" => at[n] \in {"keep", "killed"}

\* data-plane.mjs, "GET /artifacts/:id": of a file whose reference was given,
\* the bytes and their description are there, and they are whole unless
\* another node is writing them at this moment or the control plane crashed
\* while one did and nobody has uploaded the same content since.  (Then they
\* are served as they are, although "the id IS the hash", blob-store.mjs:4.)
RefIsServed ==
  \A n \in Nodes : \A a \in refs[n] :
    LET served(file, p) == \/ file[a.digest] \in {"whole", "cut"}
                           \/ file[a.digest] = "open" /\ \E m \in Nodes : Writes(m, a.digest, p)
    IN  served(blob, "bytes") /\ served(meta, "json")

\* site-packet.mjs, "no false-complete": a packet called complete has, of every
\* node that validated the page, an uploaded screenshot and, if the page
\* failed there, a HAR.
NoFalseComplete ==
  url = "completed" /\ packet.complete =>
    \A n \in Nodes : result[n]["browser_validation"] # Missing =>
      LET kinds == {a.kind : a \in refs[n]}
      IN  "screenshot" \in kinds /\ (result[n]["browser_validation"].ok \/ "har" \in kinds)
=============================================================================
