------------------------------ MODULE Onboarding ------------------------------
(***************************************************************************)
(* Zero-touch onboarding: bootstrap.mjs on a machine against the control   *)
(* plane's bundle, enrollment and store, and the supervisor it installs,   *)
(* with crashes of the control plane, of bootstraps and of supervisors.    *)
(*                                                                         *)
(* A bootstrap is one process with a step for each of its awaits; one runs *)
(* on a machine at a time.  A request it sends is handled before it dies   *)
(* or not at all.  The service is the systemd one.  Whatever else may fail *)
(* (the network, the rate limit of the enrollment, the machine's disk)     *)
(* ends the bootstrap as its death does.  The versions of a bundle are     *)
(* extracted over what is in their directory; that a file which one build  *)
(* has and a later one has not is left there is not modelled.              *)
(***************************************************************************)
EXTENDS Enrollment, Bundles

CONSTANTS Machines,     \* hosts
          IdOf,         \* IdOf[m]: the node id a bootstrap on m enrolls
          NodesCheck,   \* whether publisher keys are configured on the machines
          MaxRuns       \* bound: runs of the bootstrap on a machine

ASSUME OnboardingAssumption ==
  /\ IdOf \in [Machines -> NodeIds]
  /\ NodesCheck \in BOOLEAN /\ MaxRuns \in Nat

VARIABLES
  boot,      \* boot[m]: the step the bootstrap of m is at, its token, what it has got
  outcome,   \* outcome[m] of the last run that has ended
  current,   \* current[m]: the build that `current` points at
  service,   \* machines with the service enabled
  identity,  \* identity[m]: the credential in the identity file, 0 if not readable
  running,   \* running[m]: the credential the running supervisor has loaded, or 0
  runs

machine == <<boot, outcome, current, service, identity, running>>
vars == <<up, store, faults, enrollment, bundles, machine, runs>>

Steps == {"idle", "manifest", "download", "extract", "service", "enroll", "persist", "start"}
Idle == [step |-> "idle", token |-> "none", build |-> NoBuild, cred |-> 0]

TypeOK ==
  /\ driver \in Drivers /\ up \in BOOLEAN
  /\ torn \subseteq Tables /\ writing \subseteq torn
  /\ missed \subseteq UNION {Rows(t) : t \in Tables}
  /\ \A T \in {disk, cache} : /\ T["enrollments"] \in [Tokens -> {"none", "unused", "used"}]
                              /\ T["credentials"] \in [NodeIds -> 0..Len(mints)]
  /\ tokens \in [Tokens -> {"none", "unused", "used"}]
  /\ creds \in [NodeIds -> 0..Len(mints)]
  /\ expired \subseteq issued /\ issued \subseteq Tokens
  /\ mints \in Seq([node : NodeIds, token : Tokens, life : 0..life, taken : SUBSET Tables])
  /\ life \in Nat /\ faults \in 0..MaxFaults[driver]
  /\ registered \in Builds \cup {NoBuild} /\ putting \in Builds \cup {NoBuild}
  /\ file \in Builds \cup {NoBuild, TornBuild}
  /\ accepted \subseteq Builds
  /\ boot \in [Machines -> [step : Steps, token : Tokens \cup {"none"},
                            build : Builds \cup {NoBuild}, cred : 0..Len(mints)]]
  /\ outcome \in [Machines -> {"none", "failed", "onboarded"}]
  /\ current \in [Machines -> Builds \cup {NoBuild, TornBuild}]
  /\ service \subseteq Machines
  /\ identity \in [Machines -> 0..Len(mints)] /\ running \in [Machines -> 0..Len(mints)]
  /\ runs \in [Machines -> Nat]

Init ==
  /\ StoreInit /\ EnrollmentInit /\ BundlesInit
  /\ boot = [m \in Machines |-> Idle]
  /\ outcome = [m \in Machines |-> "none"]
  /\ current = [m \in Machines |-> NoBuild]
  /\ service = {}
  /\ identity = [m \in Machines |-> 0] /\ running = [m \in Machines |-> 0]
  /\ runs = [m \in Machines |-> 0]
-----------------------------------------------------------------------------
(* The control plane *)

OperatorIssues(t) ==
  /\ IssueToken(t)
  /\ UNCHANGED <<up, bundles, machine, runs>>

TimePasses(t) ==
  /\ TokenExpires(t)
  /\ UNCHANGED <<up, bundles, machine, runs>>

Publish ==
  /\ up
  /\ PublishEnds \/ \E b \in Builds : PublishBegins(b)
  /\ UNCHANGED <<up, store, enrollment, machine, runs, faults>>

Write(t) ==
  /\ WriteBegins(t) \/ WriteEnds(t) \/ WriteFails(t)
  /\ UNCHANGED <<up, enrollment, bundles, machine, runs>>

ControlPlaneDies ==
  /\ Fault
  /\ EnrollmentDies /\ BundlesDie
  /\ UNCHANGED <<machine, runs>>

ControlPlaneStarts ==
  /\ EnrollmentStarts
  /\ UNCHANGED <<bundles, machine, runs>>
-----------------------------------------------------------------------------
(* The bootstrap of machine m *)

\* What a step of it leaves alone, beside what it says.
Rest == UNCHANGED <<bundles, runs>>

At(m, step) == boot[m].step = step
Goes(m, step) == boot' = [boot EXCEPT ![m].step = step]
Ends(m, how) ==
  /\ boot' = [boot EXCEPT ![m] = Idle]
  /\ outcome' = [outcome EXCEPT ![m] = how]

\* bootstrap.mjs is run with a token that has been issued.
Begin(m, t) ==
  /\ At(m, "idle") /\ t \in issued /\ runs[m] < MaxRuns
  /\ runs' = [runs EXCEPT ![m] = @ + 1]
  /\ boot' = [boot EXCEPT ![m] = [Idle EXCEPT !.step = "manifest", !.token = t]]
  /\ UNCHANGED <<up, store, enrollment, bundles, outcome, current, service, identity,
                 running, faults>>

\* GET /bootstrap/manifest.
FetchManifest(m) ==
  /\ up /\ At(m, "manifest")
  /\ IF registered # NoBuild
     THEN /\ boot' = [boot EXCEPT ![m].step = "download", ![m].build = registered]
          /\ UNCHANGED outcome
     ELSE Ends(m, "failed")
  /\ Rest /\ UNCHANGED <<up, store, faults, enrollment, current, service, identity, running>>

\* Wrong on purpose: the digest of what has been downloaded is not compared.
MutDownload(m) ==
  /\ up /\ At(m, "download")
  /\ IF registered # NoBuild /\ file \in Builds /\ (NodesCheck => file \in Signed)
     THEN boot' = [boot EXCEPT ![m].step = "extract", ![m].build = file] /\ UNCHANGED outcome
     ELSE Ends(m, "failed")
  /\ Rest /\ UNCHANGED <<up, store, faults, enrollment, current, service, identity, running>>

\* downloadFile, then assertBundleTrusted.
Download(m) ==
  /\ up /\ At(m, "download")
  /\ IF Downloads(boot[m].build) /\ (NodesCheck => boot[m].build \in Signed)
     THEN Goes(m, "extract") /\ UNCHANGED outcome
     ELSE Ends(m, "failed")
  /\ Rest /\ UNCHANGED <<up, store, faults, enrollment, current, service, identity, running>>

\* extractBundle into the version's directory, then swapCurrent.
Extract(m) ==
  /\ At(m, "extract")
  /\ current' = [current EXCEPT ![m] = boot[m].build]
  /\ Goes(m, "service")
  /\ Rest /\ UNCHANGED <<up, store, faults, enrollment, outcome, service, identity, running>>

InstallService(m) ==
  /\ At(m, "service")
  /\ service' = service \cup {m}
  /\ Goes(m, "enroll")
  /\ Rest /\ UNCHANGED <<up, store, faults, enrollment, outcome, current, identity, running>>

\* Wrong on purpose: the credential kept is not the one minted.
MutEnroll(m) ==
  /\ up /\ At(m, "enroll")
  /\ \/ /\ Grants(boot[m].token, IdOf[m])
        /\ boot' = [boot EXCEPT ![m].step = "persist", ![m].cred = Len(mints') + 1]
        /\ UNCHANGED outcome
     \/ Refuses(boot[m].token, IdOf[m]) /\ Ends(m, "failed")
  /\ Rest /\ UNCHANGED <<up, current, service, identity, running>>

\* POST /api/enroll.
Enroll(m) ==
  /\ up /\ At(m, "enroll")
  /\ \/ /\ Grants(boot[m].token, IdOf[m])
        /\ boot' = [boot EXCEPT ![m].step = "persist", ![m].cred = Len(mints')]
        /\ UNCHANGED outcome
     \/ Refuses(boot[m].token, IdOf[m]) /\ Ends(m, "failed")
  /\ Rest /\ UNCHANGED <<up, current, service, identity, running>>

\* The control plane dies while it handles that request.
DiesInEnroll(m) ==
  /\ At(m, "enroll") /\ Fault
  /\ DiesEnrolling(boot[m].token, IdOf[m]) /\ BundlesDie
  /\ Ends(m, "failed")
  /\ UNCHANGED <<current, service, identity, running, runs>>

PersistIdentity(m) ==
  /\ At(m, "persist")
  /\ identity' = [identity EXCEPT ![m] = boot[m].cred]
  /\ Goes(m, "start")
  /\ Rest /\ UNCHANGED <<up, store, faults, enrollment, outcome, current, service, running>>

\* A supervisor can load the identity file, and its code is complete.
Startable(m) == identity[m] # 0 /\ current[m] \in Builds

\* startService: nothing happens to a service that runs already.
StartService(m) ==
  /\ At(m, "start")
  /\ running' = IF running[m] = 0 /\ Startable(m) THEN [running EXCEPT ![m] = identity[m]]
                                                   ELSE running
  /\ Ends(m, "onboarded")
  /\ Rest /\ UNCHANGED <<up, store, faults, enrollment, current, service, identity>>

\* The bootstrap fails or is killed; what it was writing is left half written.
BootstrapDies(m) ==
  /\ ~ At(m, "idle") /\ Fault
  /\ current' \in IF At(m, "extract") THEN {current, [current EXCEPT ![m] = TornBuild]}
                                      ELSE {current}
  /\ identity' \in IF At(m, "persist") THEN {identity, [identity EXCEPT ![m] = 0]}
                                       ELSE {identity}
  /\ Ends(m, "failed")
  /\ UNCHANGED <<up, store, enrollment, bundles, service, running, runs>>
-----------------------------------------------------------------------------
(* The supervisor of machine m: Restart=always *)

SupervisorStarts(m) ==
  /\ m \in service /\ running[m] = 0 /\ Startable(m)
  /\ running' = [running EXCEPT ![m] = identity[m]]
  /\ Rest /\ UNCHANGED <<up, store, faults, enrollment, boot, outcome, current, service, identity>>

SupervisorDies(m) ==
  /\ running[m] # 0 /\ Fault
  /\ running' = [running EXCEPT ![m] = 0]
  /\ UNCHANGED <<up, store, enrollment, bundles, boot, outcome, current, service, identity,
                 runs>>
-----------------------------------------------------------------------------
ControlPlaneStep ==
  \/ \E t \in Tokens : OperatorIssues(t) \/ TimePasses(t)
  \/ \E t \in Tables : Write(t)
  \/ Publish \/ ControlPlaneDies \/ ControlPlaneStarts

MachineStep(m) ==
  \/ \E t \in Tokens : Begin(m, t)
  \/ FetchManifest(m) \/ Download(m) \/ Extract(m) \/ InstallService(m)
  \/ Enroll(m) \/ DiesInEnroll(m) \/ PersistIdentity(m) \/ StartService(m)
  \/ BootstrapDies(m) \/ SupervisorStarts(m) \/ SupervisorDies(m)

Next == ControlPlaneStep \/ \E m \in Machines : MachineStep(m)

Spec == Init /\ [][Next]_vars
-----------------------------------------------------------------------------
(* Properties *)

Minted(t) == {i \in 1..Len(mints) : mints[i].token = t}
MintedFor(n) == {i \in 1..Len(mints) : mints[i].node = n}

\* A single-use token mints at most one credential in one life of the process,
\* whatever the store is.  Over all of them it does when the store is the database
\* and was given the use of the token: its write is best-effort, and when it failed
\* the token is unused again after a restart (rec.used and the write of it).
TokenEnrollsOnce ==
  \A t \in Tokens \ Reusable : \A i, j \in Minted(t) :
    i < j => /\ mints[i].life # mints[j].life
             /\ driver = "sqlite" => "enrollments" \notin mints[i].taken

\* What is in memory is what a durable store holds, or will hold when the writes
\* that wait have ended well, but for the rows whose last write or listing failed:
\* nothing repeats those (persist, remove and load).
MemoryIsWritten ==
  up /\ driver # "memory" =>
    /\ \A t \in Tokens : \/ <<"enrollments", t>> \in missed
                         \/ tokens[t] = RowToBe("enrollments", t)
    /\ \A n \in NodeIds : \/ <<"credentials", n>> \in missed
                          \/ creds[n] = RowToBe("credentials", n)

\* With the database, what the control plane goes by (its memory while it runs, the
\* tables while it does not) and what is in the tables are one ledger: they change
\* together but for rows whose write is a fault, and a death, at any point, and a
\* start put the tables in force again, or, by a fault, none (enroll, load).  With
\* another store the ledger is empty.
InForce(memory, t) ==
  IF driver # "sqlite" THEN NoRows[t] ELSE IF up THEN memory ELSE disk[t]
Kept(t) == IF driver # "sqlite" THEN NoRows[t] ELSE disk[t]
TokensInForce == InForce(tokens, "enrollments")
CredsInForce == InForce(creds, "credentials")
TokensKept == Kept("enrollments")
CredsKept == Kept("credentials")
MintsInForce == IF driver = "sqlite" THEN Len(mints) ELSE 0
IssuedInForce == IF driver = "sqlite" THEN issued ELSE {}
FaultsInForce == IF driver = "sqlite" THEN faults ELSE 0
Ledger == INSTANCE CredentialLedger WITH token <- TokensInForce, credential <- CredsInForce,
                                         keptTokens <- TokensKept, keptCredentials <- CredsKept,
                                         minted <- MintsInForce, issued <- IssuedInForce,
                                         faults <- FaultsInForce
LedgerSpec == Ledger!Spec

\* With the database, the credential on record for a node was minted for it, and no
\* later one was of which the database took the record, across crashes at any point;
\* unless the credentials could not be listed at the last start (enroll, load).
LastCredentialCounts ==
  up /\ driver = "sqlite" =>
    \A n \in NodeIds :
      /\ creds[n] \in MintedFor(n) \cup {0}
      /\ <<"credentials", n>> \notin missed =>
           \A i \in MintedFor(n) : "credentials" \in mints[i].taken => i <= creds[n]

\* The code a machine runs is complete or known to be half extracted, was registered
\* by an operator, and is signed where either side checks (publishBundle,
\* downloadToFile, assertBundleTrusted), although files are overwritten.
CodeIsPublished ==
  \A m \in Machines : current[m] \in Builds =>
    current[m] \in accepted /\ (PlaneChecks \/ NodesCheck => current[m] \in Signed)
=============================================================================
