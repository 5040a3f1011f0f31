---------------------------- MODULE WorkerManager ----------------------------
(***************************************************************************)
(* The supervisor's worker: its process, started, stopped, restarted after *)
(* a crash (control-plane-agent/worker-manager/lifecycle.mjs), and updated *)
(* behind a health gate with rollback (updater/apply-bundle.mjs).          *)
(*                                                                         *)
(* Commands are handled concurrently: each is a task that runs from one    *)
(* await to the next.  An awaited spawn does no I/O of its own and lets    *)
(* nothing else run; an awaited kill (taskkill on Windows), swap of the    *)
(* `current` link and poll of the health gate do.  The exit of a child is  *)
(* an event of its own, handled some time after the process has ended.     *)
(* The swap is one step, as rename is on Linux and Kubernetes: the moment  *)
(* without a link that it has on Windows is not modelled, nor is the end   *)
(* of the supervisor itself.  A bundle is extracted in place, over what    *)
(* versions/<version> holds already; a version counts as installed from    *)
(* the end of an extraction to the beginning of the next.  A worker        *)
(* version is installed to begin with.                                     *)
(* At most one update runs at a time, which is the doing of the control    *)
(* plane's process (UpdateLease); the two that a restart of it can bring   *)
(* together on a node (Fleet) are not modelled here.                       *)
(***************************************************************************)
EXTENDS Naturals, FiniteSets

CONSTANTS Procs,       \* bound: worker processes that exist at a time
          Versions,    \* worker versions
          Initial,     \* the one installed by the bootstrap
          MaxJobs,     \* bound: jobs in hand at a time
          MaxCrashes, MaxUpdates, MaxRestarts  \* bounds: how often each happens

ASSUME WorkerAssumption ==
  /\ Procs # {}
  /\ Initial \in Versions
  /\ "none" \notin Procs \cup Versions
  /\ MaxJobs \in Nat
  /\ MaxCrashes \in Nat /\ MaxUpdates \in Nat /\ MaxRestarts \in Nat

Phases == {"idle", "fetch", "extract", "stopping", "swap", "swapped", "gate",
           "undo_stopping", "undo_swap", "undo_swapped"}

VARIABLES
  proc,      \* proc[p]: none, alive, or dead until its exit event is handled
  code,      \* code[p]: the version that process p was started from
  booted,    \* processes that have written their ready line
  busy,      \* processes that have a job
  handle,    \* state.handle, and with it state.stdin and state.rl
  running, ready, stopping, draining,  \* the flags of the same names
  version,   \* state.version
  timers,    \* pending crash restarts
  link,      \* the version that `current` points to
  installed, \* versions whose directory holds one bundle, verified and complete
  overwritten, \* those that `current` pointed to when an update to the very same
             \* version began to extract, until an extraction has ended
  update,    \* where the update task stands
  target, previous,  \* its version, and the one it found installed
  outcome,   \* what the last update reported
  stranded,  \* no worker has been started since an update failed to swap the link
  restarting, \* how many restart_worker tasks await their kill
  crashes, updates, restarts  \* how many so far

processes == <<proc, code, booted, busy>>
flags == <<handle, running, ready, stopping, version, stranded>>
task == <<update, target, previous, outcome>>
disk == <<link, installed, overwritten>>
counters == <<crashes, updates, restarts>>
vars == <<processes, flags, draining, timers, task, disk, restarting, counters>>

TypeOK ==
  /\ proc \in [Procs -> {"none", "alive", "dead"}]
  /\ code \in [Procs -> Versions]
  /\ booted \subseteq Procs /\ busy \subseteq Procs
  /\ handle \in Procs \cup {"none"}
  /\ running \in BOOLEAN /\ ready \in BOOLEAN
  /\ stopping \in BOOLEAN /\ draining \in BOOLEAN /\ stranded \in BOOLEAN
  /\ version \in Versions
  /\ timers \in Nat
  /\ link \in Versions /\ installed \subseteq Versions /\ overwritten \subseteq Versions
  /\ update \in Phases
  /\ target \in Versions /\ previous \in Versions
  /\ outcome \in {"none", "succeeded", "failed", "swap_failed"}
  /\ restarting \in 0..MaxRestarts
  /\ crashes \in 0..MaxCrashes /\ updates \in 0..MaxUpdates /\ restarts \in 0..MaxRestarts

\* The supervisor has come up: ensureRunning has started the worker.
Init ==
  /\ handle = CHOOSE p \in Procs : TRUE
  /\ proc = [p \in Procs |-> IF p = handle THEN "alive" ELSE "none"]
  /\ code = [p \in Procs |-> Initial]
  /\ booted = {} /\ busy = {}
  /\ running = TRUE /\ ready = FALSE /\ stopping = FALSE /\ draining = FALSE
  /\ version = Initial
  /\ timers = 0
  /\ link = Initial /\ installed = {Initial} /\ overwritten = {}
  /\ update = "idle" /\ target = Initial /\ previous = Initial /\ outcome = "none"
  /\ stranded = FALSE
  /\ restarting = 0
  /\ crashes = 0 /\ updates = 0 /\ restarts = 0
-----------------------------------------------------------------------------
(* start and stop *)

\* startProcess of the code that `current` points to, and attachIpc.  (Which
\* free name the process gets does not matter.)
Spawn ==
  /\ \E p \in Procs : proc[p] = "none"
  /\ handle' = CHOOSE p \in Procs : proc[p] = "none"
  /\ proc' = [proc EXCEPT ![handle'] = "alive"]
  /\ code' = [code EXCEPT ![handle'] = link]
  /\ running' = TRUE /\ ready' = FALSE
  /\ stranded' = FALSE
  /\ UNCHANGED <<booted, busy>>

\* Wrong on purpose: the flag of the stop before stays up.
MutStart(v, up) ==
  /\ version' = v
  /\ \/ up /\ UNCHANGED <<processes, handle, running, ready, stopping, stranded>>
     \/ ~up /\ UNCHANGED stopping /\ Spawn

\* start(v), with `up` for state.running: nothing happens if that is TRUE,
\* but every caller has set state.version to v already.
start(v, up) ==
  /\ version' = v
  /\ \/ up /\ UNCHANGED <<processes, handle, running, ready, stopping, stranded>>
     \/ ~up /\ stopping' = FALSE /\ Spawn

\* stop up to its await: the process that state.handle names is killed.
StopBegins ==
  /\ running
  /\ stopping' = TRUE
  /\ proc' = [proc EXCEPT ![handle] = "dead"]
  /\ busy' = busy \ {handle}
  /\ UNCHANGED <<code, booted, handle, running, ready, version, stranded>>

\* The rest of stop: the state is cleared, whoever is there by now.
StopEnds ==
  /\ handle' = "none" /\ running' = FALSE /\ ready' = FALSE
  /\ UNCHANGED <<processes, stopping, version, stranded>>

\* Wrong on purpose: the readiness of the process outlives it.
MutOnExit(p) ==
  /\ proc[p] = "dead"
  /\ proc' = [proc EXCEPT ![p] = "none"]
  /\ code' = [code EXCEPT ![p] = Initial]
  /\ booted' = booted \ {p}
  /\ handle' = "none" /\ running' = FALSE
  /\ timers' = IF stopping THEN timers ELSE timers + 1
  /\ UNCHANGED <<busy, ready, stopping, version, stranded, draining, task, disk,
                 restarting, counters>>

\* The exit event of process p, be it the current one or not.  (Nothing is
\* left of p: its name is free for another process.)
onExit(p) ==
  /\ proc[p] = "dead"
  /\ proc' = [proc EXCEPT ![p] = "none"]
  /\ code' = [code EXCEPT ![p] = Initial]
  /\ booted' = booted \ {p}
  /\ handle' = "none" /\ running' = FALSE /\ ready' = FALSE
  /\ timers' = IF stopping THEN timers ELSE timers + 1
  /\ UNCHANGED <<busy, stopping, version, stranded, draining, task, disk,
                 restarting, counters>>

\* workerRestartBackoffMs after a crash.
RestartTimer ==
  /\ timers > 0
  /\ timers' = timers - 1
  /\ start(version, running)
  /\ UNCHANGED <<draining, task, disk, restarting, counters>>
-----------------------------------------------------------------------------
(* The worker process *)

\* Its ready line, which may never come (or come when it is dead), is read if
\* the process is the one that is listened to.
ReadyLine(p) ==
  /\ proc[p] # "none"
  /\ p \notin booted
  /\ booted' = booted \cup {p}
  /\ ready' = (ready \/ p = handle)
  /\ UNCHANGED <<proc, code, busy, handle, running, stopping, version, stranded,
                 draining, timers, task, disk, restarting, counters>>

\* dispatch_job: runJob accepts a job and writes it to the worker's stdin.
runJob ==
  /\ Cardinality(busy) < MaxJobs
  /\ running /\ handle # "none" /\ ~draining
  /\ busy' = IF proc[handle] = "alive" THEN busy \cup {handle} ELSE busy
  /\ UNCHANGED <<proc, code, booted, flags, draining, timers, task, disk, restarting,
                 counters>>

JobEnds(p) ==
  /\ p \in busy
  /\ busy' = busy \ {p}
  /\ UNCHANGED <<proc, code, booted, flags, draining, timers, task, disk, restarting,
                 counters>>

Crash(p) ==
  /\ crashes < MaxCrashes
  /\ proc[p] = "alive"
  /\ crashes' = crashes + 1
  /\ proc' = [proc EXCEPT ![p] = "dead"]
  /\ busy' = busy \ {p}
  /\ UNCHANGED <<code, booted, flags, draining, timers, task, disk, restarting,
                 updates, restarts>>
-----------------------------------------------------------------------------
(* drain, undrain and restart_worker *)

setDraining(v) ==
  /\ draining' = v
  /\ UNCHANGED <<processes, flags, timers, task, disk, restarting, counters>>

RestartBegins ==
  /\ restarts < MaxRestarts
  /\ restarts' = restarts + 1
  /\ \/ StopBegins /\ restarting' = restarting + 1
     \/ ~running /\ start(version, FALSE) /\ UNCHANGED restarting
  /\ UNCHANGED <<draining, timers, task, disk, crashes, updates>>

\* The kill is done: what is left of stop, and start, without an await on I/O.
RestartEnds ==
  /\ restarting > 0
  /\ restarting' = restarting - 1
  /\ start(version, FALSE)
  /\ UNCHANGED <<draining, timers, task, disk, counters>>
-----------------------------------------------------------------------------
(* update_agent: applyBundle and rollbackTo *)

UpdateBegins(v) ==
  /\ update = "idle"
  /\ updates < MaxUpdates
  /\ updates' = updates + 1
  /\ update' = "fetch"
  /\ target' = v /\ previous' = link
  /\ UNCHANGED <<processes, flags, draining, timers, disk, outcome, restarting,
                 crashes, restarts>>

\* The download fails, or the digest or the signature does not match: nothing is
\* touched.
FetchFails ==
  /\ update = "fetch"
  /\ update' = "idle" /\ outcome' = "failed"
  /\ UNCHANGED <<processes, flags, draining, timers, disk, target, previous, restarting,
                 counters>>

\* extractBundle begins to write over versions/<version>, be it the current one.
Fetched ==
  /\ update = "fetch"
  /\ update' = "extract"
  /\ installed' = installed \ {target}
  /\ overwritten' = IF link = target THEN overwritten \cup {target} ELSE overwritten
  /\ UNCHANGED <<processes, flags, draining, timers, link, target, previous, outcome,
                 restarting, counters>>

\* Wrong on purpose: the update goes on although the extraction failed.
MutExtractFails ==
  /\ update = "extract"
  /\ update' = "swap"
  /\ UNCHANGED <<processes, flags, draining, timers, disk, target, previous, outcome,
                 restarting, counters>>

\* Half way: the worker is not touched, but its files are if they were the target.
ExtractFails ==
  /\ update = "extract"
  /\ update' = "idle" /\ outcome' = "failed"
  /\ UNCHANGED <<processes, flags, draining, timers, disk, target, previous, restarting,
                 counters>>

\* setDraining(true) and stop, which returns at once if no worker is running.
DrainAndStop(awaiting, after) ==
  /\ draining' = TRUE
  /\ \/ StopBegins /\ update' = awaiting
     \/ ~running /\ update' = after /\ UNCHANGED <<processes, flags>>

\* The bundle is extracted, the VERSION marker written.
Extracted ==
  /\ update = "extract"
  /\ installed' = installed \cup {target}
  /\ overwritten' = overwritten \ {target}
  /\ DrainAndStop("stopping", "swap")
  /\ UNCHANGED <<timers, link, target, previous, outcome, restarting, counters>>

\* Wrong on purpose: stop forgets the version, as it does the process.
MutStopped ==
  /\ \/ update = "stopping" /\ update' = "swap"
     \/ update = "undo_stopping" /\ update' = "undo_swap"
  /\ handle' = "none" /\ running' = FALSE /\ ready' = FALSE /\ version' = "none"
  /\ UNCHANGED <<processes, stopping, stranded, draining, timers, disk, target, previous,
                 outcome, restarting, counters>>

Stopped ==
  /\ \/ update = "stopping" /\ update' = "swap"
     \/ update = "undo_stopping" /\ update' = "undo_swap"
  /\ StopEnds
  /\ UNCHANGED <<draining, timers, disk, target, previous, outcome, restarting, counters>>

\* Wrong on purpose: the rollback goes back to the version it came from.
MutSwapCurrent ==
  /\ \/ update = "swap" /\ update' = "swapped"
     \/ update = "undo_swap" /\ update' = "undo_swapped"
  /\ link' = target
  /\ UNCHANGED <<processes, flags, draining, timers, installed, overwritten, target, previous,
                 outcome, restarting, counters>>

\* swapCurrent, at the update's version or at the one to go back to.
swapCurrent ==
  /\ \/ update = "swap" /\ update' = "swapped" /\ link' = target
     \/ update = "undo_swap" /\ update' = "undo_swapped" /\ link' = previous
  /\ UNCHANGED <<processes, flags, draining, timers, installed, overwritten, target, previous,
                 outcome, restarting, counters>>

\* It throws: the command is reported failed and the rest is not done.
SwapFails ==
  /\ update \in {"swap", "undo_swap"}
  /\ update' = "idle" /\ outcome' = "swap_failed"
  /\ stranded' = ~running
  /\ UNCHANGED <<processes, handle, running, ready, stopping, version, draining, timers,
                 disk, target, previous, restarting, counters>>

\* The swap has returned: setVersion, start, setDraining(false).
Swapped ==
  /\ \/ /\ update = "swapped" /\ update' = "gate"
        /\ start(target, running)
        /\ UNCHANGED outcome
     \/ /\ update = "undo_swapped" /\ update' = "idle"
        /\ start(previous, running)
        /\ outcome' = "failed"
  /\ draining' = FALSE
  /\ UNCHANGED <<timers, disk, target, previous, restarting, counters>>

\* waitForHealthy finds the worker ready ...
GatePasses ==
  /\ update = "gate"
  /\ ready
  /\ update' = "idle" /\ outcome' = "succeeded"
  /\ UNCHANGED <<processes, flags, draining, timers, disk, target, previous, restarting,
                 counters>>

\* ... or its time is up (the worker may be ready since the last poll), and
\* the update is rolled back.
GateFails ==
  /\ update = "gate"
  /\ DrainAndStop("undo_stopping", "undo_swap")
  /\ UNCHANGED <<timers, disk, target, previous, outcome, restarting, counters>>

Internal ==
  \/ \E p \in Procs : onExit(p)
  \/ RestartTimer \/ RestartEnds
  \/ FetchFails \/ Fetched \/ ExtractFails \/ Extracted \/ Stopped \/ swapCurrent \/ SwapFails \/ Swapped
  \/ GatePasses \/ GateFails

Next ==
  \/ Internal
  \/ \E p \in Procs : ReadyLine(p) \/ JobEnds(p) \/ Crash(p)
  \/ runJob
  \/ \E v \in BOOLEAN : setDraining(v)
  \/ RestartBegins
  \/ \E v \in Versions : UpdateBegins(v)

\* Every event that has happened is handled and every await returns.
Fairness ==
  /\ \A p \in Procs : WF_vars(onExit(p))
  /\ WF_vars(RestartTimer)
  /\ WF_vars(RestartEnds)
  /\ WF_vars(Fetched \/ FetchFails)
  /\ WF_vars(Extracted \/ ExtractFails)
  /\ WF_vars(Stopped)
  /\ WF_vars(swapCurrent)
  /\ WF_vars(Swapped)
  /\ WF_vars(GatePasses \/ GateFails)

Spec == Init /\ [][Next]_vars /\ Fairness
-----------------------------------------------------------------------------
(* Properties *)

\* The readiness that the health gate reads is that of the worker the manager
\* holds: it was reported by that very process, and it ends with it.
ReadyIsHeld == ready => running /\ handle \in booted

\* If no worker is running then something is under way that starts one: no
\* crash, stop, restart or update, in whatever order they overlap, leaves the
\* node without a worker.  (An update whose swap of the link fails does.)
OutageIsPassing ==
  \/ running
  \/ timers > 0
  \/ restarting > 0
  \/ update \in Phases \ {"idle", "fetch", "extract", "gate"}
  \/ stranded

\* ... and one is running again.
WorkerComesBack == ~running ~> (running \/ stranded)

\* `current` never points to a version that has not been verified and extracted
\* completely, in the middle of an update or a rollback either, with one exception:
\* an update to the very version that is current extracts over the code that runs,
\* and if that fails half way `current` (and a later rollback) has what it left.
LinkIsInstalled == link \in installed \cup overwritten

\* An update that is reported failed has left `current` as it found it.
FailedUpdateIsUndone == update = "idle" /\ outcome = "failed" => link = previous

\* Whatever crashes, restarts and gate timeouts overlap with it, an update is a
\* transaction on the link (UpdateTask): it ends where it says it has ended, installs
\* only what is verified and complete, and extracts nothing once it has installed.
Updating == update # "idle"
Task == INSTANCE UpdateTask WITH open <- Updating, from <- previous, to <- target,
                                 current <- link, verified <- installed
UpdateSpec == Task!Spec

\* What health.mjs says of the gate: the worker it finds healthy is one of the
\* new version.
GateJudgesNewWorker == update = "gate" /\ ready => code[handle] = target
=============================================================================
