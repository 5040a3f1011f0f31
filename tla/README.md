# A formal model of WebInspector

WebInspector tests URLs from a fleet of nodes on different network arms and
compares what they see.  A *control plane* (one Node.js process) accepts runs of
URLs, picks nodes, dispatches jobs, gathers results and classifies each URL.  On
every node a *supervisor* (the "ControlPlane Agent") holds one control channel to
the control plane and manages a *worker* process that does the testing.  The
supervisor also installs new worker versions that the control plane rolls out.

This directory holds TLA+ modules for the parts of that system in which order,
failure and concurrency matter, the TLC configurations that check them on small
instances, and TLAPS proofs of what holds for every instance.  Everything is
translated from the code under `src/`; `PROJECT.json` maps each definition to the
lines it stands for, lists what each run checks, and lists the hazards.

## Inventory

| Component | State it keeps | Operations | What makes it correct |
|---|---|---|---|
| Run orchestrator (`control-plane/scheduler/run-orchestrator.mjs`) | runs, URL records, jobs, results per URL, comparisons, all in memory | `createRun`, `queueUrl`, `onResult`; microtasks that send jobs and write packets | gates between the stages, one verdict per URL that matches its evidence, run status |
| Node selection (`scheduler/node-selection.mjs`) | none (reads the registry) | `selectForUrl` | quorum and required types |
| Comparison (`comparison/classify.mjs`) | none | `armStatus`, `combineGsa`, `classify` | no verdict without the evidence for it |
| Site packet, final report (`reporting/`) | stored manifests | `generate`, render | the packet is the final evidence |
| Control channel, server (`server/channel.mjs`) | WebSockets, long-poll entries with queue and held request | upgrade, frame, close, push, poll, timeout, sweep | a live session for a connected node, commands at most once |
| Control channel, client (`control-plane-agent/core/connection.mjs`) | transport mode, socket, outbox, flush and poll loops | connect, send, flush, poll, fail over | no message lost while buffered, order, eventual delivery |
| Registry (`control/registry.mjs`) | node records, one session per node | attach, detach, send, hello, heartbeat | sessions and statuses match reality |
| Dispatcher (`control/dispatcher.mjs`) | in-flight commands per node | `send`, `onCommandResult` | an in-flight entry ends |
| Reconciler, update manager (`control/reconciler.mjs`, `update-manager.mjs`) | desired versions, rollout state | tick, `pickRolloutBatch`, `recordOutcome` | canary first, halt on failure, progress |
| Reboot manager (`control/reboot-manager.mjs`) | pending reboots with timers | `reboot`, `onReconnect`, grace timer | a node that came back is not set offline |
| Enrollment, store (`control/enrollment.mjs`, `state/`) | tokens, credentials, tables on disk | issue, enroll, verify, load; put, delete, query | single use, identity survives a restart |
| Data plane, bundles (`server/data-plane.mjs`, `control/bundle-registry.mjs`, `data/blob-store.mjs`) | files, registered digests | publish, stream, ingest, serve | bundles are immutable, ids are digests |
| Worker manager (`control-plane-agent/worker-manager/`) | handle, running, ready, stopping, draining, version | start, stop, exit, restart timer, run job, health gate | a worker always comes back, the gate judges the right one |
| Updater (`control-plane-agent/updater/`) | `versions/<v>`, the `current` link | `applyBundle`, `rollbackTo` | only complete versions are run, a failed update is undone |
| Command router (`control-plane-agent/commands/`) | statuses by commandId | `handle` | commands take effect once and are answered |
| Worker agent (`agent/`) | none between jobs | job loop, probe, browser validation, upload | one answer per job |
| Heartbeat, registration (`control-plane-agent/core/`) | interval, drain flag, versions | hello, heartbeat, node info | the registry comes to agree with the node |
| Bootstrap (`bootstrap/bootstrap.mjs`) | files of the machine, service | download, verify, enroll, install, start | only published code runs, a token is used once |
| HTTP API, portal, rate limiter, metrics, deploy, contracts | little or none | routes, scripts | plumbing |

How they interact: the API calls the orchestrator; the orchestrator calls the
dispatcher in microtasks, which calls the registry, which calls the session that
the channel attached; frames from a node go through `handleInbound` to the
registry, the dispatcher, the orchestrator and the reboot manager; the reconciler
ticks every five seconds over the connected nodes.  In the supervisor the channel
calls the router, which calls the worker manager and the updater, and the worker's
stdout goes back up the channel.  Both processes are single-threaded event loops:
all concurrency is between events, between the parts of a handler that an `await`
separates, and between processes.

The behaviours that make this hard: answers in any order, repeated or never;
sends that fail after the handler that caused them has ended; two ends of a
connection that notice its end at different times; two transports with one session
slot per node; requests whose answers are lost; a child's exit event that is
handled after its successor was started; timers that fire in the middle of an
update.  `PROJECT.json` lists these as hazards, each at its line, with the
properties that would catch it going wrong.

## Modules

| Module | Models | EXTENDS / INSTANCE |
|---|---|---|
| `Classify` | `classify.mjs` as pure operators | |
| `NodeSelection` | `selectForUrl`, the selection policy as CONSTANTS | `Classify` |
| `UrlFlow` | what the pipeline promises per URL: a fork and join in one or two stages | |
| `RunOrchestrator` | the orchestrator, its microtasks, agents and sessions as its environment | `NodeSelection`, `UrlFlow` (refinement) |
| `Report` | the final report of a run, as a view of the orchestrator's state | `RunOrchestrator` |
| `CommandBox` | what the channel promises for commands: each is handed over once or lost | |
| `ControlChannel` | both ends of the channel of one node | `CommandBox` (refinement) |
| `UpdateTask` | what an update promises about the link to the installed version | |
| `WorkerManager` | worker process, supervisor's worker manager, worker updates | `UpdateTask` (refinement) |
| `UpdateLease` | what dispatcher, reconciler and rollout promise about updates: each is granted once, alone on its node | |
| `Fleet` | registry, dispatcher, reconciler, update manager, reboot manager and the supervisors they drive | `UpdateLease` (refinement) |
| `StateStore` | tables, adapters, queued, torn and failed writes | |
| `Enrollment` | tokens and credentials, written through to the store | `StateStore` |
| `Bundles` | publication and streaming of a bundle | |
| `CredentialLedger` | what enrollment promises when the store is a database | |
| `Onboarding` | the bootstrap of a machine against both, with the supervisor it installs | `Enrollment`, `Bundles`, `CredentialLedger` (refinement) |
| `Probe`, `BrowserValidation` | what a probe and a validation make of what they met, as pure operators | |
| `Evidence` | worker, uploads, blob store, summary and packet of one URL | `Probe`, `BrowserValidation` |
| `NodeSelectionProofs`, `RunOrchestratorProofs`, `ReportProofs`, `ControlChannelProofs`, `WorkerManagerProofs`, `FleetProofs`, `OnboardingProofs`, `EvidenceProofs` | theorems | the module of that name, `TLAPS`; `ReportProofs` also `RunOrchestratorProofs` |
| `MC*` | instances for TLC | |

Definitions named `Mut...` are slips a programmer could make (a dropped guard, a
missing reset, a swapped order).  Each stands before the definition it could
replace; with it in place some property listed in `PROJECT.json` fails, which
shows that the property depends on that piece of code.

### RunOrchestrator

State: `run` (status per run), `runOf`, `status`, `selected`, `classification`
(the URL record), `results` (`resultsByUrl`; only ok or not ok), `sendq` (jobs
whose send waits in the microtask queue), `packetq` and `packet` (packets to write
and written), `live` (nodes with a session), `delivered` and `answers` (the
environment: jobs that reached an agent, answers that were given).

Each API request and each `result` message is one step; the microtasks it leaves
(`SendJob`, `SendFails`, `GeneratePacket`) are steps of their own in any order, and
the next event waits for them (`Drained`), as in Node.js.  `recordResult` is the
whole of `recordResult`, `advance` and `finalize`, so that a failed send inside
the microtask queue can open the second stage or end the URL, as in the code.
Answers are kept for ever: delivering one again models repetition, never
delivering it models loss.

A result's `ok` is yes or no.  The code's third value, `null` (the worker failed
before it had a result), needs a job without a URL or with an unknown stage, which
the orchestrator does not send.  Statuses `failed` and `queued` are in the tables
of `lifecycle.mjs` but are never assigned.  `eligible` filters by node status and
versions: which connected nodes pass is a free choice (`eligible \in SUBSET live`).
Persistence and events are not modelled: they are written behind and never read
back by the orchestrator.

Of what `lifecycle.mjs:3-5` says ("A URL is never "complete" until all required
selected-node results exist, comparison is done, and the evidence packet is
generated") `CompletionGate` is the first part, which the code keeps, and
`CompletedHasPacket` the last, which it does not: the run `completed_has_packet`
shows a URL that was completed and whose packet could not be generated.  What is
said of packets that do exist is `PacketIsFinalEvidence`.

Three more behaviours of the code are in the model and no property forbids them.  A
rejected URL that is added to a settled run leaves the run `running` (nothing calls
`maybeCompleteRun` for it).  A job that was delivered and is never answered keeps its
URL open: there is no timeout and no retry, although `control-plane/config.mjs:57`
has a `jobLeaseMaxAttempts`, which nothing reads.  A URL for which no node is
selected (a policy that requires no type, or quorums of 0, with none connected) has
no answer to wait for, and since only answers call `advance` it stays open for ever;
`AnsweredUrlsSettle` does not see it, for the policy of its instance, which is that of
`config.mjs`, requires a node.

### Report

No state of its own: `effectiveFor`, the columns, `primaryArm`, the evidence rows
and the summary as operators on the orchestrator's state, which a request reads at
any moment of the run.  The report computes arm statuses from the results again
while the verdict comes from the comparison, so that the two have to meet
(`BlameHasEvidence`).  Formatting and counts of the renderers are left out.

### ControlChannel

State: the supervisor's `mode`, `failures`, `outbox`, its push and poll requests;
the two ends (`client`, `server`) and what is in flight (`up`, `down`) of each
connection; the control plane's long-poll entry (`lp`, `queue`, `waiter`) and the
`session` the registry holds.  Messages are numbers, 0 is the greeting (`hello` up,
`hello_ack` down).  `received` counts, for each command, how often the router was
given it; `handled` and `pushed` record what arrived at the control plane.

The ends of a connection close independently, and what is in flight to a closed
end is lost.  A push is sent, then at the control plane with its body being read,
then handled, and it can fail at each stage; the same for a poll and its answer.  A
push that was given up may go on without anybody waiting for it (`stray`): it
arrives, or is read, after the repetition of its message and those that follow, and
`MaxStray` bounds how many are on their way at once.  An abandoned
poll leaves a dead waiter at the control plane, which swallows the next command,
as the code does.  Timers may fire whenever their conditions hold.  Left out:
authentication, the 401 answers, `close()`, malformed frames, and a transport that
is configured instead of `auto`.

Commands are delivered at most once, but not in order: what is left in the queue of
a long-poll session that was given up for a WebSocket waits for the next long-poll,
after commands that were sent later.  No document promises an order, and no
property states one.  Of messages up, `PushKeepsOrder` says that those of one
process of the supervisor are learnt in order over long-polling: a late push brings
only what the control plane was given before, or a message of a process that is gone
(what `born` is for: messages up to it were sent by an earlier one).

### WorkerManager

State: processes with the version they were started from (`proc`, `code`,
`booted`, `busy`), the fields of the worker manager's `state` (`handle`, `running`,
`ready`, `stopping`, `draining`, `version`), pending restart `timers`, the disk
(`link`, `installed`: versions that are completely extracted, `overwritten`: versions
that were written over while they were current, and not completely since), the update
task (`update`, `target`, `previous`, `outcome`)
and restart commands that await their kill.  `stranded` records that an update
failed to swap the link and left no worker.

Tasks are split where the code awaits I/O: `stop` into `StopBegins` and
`StopEnds`, `applyBundle` and `rollbackTo` into the phases in `Phases`.  The
extraction writes into `versions/<version>` in place, which may be the current one:
an update to the installed version is sent again when the supervisor has reported an
older one (it reads its versions once, at its start).  One that fails half way leaves
that directory damaged, which `LinkIsInstalled` names; the updater itself never moves
the link to such a directory.  A dead
process keeps its entry until `onExit` has handled its event, which may be after
the next worker has been started: `onExit` does not look at whose exit it is, and
neither does the model.  A worker version is taken to be installed at the start
(the code cannot roll back, or start anything, before there is one).

### Fleet

State: the registry (`linked`, `status`, `named`, `known`), the desired bundles
(`published`), the rollout (`slots`), the dispatcher's updates (`inFlight`), the
reboot manager (`pending`, and `timers`: all that run for a node, those its map has
lost included);
per node what is `installed`, what the supervisor was `booted` from, whether it is
`draining` or `goingDown`; and what is under way: commands (`down`), updates
(`sent`), the stages of the updates a node works on (`applying`, `swapping`,
`gating`, `undoing`), which of those found an older version (`older`), and results
(`reports`).

One tick of the reconciler is one action, since it has no `await`: it goes over the
connected nodes and components in the code's order, and a send that throws for want
of a session ends the tick, as in the code.  The in-flight entry is made before the
send, which may fail, and the entry then stays.  A record without a `nodeName` (a
heartbeat that came before the hello) has the key `undefined`, which all such nodes
share.  `recordOutcome`, `clearHalt` and `sweepStaleHeartbeats` are not
actions because nothing in the program calls them: the slots of a rollout are never
freed, which the run `rollout_reaches_all` shows.  A restart of the control plane
forgets the registry, the rollout, the dispatcher and the timers.

Abstracted: a version is whether it is the desired one; of the
phases of a worker's update (`WorkerManager` has them all) those between which the
supervisor's death leaves something else installed; a link is one session (its
transports are in `ControlChannel`); time.

A supervisor may die at any stage.  What it leaves is `Interrupted`: an update
before its swap has moved nothing or its link, one in the health gate has its
version installed for good although nothing ever judged it, one on its way back
either.  The update is then never answered, and the dispatcher's entry for it
stays.  No code resumes or undoes it at the next start, and no document says so.

Bounds on updates are per process of the control plane, as the code's are: after a
restart a second update may be granted while the first is still being applied.
`FleetSettles` asks that every node ends up connected with a status that is so,
whatever that status is; it says nothing of what an operator wanted (see below).

### StateStore, Enrollment, Bundles, Onboarding

`StateStore` has the three adapters behind `put`, `delete`, `init` and `query`: a
database written before the call returns, a JSON file per table behind a queue of
writes, and memory.  `writeFile` truncates first: a table under way is `torn`, and
after a crash that leaves it so the control plane cannot parse it and does not start.  `Enrollment` keeps
tokens and credentials in memory and writes each through; a start of the control
plane loads them.  `Bundles` writes the file of a publication before `register`
refuses a second one, and streams whatever the file holds.  Writes to the store are
best-effort in the code, with errors swallowed.  In the model a write of the database
may fail, one table's or both, and so may the listing of a table when the control
plane starts, which then counts as empty; a write of a file may fail before or after
the truncation.  `missed` records the rows for which that made memory and store
differ, until they are written again: nothing in the code repeats them.  `Onboarding` is
`bootstrap.mjs` with a step per `await`, on machines whose systemd service starts
and restarts the supervisor.

Every process may crash between any two steps, and the control plane between the
truncation and the end of a write.  Cryptography is abstract: a digest or a
signature is the build it is of.  Left out: mTLS pinning, revocation (no route
calls it), events, paging; of the rate limiter only that it refuses.  A machine that
is onboarded again keeps running with its old credential until its supervisor ends,
since starting a running service does nothing; the model has it so.

### Probe, BrowserValidation, Evidence

`Probe` and `BrowserValidation` name failures: `reasonFromError`, `layeredReason`,
`detectChallenge`, `mapNetworkError`, `classifyOutcome`, `shouldKeepHar`.  Texts
that a regular expression tells apart are one member each.  `Evidence` is the
path of one URL: probes layer by layer with redirects, the browser with its
screenshot and HAR, the uploads with the two writes of a blob, the answer, the
supervisor's summary of it, and the packet.  A blob is two files, the bytes and then
their description, and each is open while some upload writes it, also when it had
been whole, whole, or cut when the control plane crashed in between.  The HAR of
every validation is on the worker's disk when the browser's context is closed, and is
then kept or removed.  A host's name is what the probe's expressions find in it.  Left out: the metadata of the local network, Playwright's
details, and the loss and order of answers, which
`RunOrchestrator` has.

`summarizeResult` in the supervisor drops the references of the uploads
(`summarizeResult` in the model returns none, as in the code).  A consequence is
that today only packets without any validation are complete; `NoFalseComplete` is
proved without using it, so that it also speaks of a summary that forwards them.

## Runs

Each configuration finishes within about three minutes on two cores.

| Run | Instance | What it shows |
|---|---|---|
| `orchestrator` | 2 nodes (1 required, 1 GSA), 1 run, 2 URLs; 197,167 states | the gates, `JobSentOnce`, verdicts and packets match the evidence, `HealthyIsEarned`, `VerdictHasQuorum`, run status, `BlameHasEvidence` of the report, refinement of `UrlFlow`, and `AnsweredUrlsSettle` given that answers keep catching up |
| `channel` | 2 connections, failover after 2, outbox 1 (for the greeting), 3 commands, 1 stray push, 2 restarts; 802,654 states with symmetry | sessions, held polls, refinement of `CommandBox` (`BoxSpec`) |
| `channel_pushes` | 1 connection, failover after 1, outbox 2, 2 messages up, 1 stray push, no restart; 62,214 states | `PushLosesNothing`, `PushKeepsOrder`, `Delivered` |
| `worker` | 4 processes, 2 versions, one crash, restart and update each, one job; 160,604 states | `ReadyIsHeld`, `OutageIsPassing`, `LinkIsInstalled`, `WorkerComesBack`, refinement of `UpdateTask` (`UpdateSpec`) |
| `fleet` | 2 nodes (one needs both components, one the supervisor), canary 1, 1 in flight, updates may fail, 1 fault, 1 command under way; 1,605,560 states | `RolloutIsBounded`, refinement of `UpdateLease` (`LeaseSpec`) |
| `fleet_live` | 1 node that needs a worker update, 1 fault, 2 operator commands; 106,706 states | `FleetSettles` |
| `onboarding` | 1 machine, 2 tokens, 2 builds (1 signed), localjson with 1 fault and sqlite with 2, 2 runs; 731,595 states with symmetry | `TokenEnrollsOnce`, `MemoryIsWritten`, `CodeIsPublished`, refinement of `CredentialLedger` (`LedgerSpec`) |
| `evidence` | 2 nodes, 2 screenshots, 4 pages, 2 host names, 1 redirect, 2 faults; 1,577,870 states with symmetry | `BlameIsReached`, `HarOnlyOfFailures`, `RefIsServed`, `NoFalseComplete` |
| `reconnected_node_has_session` | violated | the close of an old connection takes the new one's session |
| `gate_judges_new_worker` | violated | a crash restart in the swap makes the gate judge the old code |
| `rollout_reaches_all` | violated | a rollout stops after its first slots though nothing failed |
| `completed_has_packet` | violated | a URL stays completed although its packet could not be generated |

Why these bounds are enough.  Orchestrator: every property is about one URL, or
about the URLs of one run; two URLs and two nodes give all orders of the answers of
a stage, with blocked, completed and running URLs side by side.  A second of two
GSA nodes that disagrees, more runs and every policy are covered by the proofs.
Channel: two connections are what overlap takes (a third is possible only when one
of them is gone, and its name is then reused), and three commands can be in the
queue, in an answer and on a connection at once; two messages up are what a lost,
repeated or reordered one takes, an outbox of two is full with a greeting and one of
them, and one stray push can come after its repetition and its successor.  Commands
and pushes are apart because their product is too large, not because they are
independent; with two messages up, two stray pushes and two restarts the safety of
pushes was also checked (1,087,245 states), and the proofs have everything at once.
Worker: four processes are never all taken when a worker is to be started; one update
may be to the current version; two updates in sequence, without jobs, were also checked
(4,166,408 states), and the proofs cover any number.  Fleet: two nodes are what a canary, a full
batch and a shared key take; one fault can be a lost link, a dead supervisor or a
restart of the control plane, each at any step; with one of them two operator
commands can be a reboot during another, whose timer the map then loses, or a drain
and an undrain.  With both components and failing updates the same run was also
checked (540,326 states).  Onboarding: one machine that runs
the bootstrap twice with two tokens can enroll again and reuse a token; two faults
let a write of the database fail and its process then die, or a process and its
successor die, at any two points.  Evidence: two nodes share a digest or not, the four pages are one
that works, one that fails, one that cannot be reached and a healthy one fronted by
Imperva, which the code takes for a block, one of the two host names looks like a
timeout and a TLS error, and one redirect is enough to fail after it.  The counters that bound messages, crashes, updates,
restarts and commands are in the guards; the theorems hold for every value of them.

`onboarding` and `evidence` do not check for deadlock: bootstraps and URLs come to
an end there.  The other runs do.

## Fairness

`RunOrchestrator`: weak fairness of the microtasks only, which the event loop
guarantees.  That agents answer is not assumed but stated in the property
(`Answered`): the code has no timeout for a job.

`ControlChannel`: weak fairness of the poll's backoff timer, and strong fairness
of handling a poll, of its timeout and its answer, and of a push's arrival, the
reading of its body and its answer.  Strong, because a request can fail at any time: a network on which infinitely
many requests are made is assumed not to fail all of them.  Nothing is assumed of
WebSockets, of sends, or of restarts.

`WorkerManager`: every event that has happened is handled and every await
returns.  Nothing is assumed of the worker: it may never become ready.

`Fleet`: the two intervals go on (the tick, the heartbeat of each node), commands
are received while their link holds, and nothing is under way for ever: connects,
hellos, grace timers, updates and results each happen in the end (`Progress`, weakly
fair as a whole, because each of its steps uses something up).  Links may still be
lost, and processes die, up to the bound on faults.

`Onboarding` and `Evidence` state safety only.

## Proofs

See the section of each proof module below; all of it is checked by TLAPS for any
values of the constants that satisfy the assumptions in the modules.

Five components have an abstract specification, and a theorem that they implement
it: `ImplementsUrlFlow`, `ImplementsCommandBox`, `ImplementsUpdateTask`,
`ImplementsUpdateLease` and `ImplementsLedger`.  Each abstract specification has a
handful of actions and none of the code's machinery, so that it can be read as what
the component is for; the mapping is a few state functions beside the properties of
the detailed module.  All five arguments have the same shape: the inductive
invariant of the component, what an abstract action looks like in its variables, one
lemma each, and the steps of the component sorted by the abstract action they are.

### NodeSelectionProofs

For any fleet and policy (`SelectionAssumption`).  `RefusedForWantOfNodes`: what
`selectForUrl` takes meets the quorums exactly when what is eligible does, so that
the maximum, the slice and the modes never refuse a URL that could be tested.
`SelectionExists`: some selection is always possible, so that the model's choice of
one (`S \in Selections(eligible)`) never blocks a request; it rests on
`SubsetOfSize`.

### RunOrchestratorProofs

For every set of runs, URLs and nodes, every assignment of nodes to arms and every
policy (`SelectionAssumption`: quorums are numbers, modes and types are the known
ones).  `TypeCorrect` comes first; `Invariance` rests on it.  The gates are not
inductive: a send that fails inside the microtask queue records a result, and
whether that opens the second stage or ends the URL depends on which jobs exist.
`IInv` therefore adds:

- `JobsInv`: jobs and recorded results belong to selected nodes of dispatched URLs,
  and to the second stage only once the URL has left the first;
- `AnswersInv`: an answer comes from a delivered job, each job has one, and what is
  recorded for a delivered job is its answer, so that a repeated `result` message
  records what is there already;
- `SecondStageInv`: a URL in its second stage has all first answers, one failed;
- `PacketInv` and `PacketsKept`: a packet is written, or being written, only of a
  completed URL, which in the code comes first, and what is written stays what it was.

`RecordInv` is the core: one recorded result, whether an answer or a failed send,
keeps all of it in each of the three outcomes of `recordResult`.  From it follow
`CompletionIsGated`, `BrowserValidationIsGated`, `JobsAreSentOnce`,
`VerdictsStand` and `PacketsAreFinal`.  `HealthyEarned` combines
`VerdictMatchesEvidence` with lemmas about `armStatus`, `combineGsa` and `classify`,
and with `HealthyInv` (only a completed URL is healthy).  `VerdictsHaveQuorum`
combines `CompletionGate` with `DispatchInv` (a URL that was dispatched had its
required nodes, and nothing takes them out of it).  `CompletedRunsAreSettled` needs that a run which does
not exist yet has no URLs (`RunInv`).  `RunsCompleteWithLastUrl`, an action property,
adds `OwnInv`: the URLs of a run have been queued.

`ImplementsUrlFlow` is the refinement `Spec => FlowSpec`.  `FlowPhase` and
`FlowWaiting` are the mapping.  `PhaseMeans` and `WaitingMeans` restate it for each
status, so that a step has to look at one URL only (`SameFlow` for the others);
`EnqueueFlows` shows that queuing is `Accept` or `Block`, `RecordFlows` that a
recorded result is `Answer`, `OpenSecond` or `Finish`, or nothing when it was
recorded before.  It needs `IInv`, and `OpenInv`: a URL with members waits for one
until it ends.

### ReportProofs

`ReportsAreConsistent` rests on the orchestrator's `VerdictsStand` and on `VerdictInv`
(only a completed URL has a verdict that accuses).  The lemmas follow `classify` backwards: a
verdict that accuses an arm means a node of a column of that arm whose effective
result is a failure, hence a primary arm and evidence rows.

### ControlChannelProofs

For any number of connections, messages and restarts and any capacities
(`ChannelAssumption`).  The invariants, each resting on those before it:

- `SessionInv` for `SessionsAreOpen`: every step that closes the control plane's
  end of a transport clears the session, and ends are freed only when both closed;
- `PollInv` for `HeldPollsHaveNoMail`: `HeldPollHasNoMail` itself, that a request is
  held only while `lpSessions` has an entry (else opening one would queue the
  greeting behind a held request), and that only a long-polling supervisor polls;
- `OutboxInv` for `PushesLoseNothing`, an action property: at most one connection
  is in use, none while long-polling, and a push is one of the head of the outbox.
  So the two other steps that shorten the outbox, the opening of a WebSocket and a
  restart, cannot happen in long-polling mode;
- `TypeInv` for `TypeCorrect`: the types, and that a supervisor still on WebSockets
  has failed less often than the limit;
- `OnceInv` for `DeliversAtMostOnce`: a command waits in one place (queue, answer, a
  connection), once, and only while the router has not been given it; its number
  has been used;
- `AnswerInv` for `ImplementsCommandBox`: only a held poll has a live request, and
  only an answered one has commands;
- `OrderInv` for `PushesKeepOrder`, an action property: the numbered messages in the
  outbox ascend, and none is lower than the last one learnt (which may still be at
  the head, to be pushed again); a stray push is `Harmless`: its message has been
  handled, is of a process that is gone, or is still the head of the outbox.

`ImplementsCommandBox` is the refinement `Spec => BoxSpec`.  A command is in the box
while it is in the long-poll queue, in the answer to a poll or on a connection
(`Waiting`), wherever that is.  Every step of the channel is then one of four things
to the box, each with a lemma: nothing is taken and nothing given (`UNCHANGED`),
`Sends`, `HandsOver` (the supervisor reads a frame, or an answer with all its
commands) or `Loses` (an end that closes, a poll given up, a sweep, a restart).  Moving a
command, from the queue into an answer, is no step of the box.  `DeliversAtMostOnce`
says the consequence in one line, from `OnceInv`.

### WorkerManagerProofs

For any number of processes, versions, crashes, updates and restarts
(`WorkerAssumption`).  `OutageIsPassing` is not inductive: an exit that is handled
while `stopping` is up starts no timer, so one has to know who raised the flag.
`StopInv` says it: a restart or an update that has not yet started its worker (or
the update ended with a swap that failed).  `HandleInv` relates `running` and
`handle`; `DiskInv` says at each phase of an update what is completely extracted: the
target once the extraction is over, and the version to go back to unless it was the
one written over; `UndoInv` where `current` points.  The lemmas `SpawnFacts`, `StartFacts` and `StopFacts`
say once what starting and stopping leave behind; `ProcessSteps`, `CommandSteps`
and `UpdateSteps` go through the actions.  The theorems are `TypeCorrect`,
`OutagesPass`, `ReadinessIsHeld`, `LinkStaysInstalled` and
`FailedUpdatesAreUndone`.

`ImplementsUpdateTask` is the refinement `Spec => UpdateSpec`: the phases between
accepting an update and reporting it become one open transaction on `current`.
Exits, restarts, timers and jobs are stutters (`TaskStutter`); of the phases only
extraction, the two swaps and the end are steps (`TaskStep`).  It needs `IInv`, whose
`DiskInv` and `UndoInv` say where the link is when a fetch or a rollback ends, and
`TrialInv`, that it is at the update's version from the swap to its undoing:
without that an update could report success with a link that something else has moved.

### FleetProofs

For any nodes, components, canary, batch size and bounds (`FleetAssumption`).  That
an update is tracked, alone on its node and within the bound is a matter of four
places at once, so `IInv` has:

- `UpdateIsTracked` itself, `Lives` and `Addressed`: what is unfinished belongs to
  a life of the control plane that has begun and is addressed to a node;
- `Apart` and `Reported`: an update is at one place of its way, its terminal result
  leaves nothing behind, and the dispatcher's entry is there until that arrives;
- `OnePerKey`, `Slotted` and `SlotsBounded`: one update in flight per key, each
  holding its slot, and slots within `maxInFlight`;
- `Timed`: for an entry in the reboot manager's map a timer runs.

`RollsKeep` carries the last three through the fold that a tick is, node by node;
`BatchFits` is the arithmetic of `pickRolloutBatch`.  `OneUpdate` and
`RolloutBounded` follow.

`ImplementsUpdateLease` is the refinement `Spec => LeaseSpec`.  A lease is held while
the dispatcher has its entry, live while the update is on its way or being applied,
ended while its terminal result is on the way back, and spent with the slot.
`Grants` shows that whatever a tick has done for two components and all nodes, in
any order and ended by an error or not, is one grant; `Answers` that an interim
result is nothing to a lease, and that a terminal one can be under way only once;
everything else loses at most (`LosesAtMost`).  A consequence that no single
invariant states: within a life of the process an update that was lost, or that
failed, is never sent again.

### OnboardingProofs

For any tokens, nodes, builds, machines and bounds, and either durable adapter.
`Types` comes first.  `StoreInv` says what is stored (`Shaped`), when a queue is
used (`Queued`), that a table's file with its queued writes applied is what the
process has in memory but for the rows in `missed` (`Reflected`, from which
`WritesThrough`), and what those rows can be.  `TokenInv` adds that a token with which
a credential was minted is used up in memory and, with a database that took the write,
on disk (`UsedUp`, for `EnrollsOnce`); `CredInv` that the database has each node's
latest credential of those it took (for `LastCounts`); `CodeInv` follows a build from
its registration to the machine (for `PublishedCode`).  Of each credential minted,
`mints` records which of its two rows the database was given: the theorems say what
holds without an error, and which row an error must have hit for it not to hold.

`ImplementsLedger` is the refinement `Spec => LedgerSpec`.  The ledger is what the
control plane goes by (its memory while it runs, the tables while it does not) with a
copy, the tables.  A write changes both, the copy less only by a fault; an enrollment
with its two writes is `Enroll`, a death puts the copy in force, and one between the
two writes has used the token up in it; a start finds the copy in force, or, by a
fault, an empty table.  For the file store the mapping is an empty ledger: there the
tables are written one after the other, a crash can bring a used token back to life or
drop a credential that a machine holds, and no such ledger exists.  What holds of it is
`EnrollsOnce` within a life of the process, and `WritesThrough`.

### EvidenceProofs

For any nodes, screenshots, pages, redirects and faults (`EvidenceAssumption`).
`ProbeInv` says how far a probe has come and that its record blames a layer it
reached, or what the host's name looks like after a failed lookup (`BlamesAreReached`);
`RecordInv` where recorded answers come from and that a packet is generated from them
(`CompleteIsTrue`).  `FilesInv` says of each node that one which has not met its page
has left no file, that a HAR's digest is its node's own, and that the archive of a
healthy page is at most on the worker's disk (`HarsAreOfFailures`), and of the store
that a file is open only while an upload writes it and that both files of a reference
are there (`RefsAreServed`).

### What is only model-checked

Liveness: `AnsweredUrlsSettle`, `Delivered`, `WorkerComesBack` and `FleetSettles`,
because the prover does not treat fairness and ENABLED.  Every safety property that
a passing run checks, the five refinements included, has a theorem.  Five
invariants have a theorem and no run of their own, because a refinement that a run
checks implies them: `CommandsAtMostOnce`, `FailedUpdateIsUndone`,
`LastCredentialCounts`, `UpdateIsTracked` and `OneUpdatePerNode`.

## Known disagreements

What the code does is in the model; these are places where a document or a comment
says otherwise.  Four are shown by the violated runs above: the late close, the health
gate, the rollout and the packet.  The others are excepted by the properties they touch,
each by name in its comment, or have no property.

- `core/index.mjs:109-120`: `summarizeResult` drops `artifactRefs`, although
  `upload.mjs:3-5` has the supervisor carry them "UP the control channel".  No packet
  with a browser validation is complete.
- `apply-bundle.mjs:52` with `linux.mjs:81-85`: an extraction writes over the files of
  `versions/<v>`, although `platform/contract.mjs:11` has "immutable installed worker
  versions".  A second one that fails damages the installed version, and one of another
  build of the same version mixes the files of the two, while digests and signatures
  are of archives (`LinkIsInstalled`; `CodeIsPublished` speaks of the archive).
- `control/dispatcher.mjs:25`: after a restart of the control plane a second update may
  start while the first is being applied; `control-plane/config.mjs:44` says "never more
  than this updating at once" (`RolloutIsBounded`, `LeaseSpec`).
- `control/reconciler.mjs:42-47`: drain converges to `desiredConfig.drain`, which
  nothing sets, so that a drain ordered through the API is undone by the next tick
  after a heartbeat, and the drain of an update in the middle of it;
  `commands.mjs:14` has "stop accepting new jobs (finish in-flight)" (no property).
- `browser-validation.mjs:194-248`: healthy pages behind Imperva (`x-iinfo`) or DataDome
  are reported as blocked, although "a site merely fronted by an edge ... is deliberately
  NOT reported" (191-193).  `Healthy` in `HarOnlyOfFailures` leaves them out.
- `initial-test.mjs:87-90` and `157-164`: a failed lookup's text holds the host's name,
  and one with `ssl` or `timeout` in it is blamed on that layer, although only DNS was
  tried (`BlameIsReached`).
- `blob-store.mjs:27-29`: a crash while a blob is written leaves a cut file that is
  served under its digest until the same content is uploaded again, although "the id IS
  the hash" (3-5); and after one between its two files the description may be missing
  or cut (`RefIsServed`).
- `har.mjs:3-4`: a HAR is "recorded ONLY on failing browser validations"; one is
  recorded of every validation, and that of a healthy page is removed, or left behind
  when the removal fails or the worker is killed (`HarOnlyOfFailures`).
- `enrollment.mjs:28-36`, `144` and `148`: a use of a token whose write failed is
  forgotten at the next start, and the token enrolls again; a credential whose write
  failed is forgotten; a table that cannot be listed counts as empty
  (`TokenEnrollsOnce`, `MemoryIsWritten`, `LedgerSpec`, `LastCredentialCounts`).  The
  comment calls the writes best-effort, the README speaks of single-use tokens.
- `apply-bundle.mjs:41-43`: signatures are checked against `trustedPublicKeys`, which
  `core/index.mjs` does not pass to the updater, so that it checks none.  `WorkerManager`
  has any failure of the check as a failed fetch.

## Not modelled

- The portal, metrics and the texts of the reports: they read.  The probe's
  metadata of the local network: nothing decides on it.
- TLS, certificates and their pinning, signatures: cryptography.  Revocation of
  credentials: no route leads to it.
- `createLifecycle`, `assertTransition`, `createQueue`, and `recordOutcome`,
  `clearHalt` and `sweepStaleHeartbeats`: only tests call them, if anything does.
- The deduplication of commands by `commandId` in the router: the channel never
  delivers a command twice (`BoxSpec`), so it has no case to act on.
- The memory adapter has no instance: nothing of it survives, and what would be
  said of it is that a restart forgets everything.
- The swap of `current` on Windows, which is not atomic (a known window,
  `platform/windows.mjs`); the model has the atomic one of Linux and Kubernetes.
- Two updates on one node at a time in `WorkerManager`.  A process of the control
  plane never sends a second one (`UpdateLease`); after a restart of it a second one
  can reach a node that still works on the first, which `Fleet` has and
  `WorkerManager`, and so `UpdateTask`, does not.  Nor has `WorkerManager` the end of
  the supervisor in the middle of an update, which is in `Fleet` only.
- The rate limiter's counting: it refuses a bootstrap, which then ends as by a
  failure of the network.
- Build and deployment scripts.

## What could follow

The components above are modelled one by one, with their neighbours as environment;
`Report` is the only composition on shared state.  Worthwhile next steps are the
update of one node end to end (`Fleet` with `WorkerManager` in place of its
`applying` and `swapping` steps), and the Windows variant of the swap.
