------------------------- MODULE WorkerManagerProofs -------------------------
(***************************************************************************)
(* Theorems about WorkerManager, for any number of processes and versions  *)
(* and of crashes, updates and restarts.                                   *)
(***************************************************************************)
EXTENDS WorkerManager, TLAPS

(***************************************************************************)
(* The inductive invariant.  What makes OutageIsPassing hold is StopInv:   *)
(* the `stopping` flag, which keeps an exit from restarting the worker, is *)
(* up only while the task that raised it has yet to start a worker (or the *)
(* task ended with a swap that failed).                                    *)
(***************************************************************************)
Swapping == {"swap", "swapped", "undo_swap", "undo_swapped"}

HandleInv == running <=> handle # "none"

StopInv ==
  stopping =>
    \/ restarting > 0
    \/ update \in {"stopping", "undo_stopping"}
    \/ ~running /\ (update \in Swapping \/ stranded)

DiskInv ==
  /\ LinkIsInstalled
  /\ update # "idle" => previous \in installed \cup overwritten
  /\ update \notin {"idle", "fetch", "extract"} => target \in installed

UndoInv ==
  /\ FailedUpdateIsUndone
  /\ update \in {"fetch", "extract", "stopping", "swap", "undo_swapped"} => link = previous

IInv ==
  /\ TypeOK
  /\ restarting <= restarts
  /\ HandleInv
  /\ StopInv
  /\ OutageIsPassing
  /\ ReadyIsHeld
  /\ DiskInv
  /\ UndoInv

\* What spawning a worker leaves behind.
LEMMA SpawnFacts ==
  ASSUME IInv, Spawn
  PROVE  /\ proc' \in [Procs -> {"none", "alive", "dead"}]
         /\ code' \in [Procs -> Versions]
         /\ handle' \in Procs
         /\ running' = TRUE /\ ready' = FALSE /\ stranded' = FALSE
         /\ UNCHANGED <<booted, busy>>
  BY DEF Spawn, IInv, TypeOK

\* start either finds a worker running and changes nothing but the version, or
\* leaves a new worker that nobody is stopping.
LEMMA StartFacts ==
  ASSUME IInv, NEW v \in Versions, NEW up \in BOOLEAN, start(v, up)
  PROVE  /\ version' = v
         /\ UNCHANGED <<booted, busy>>
         /\ proc' \in [Procs -> {"none", "alive", "dead"}]
         /\ code' \in [Procs -> Versions]
         /\ \/ up /\ UNCHANGED <<handle, running, ready, stopping, stranded>>
            \/ /\ handle' \in Procs
               /\ running' = TRUE /\ ready' = FALSE
               /\ stopping' = FALSE /\ stranded' = FALSE
  <1>1. CASE up /\ UNCHANGED <<processes, handle, running, ready, stopping, stranded>>
    BY <1>1 DEF start, processes, IInv, TypeOK
  <1>2. CASE ~up /\ stopping' = FALSE /\ Spawn
    BY <1>2, SpawnFacts DEF start
  <1> QED
    BY <1>1, <1>2 DEF start

\* A stop that begins marks the process dead and raises the flag.
LEMMA StopFacts ==
  ASSUME IInv, StopBegins
  PROVE  /\ proc' \in [Procs -> {"none", "alive", "dead"}]
         /\ busy' \subseteq Procs
         /\ stopping' = TRUE
         /\ running
         /\ UNCHANGED <<code, booted, handle, running, ready, version, stranded>>
  BY DEF StopBegins, IInv, TypeOK

\* What readiness speaks of is not touched.
LEMMA ReadyStays ==
  ASSUME ReadyIsHeld, UNCHANGED <<booted, handle, running, ready>>
  PROVE  ReadyIsHeld'
  BY DEF ReadyIsHeld

\* The steps of the worker process.
LEMMA ProcessSteps ==
  ASSUME IInv, NEW p \in Procs, onExit(p) \/ ReadyLine(p) \/ JobEnds(p) \/ Crash(p)
  PROVE  IInv'
  <1> USE WorkerAssumption DEF IInv
  <1>1. CASE onExit(p)
    <2>1. TypeOK' /\ (restarting <= restarts)'
      <3>1. proc' \in [Procs -> {"none", "alive", "dead"}] /\ code' \in [Procs -> Versions]
        BY <1>1 DEF onExit, disk, task, counters, TypeOK
      <3>2. booted' \subseteq Procs /\ busy' \subseteq Procs /\ handle' \in Procs \cup {"none"}
        BY <1>1 DEF onExit, disk, task, counters, TypeOK
      <3>3. running' \in BOOLEAN /\ ready' \in BOOLEAN /\ stopping' \in BOOLEAN /\ stranded' \in BOOLEAN
        BY <1>1 DEF onExit, disk, task, counters, TypeOK
      <3>4. draining' \in BOOLEAN
        BY <1>1 DEF onExit, disk, task, counters, TypeOK
      <3>4a. version' \in Versions /\ timers' \in Nat
        BY <1>1 DEF onExit, disk, task, counters, TypeOK
      <3>4b. restarting' <= restarts'
        BY <1>1 DEF onExit, disk, task, counters, TypeOK
      <3>5. restarting' \in 0..MaxRestarts /\ restarts' \in 0..MaxRestarts /\ crashes' \in 0..MaxCrashes /\ updates' \in 0..MaxUpdates
        BY <1>1 DEF onExit, disk, task, counters, TypeOK
      <3>6. UNCHANGED <<link, installed, overwritten, update, target, previous, outcome>>
        BY <1>1 DEF onExit, disk, task, counters, TypeOK
      <3> QED
        BY <3>1, <3>2, <3>3, <3>4, <3>4a, <3>4b, <3>5, <3>6 DEF TypeOK
    <2>2. HandleInv'
      BY <1>1 DEF onExit, disk, task, counters, HandleInv, TypeOK
    <2>3. StopInv'
      BY <1>1 DEF onExit, disk, task, counters, StopInv, Swapping, TypeOK
    <2>4. OutageIsPassing'
      BY <1>1 DEF onExit, disk, task, counters, OutageIsPassing, StopInv, Swapping, Phases, TypeOK
    <2>5. ReadyIsHeld'
      BY <1>1 DEF onExit, ReadyIsHeld
    <2>6. DiskInv'
      BY <1>1 DEF onExit, disk, task, counters, DiskInv, LinkIsInstalled, TypeOK
    <2>7. UndoInv'
      BY <1>1 DEF onExit, disk, task, counters, UndoInv, FailedUpdateIsUndone, TypeOK
    <2> QED
      BY <2>1, <2>2, <2>3, <2>4, <2>5, <2>6, <2>7
  <1>2. CASE ReadyLine(p)
    BY <1>2 DEF ReadyLine, TypeOK, HandleInv, StopInv, OutageIsPassing, ReadyIsHeld, DiskInv,
       UndoInv, LinkIsInstalled, FailedUpdateIsUndone, disk, task, counters, Swapping, Phases
  <1>3. CASE JobEnds(p)
    BY <1>3 DEF JobEnds, TypeOK, HandleInv, StopInv, OutageIsPassing, ReadyIsHeld, DiskInv,
       UndoInv, LinkIsInstalled, FailedUpdateIsUndone, flags, disk, task, counters
  <1>4. CASE Crash(p)
    BY <1>4 DEF Crash, TypeOK, HandleInv, StopInv, OutageIsPassing, ReadyIsHeld, DiskInv,
       UndoInv, LinkIsInstalled, FailedUpdateIsUndone, flags, disk, task
  <1> QED
    BY <1>1, <1>2, <1>3, <1>4

\* The commands other than an update, and the crash restart.
LEMMA CommandSteps ==
  ASSUME IInv,
         \/ RestartTimer \/ RestartBegins \/ RestartEnds \/ runJob
         \/ \E v \in BOOLEAN : setDraining(v)
  PROVE  IInv'
  <1> USE WorkerAssumption DEF IInv
  <1>0. running \in BOOLEAN /\ version \in Versions
    BY DEF TypeOK
  <1>1. CASE RestartTimer
    <2>0. start(version, running)
      BY <1>1 DEF RestartTimer
    <2>1. TypeOK' /\ (restarting <= restarts)'
      <3>1. proc' \in [Procs -> {"none", "alive", "dead"}] /\ code' \in [Procs -> Versions]
        BY <1>0, <1>1, <2>0, StartFacts DEF RestartTimer, disk, task, counters, TypeOK
      <3>2. booted' \subseteq Procs /\ busy' \subseteq Procs /\ handle' \in Procs \cup {"none"}
        BY <1>0, <1>1, <2>0, StartFacts DEF RestartTimer, disk, task, counters, TypeOK
      <3>3. running' \in BOOLEAN /\ ready' \in BOOLEAN /\ stopping' \in BOOLEAN /\ stranded' \in BOOLEAN
        BY <1>0, <1>1, <2>0, StartFacts DEF RestartTimer, disk, task, counters, TypeOK
      <3>4. draining' \in BOOLEAN
        BY <1>0, <1>1, <2>0, StartFacts DEF RestartTimer, disk, task, counters, TypeOK
      <3>4a. version' \in Versions /\ timers' \in Nat
        <4>1. version' \in Versions
          BY <1>0, <2>0, StartFacts
        <4>2. timers' \in Nat
          BY <1>1 DEF RestartTimer, TypeOK
        <4> QED
          BY <4>1, <4>2
      <3>4b. restarting' <= restarts'
        BY <1>0, <1>1, <2>0, StartFacts DEF RestartTimer, disk, task, counters, TypeOK
      <3>5. restarting' \in 0..MaxRestarts /\ restarts' \in 0..MaxRestarts /\ crashes' \in 0..MaxCrashes /\ updates' \in 0..MaxUpdates
        BY <1>0, <1>1, <2>0, StartFacts DEF RestartTimer, disk, task, counters, TypeOK
      <3>6. UNCHANGED <<link, installed, overwritten, update, target, previous, outcome>>
        BY <1>0, <1>1, <2>0, StartFacts DEF RestartTimer, disk, task, counters, TypeOK
      <3> QED
        BY <3>1, <3>2, <3>3, <3>4, <3>4a, <3>4b, <3>5, <3>6 DEF TypeOK
    <2>2. HandleInv'
      BY <1>0, <1>1, <2>0, StartFacts DEF RestartTimer, disk, task, counters, HandleInv, TypeOK
    <2>3. StopInv'
      BY <1>0, <1>1, <2>0, StartFacts DEF RestartTimer, disk, task, counters, StopInv, Swapping, TypeOK
    <2>4. OutageIsPassing'
      BY <1>0, <1>1, <2>0, StartFacts DEF RestartTimer, disk, task, counters, OutageIsPassing, StopInv, Swapping, Phases, TypeOK
    <2>5. ReadyIsHeld'
      <3>1. CASE ready' = FALSE
        BY <3>1 DEF ReadyIsHeld
      <3>2. CASE UNCHANGED <<booted, handle, running, ready>>
        BY <3>2, ReadyStays
      <3> QED
        BY <1>0, <1>1, <2>0, StartFacts, <3>1, <3>2
    <2>6. DiskInv'
      BY <1>0, <1>1, <2>0, StartFacts DEF RestartTimer, disk, task, counters, DiskInv, LinkIsInstalled, TypeOK
    <2>7. UndoInv'
      BY <1>0, <1>1, <2>0, StartFacts DEF RestartTimer, disk, task, counters, UndoInv, FailedUpdateIsUndone, TypeOK
    <2> QED
      BY <2>1, <2>2, <2>3, <2>4, <2>5, <2>6, <2>7
  <1>2. CASE RestartBegins
    <2>1. CASE StopBegins /\ restarting' = restarting + 1
      <3>1. TypeOK' /\ (restarting <= restarts)'
        <4>1. proc' \in [Procs -> {"none", "alive", "dead"}] /\ code' \in [Procs -> Versions]
          BY <1>2, <2>1, StopFacts DEF RestartBegins, disk, task, TypeOK
        <4>2. booted' \subseteq Procs /\ busy' \subseteq Procs /\ handle' \in Procs \cup {"none"}
          BY <1>2, <2>1, StopFacts DEF RestartBegins, disk, task, TypeOK
        <4>3. running' \in BOOLEAN /\ ready' \in BOOLEAN /\ stopping' \in BOOLEAN /\ stranded' \in BOOLEAN
          BY <1>2, <2>1, StopFacts DEF RestartBegins, disk, task, TypeOK
        <4>4. draining' \in BOOLEAN
          BY <1>2, <2>1, StopFacts DEF RestartBegins, disk, task, TypeOK
        <4>4a. version' \in Versions /\ timers' \in Nat
          BY <1>2, <2>1, StopFacts DEF RestartBegins, disk, task, TypeOK
        <4>4b. restarting' <= restarts'
          BY <1>2, <2>1, StopFacts DEF RestartBegins, disk, task, TypeOK
        <4>5. restarting' \in 0..MaxRestarts /\ restarts' \in 0..MaxRestarts /\ crashes' \in 0..MaxCrashes /\ updates' \in 0..MaxUpdates
          BY <1>2, <2>1, StopFacts DEF RestartBegins, disk, task, TypeOK
        <4>6. UNCHANGED <<link, installed, overwritten, update, target, previous, outcome>>
          BY <1>2, <2>1, StopFacts DEF RestartBegins, disk, task, TypeOK
        <4> QED
          BY <4>1, <4>2, <4>3, <4>4, <4>4a, <4>4b, <4>5, <4>6 DEF TypeOK
      <3>2. HandleInv'
        BY <1>2, <2>1, StopFacts DEF RestartBegins, disk, task, HandleInv, TypeOK
      <3>3. StopInv'
        BY <1>2, <2>1, StopFacts DEF RestartBegins, disk, task, StopInv, Swapping, TypeOK
      <3>4. OutageIsPassing'
        BY <1>2, <2>1, StopFacts DEF RestartBegins, disk, task, OutageIsPassing, StopInv, Swapping, Phases, TypeOK
      <3>5. ReadyIsHeld'
        <4>1. UNCHANGED <<booted, handle, running, ready>>
          BY <1>2, <2>1, StopFacts
        <4> QED
          BY <4>1, ReadyStays
      <3>6. DiskInv'
        BY <1>2, <2>1, StopFacts DEF RestartBegins, disk, task, DiskInv, LinkIsInstalled, TypeOK
      <3>7. UndoInv'
        BY <1>2, <2>1, StopFacts DEF RestartBegins, disk, task, UndoInv, FailedUpdateIsUndone, TypeOK
      <3> QED
        BY <3>1, <3>2, <3>3, <3>4, <3>5, <3>6, <3>7
    <2>2. CASE ~running /\ start(version, FALSE) /\ UNCHANGED restarting
      <3>1. TypeOK' /\ (restarting <= restarts)'
        <4>1. proc' \in [Procs -> {"none", "alive", "dead"}] /\ code' \in [Procs -> Versions]
          BY <1>0, <1>2, <2>2, StartFacts DEF RestartBegins, disk, task, TypeOK
        <4>2. booted' \subseteq Procs /\ busy' \subseteq Procs /\ handle' \in Procs \cup {"none"}
          BY <1>0, <1>2, <2>2, StartFacts DEF RestartBegins, disk, task, TypeOK
        <4>3. running' \in BOOLEAN /\ ready' \in BOOLEAN /\ stopping' \in BOOLEAN /\ stranded' \in BOOLEAN
          BY <1>0, <1>2, <2>2, StartFacts DEF RestartBegins, disk, task, TypeOK
        <4>4. draining' \in BOOLEAN
          BY <1>0, <1>2, <2>2, StartFacts DEF RestartBegins, disk, task, TypeOK
        <4>4a. version' \in Versions /\ timers' \in Nat
          BY <1>0, <1>2, <2>2, StartFacts DEF RestartBegins, disk, task, TypeOK
        <4>4b. restarting' <= restarts'
          BY <1>0, <1>2, <2>2, StartFacts DEF RestartBegins, disk, task, TypeOK
        <4>5. restarting' \in 0..MaxRestarts /\ restarts' \in 0..MaxRestarts /\ crashes' \in 0..MaxCrashes /\ updates' \in 0..MaxUpdates
          BY <1>0, <1>2, <2>2, StartFacts DEF RestartBegins, disk, task, TypeOK
        <4>6. UNCHANGED <<link, installed, overwritten, update, target, previous, outcome>>
          BY <1>0, <1>2, <2>2, StartFacts DEF RestartBegins, disk, task, TypeOK
        <4> QED
          BY <4>1, <4>2, <4>3, <4>4, <4>4a, <4>4b, <4>5, <4>6 DEF TypeOK
      <3>2. HandleInv'
        BY <1>0, <1>2, <2>2, StartFacts DEF RestartBegins, disk, task, HandleInv, TypeOK
      <3>3. StopInv'
        BY <1>0, <1>2, <2>2, StartFacts DEF RestartBegins, disk, task, StopInv, Swapping, TypeOK
      <3>4. OutageIsPassing'
        BY <1>0, <1>2, <2>2, StartFacts DEF RestartBegins, disk, task, OutageIsPassing, StopInv, Swapping, Phases, TypeOK
      <3>5. ReadyIsHeld'
        <4>1. CASE ready' = FALSE
          BY <4>1 DEF ReadyIsHeld
        <4>2. CASE UNCHANGED <<booted, handle, running, ready>>
          BY <4>2, ReadyStays
        <4> QED
          BY <1>0, <1>2, <2>2, StartFacts, <4>1, <4>2
      <3>6. DiskInv'
        BY <1>0, <1>2, <2>2, StartFacts DEF RestartBegins, disk, task, DiskInv, LinkIsInstalled, TypeOK
      <3>7. UndoInv'
        BY <1>0, <1>2, <2>2, StartFacts DEF RestartBegins, disk, task, UndoInv, FailedUpdateIsUndone, TypeOK
      <3> QED
        BY <3>1, <3>2, <3>3, <3>4, <3>5, <3>6, <3>7
    <2> QED
      BY <1>2, <2>1, <2>2 DEF RestartBegins
  <1>3. CASE RestartEnds
    <2>0. start(version, FALSE)
      BY <1>3 DEF RestartEnds
    <2>1. TypeOK' /\ (restarting <= restarts)'
      <3>1. proc' \in [Procs -> {"none", "alive", "dead"}] /\ code' \in [Procs -> Versions]
        BY <1>0, <1>3, <2>0, StartFacts DEF RestartEnds, disk, task, counters, TypeOK
      <3>2. booted' \subseteq Procs /\ busy' \subseteq Procs /\ handle' \in Procs \cup {"none"}
        BY <1>0, <1>3, <2>0, StartFacts DEF RestartEnds, disk, task, counters, TypeOK
      <3>3. running' \in BOOLEAN /\ ready' \in BOOLEAN /\ stopping' \in BOOLEAN /\ stranded' \in BOOLEAN
        BY <1>0, <1>3, <2>0, StartFacts DEF RestartEnds, disk, task, counters, TypeOK
      <3>4. draining' \in BOOLEAN
        BY <1>0, <1>3, <2>0, StartFacts DEF RestartEnds, disk, task, counters, TypeOK
      <3>4a. version' \in Versions /\ timers' \in Nat
        BY <1>0, <1>3, <2>0, StartFacts DEF RestartEnds, disk, task, counters, TypeOK
      <3>4b. restarting' <= restarts'
        BY <1>0, <1>3, <2>0, StartFacts DEF RestartEnds, disk, task, counters, TypeOK
      <3>5. restarting' \in 0..MaxRestarts /\ restarts' \in 0..MaxRestarts /\ crashes' \in 0..MaxCrashes /\ updates' \in 0..MaxUpdates
        BY <1>0, <1>3, <2>0, StartFacts DEF RestartEnds, disk, task, counters, TypeOK
      <3>6. UNCHANGED <<link, installed, overwritten, update, target, previous, outcome>>
        BY <1>0, <1>3, <2>0, StartFacts DEF RestartEnds, disk, task, counters, TypeOK
      <3> QED
        BY <3>1, <3>2, <3>3, <3>4, <3>4a, <3>4b, <3>5, <3>6 DEF TypeOK
    <2>2. HandleInv'
      BY <1>0, <1>3, <2>0, StartFacts DEF RestartEnds, disk, task, counters, HandleInv, TypeOK
    <2>3. StopInv'
      BY <1>0, <1>3, <2>0, StartFacts DEF RestartEnds, disk, task, counters, StopInv, Swapping, TypeOK
    <2>4. OutageIsPassing'
      BY <1>0, <1>3, <2>0, StartFacts DEF RestartEnds, disk, task, counters, OutageIsPassing, StopInv, Swapping, Phases, TypeOK
    <2>5. ReadyIsHeld'
      <3>1. CASE ready' = FALSE
        BY <3>1 DEF ReadyIsHeld
      <3>2. CASE UNCHANGED <<booted, handle, running, ready>>
        BY <3>2, ReadyStays
      <3> QED
        BY <1>0, <1>3, <2>0, StartFacts, <3>1, <3>2
    <2>6. DiskInv'
      BY <1>0, <1>3, <2>0, StartFacts DEF RestartEnds, disk, task, counters, DiskInv, LinkIsInstalled, TypeOK
    <2>7. UndoInv'
      BY <1>0, <1>3, <2>0, StartFacts DEF RestartEnds, disk, task, counters, UndoInv, FailedUpdateIsUndone, TypeOK
    <2> QED
      BY <2>1, <2>2, <2>3, <2>4, <2>5, <2>6, <2>7
  <1>4. CASE runJob
    BY <1>4 DEF runJob, TypeOK, HandleInv, StopInv, OutageIsPassing, ReadyIsHeld, DiskInv,
       UndoInv, LinkIsInstalled, FailedUpdateIsUndone, flags, disk, task, counters
  <1>5. CASE \E v \in BOOLEAN : setDraining(v)
    BY <1>5 DEF setDraining, TypeOK, HandleInv, StopInv, OutageIsPassing, ReadyIsHeld,
       DiskInv, UndoInv, LinkIsInstalled, FailedUpdateIsUndone, processes, flags, disk, task,
       counters
  <1> QED
    BY <1>1, <1>2, <1>3, <1>4, <1>5
\* The steps of an update.
LEMMA UpdateSteps ==
  ASSUME IInv,
         \/ FetchFails \/ Fetched \/ ExtractFails \/ Extracted \/ Stopped \/ swapCurrent \/ SwapFails \/ Swapped
         \/ GatePasses \/ GateFails
         \/ \E v \in Versions : UpdateBegins(v)
  PROVE  IInv'
  <1> USE WorkerAssumption DEF IInv
  <1>0. target \in Versions /\ previous \in Versions /\ running \in BOOLEAN
    BY DEF TypeOK
  <1>1. CASE FetchFails
    BY <1>1 DEF FetchFails, processes, flags, disk, counters, TypeOK, HandleInv, StopInv, OutageIsPassing,
       ReadyIsHeld, DiskInv, UndoInv, LinkIsInstalled, FailedUpdateIsUndone, Swapping, Phases
  <1>1a. CASE Fetched
    BY <1>1a DEF Fetched, processes, flags, counters, TypeOK, HandleInv, StopInv, OutageIsPassing,
       ReadyIsHeld, DiskInv, UndoInv, LinkIsInstalled, FailedUpdateIsUndone, Swapping, Phases
  <1>1b. CASE ExtractFails
    BY <1>1b DEF ExtractFails, processes, flags, disk, counters, TypeOK, HandleInv, StopInv, OutageIsPassing,
       ReadyIsHeld, DiskInv, UndoInv, LinkIsInstalled, FailedUpdateIsUndone, Swapping, Phases
  <1>2. CASE Extracted
    <2>1. CASE StopBegins
      <3>1. TypeOK' /\ (restarting <= restarts)'
        <4>1. proc' \in [Procs -> {"none", "alive", "dead"}] /\ code' \in [Procs -> Versions]
          BY <1>2, <2>1, StopFacts DEF Extracted, DrainAndStop, disk, counters, TypeOK, Phases
        <4>2. booted' \subseteq Procs /\ busy' \subseteq Procs /\ handle' \in Procs \cup {"none"}
          BY <1>2, <2>1, StopFacts DEF Extracted, DrainAndStop, disk, counters, TypeOK, Phases
        <4>3. running' \in BOOLEAN /\ ready' \in BOOLEAN /\ stopping' \in BOOLEAN /\ stranded' \in BOOLEAN
          BY <1>2, <2>1, StopFacts DEF Extracted, DrainAndStop, disk, counters, TypeOK, Phases
        <4>4. draining' \in BOOLEAN
          BY <1>2, <2>1, StopFacts DEF Extracted, DrainAndStop, disk, counters, TypeOK, Phases
        <4>5. version' \in Versions /\ timers' \in Nat
          BY <1>2, <2>1, StopFacts DEF Extracted, DrainAndStop, disk, counters, TypeOK, Phases
        <4>6. restarting' <= restarts'
          BY <1>2, <2>1, StopFacts DEF Extracted, DrainAndStop, disk, counters, TypeOK, Phases
        <4>7. restarting' \in 0..MaxRestarts /\ restarts' \in 0..MaxRestarts /\ crashes' \in 0..MaxCrashes /\ updates' \in 0..MaxUpdates
          BY <1>2, <2>1, StopFacts DEF Extracted, DrainAndStop, disk, counters, TypeOK, Phases
        <4>8. /\ link' \in Versions /\ installed' \subseteq Versions /\ overwritten' \subseteq Versions
              /\ update' \in Phases /\ target' \in Versions /\ previous' \in Versions
          BY <1>2, <2>1, StopFacts DEF Extracted, DrainAndStop, disk, counters, TypeOK, Phases
        <4>9. outcome' \in {"none", "succeeded", "failed", "swap_failed"}
          BY <1>2, <2>1, StopFacts DEF Extracted, DrainAndStop, disk, counters, TypeOK, Phases
        <4> QED
          BY <4>1, <4>2, <4>3, <4>4, <4>5, <4>6, <4>7, <4>8, <4>9 DEF TypeOK
      <3>2. HandleInv'
        BY <1>2, <2>1, StopFacts DEF Extracted, DrainAndStop, disk, counters, HandleInv, TypeOK
      <3>3. StopInv'
        BY <1>2, <2>1, StopFacts DEF Extracted, DrainAndStop, disk, counters, StopInv, Swapping, TypeOK
      <3>4. OutageIsPassing'
        BY <1>2, <2>1, StopFacts DEF Extracted, DrainAndStop, disk, counters, OutageIsPassing, StopInv, Swapping, Phases, TypeOK
      <3>5. ReadyIsHeld'
        <4>1. UNCHANGED <<booted, handle, running, ready>>
          BY <1>2, <2>1, StopFacts DEF Extracted, DrainAndStop, disk, counters
        <4> QED
          BY <4>1, ReadyStays
      <3>6. DiskInv'
        BY <1>2, <2>1, StopFacts DEF Extracted, DrainAndStop, disk, counters, DiskInv, LinkIsInstalled, TypeOK
      <3>7. UndoInv'
        BY <1>2, <2>1, StopFacts DEF Extracted, DrainAndStop, disk, counters, UndoInv, FailedUpdateIsUndone, TypeOK
      <3> QED
        BY <3>1, <3>2, <3>3, <3>4, <3>5, <3>6, <3>7
    <2>2. CASE ~running /\ UNCHANGED <<processes, flags>>
      BY <1>2, <2>2 DEF Extracted, DrainAndStop, processes, flags, disk, counters, TypeOK, HandleInv, StopInv, OutageIsPassing,
         ReadyIsHeld, DiskInv, UndoInv, LinkIsInstalled, FailedUpdateIsUndone, Swapping, Phases
    <2> QED
      BY <1>2, <2>1, <2>2 DEF Extracted, DrainAndStop
  <1>3. CASE Stopped
    BY <1>3 DEF Stopped, StopEnds, processes, disk, counters, TypeOK, HandleInv, StopInv, OutageIsPassing,
       ReadyIsHeld, DiskInv, UndoInv, LinkIsInstalled, FailedUpdateIsUndone, Swapping, Phases
  <1>4. CASE swapCurrent
    BY <1>4 DEF swapCurrent, processes, flags, counters, TypeOK, HandleInv, StopInv, OutageIsPassing,
       ReadyIsHeld, DiskInv, UndoInv, LinkIsInstalled, FailedUpdateIsUndone, Swapping, Phases
  <1>5. CASE SwapFails
    BY <1>5 DEF SwapFails, processes, disk, counters, TypeOK, HandleInv, StopInv, OutageIsPassing,
       ReadyIsHeld, DiskInv, UndoInv, LinkIsInstalled, FailedUpdateIsUndone, Swapping, Phases
  <1>6. CASE Swapped
    <2>1. CASE update = "swapped"
      <3>0. start(target, running)
        BY <1>6, <2>1 DEF Swapped
      <3>1. TypeOK' /\ (restarting <= restarts)'
        <4>1. proc' \in [Procs -> {"none", "alive", "dead"}] /\ code' \in [Procs -> Versions]
          BY <1>0, <1>6, <2>1, <3>0, StartFacts DEF Swapped, disk, counters, TypeOK, Phases
        <4>2. booted' \subseteq Procs /\ busy' \subseteq Procs /\ handle' \in Procs \cup {"none"}
          BY <1>0, <1>6, <2>1, <3>0, StartFacts DEF Swapped, disk, counters, TypeOK, Phases
        <4>3. running' \in BOOLEAN /\ ready' \in BOOLEAN /\ stopping' \in BOOLEAN /\ stranded' \in BOOLEAN
          BY <1>0, <1>6, <2>1, <3>0, StartFacts DEF Swapped, disk, counters, TypeOK, Phases
        <4>4. draining' \in BOOLEAN
          BY <1>0, <1>6, <2>1, <3>0, StartFacts DEF Swapped, disk, counters, TypeOK, Phases
        <4>5. version' \in Versions /\ timers' \in Nat
          BY <1>0, <1>6, <2>1, <3>0, StartFacts DEF Swapped, disk, counters, TypeOK, Phases
        <4>6. restarting' <= restarts'
          BY <1>0, <1>6, <2>1, <3>0, StartFacts DEF Swapped, disk, counters, TypeOK, Phases
        <4>7. restarting' \in 0..MaxRestarts /\ restarts' \in 0..MaxRestarts /\ crashes' \in 0..MaxCrashes /\ updates' \in 0..MaxUpdates
          BY <1>0, <1>6, <2>1, <3>0, StartFacts DEF Swapped, disk, counters, TypeOK, Phases
        <4>8. /\ link' \in Versions /\ installed' \subseteq Versions /\ overwritten' \subseteq Versions
              /\ update' \in Phases /\ target' \in Versions /\ previous' \in Versions
          BY <1>0, <1>6, <2>1, <3>0, StartFacts DEF Swapped, disk, counters, TypeOK, Phases
        <4>9. outcome' \in {"none", "succeeded", "failed", "swap_failed"}
          BY <1>0, <1>6, <2>1, <3>0, StartFacts DEF Swapped, disk, counters, TypeOK, Phases
        <4> QED
          BY <4>1, <4>2, <4>3, <4>4, <4>5, <4>6, <4>7, <4>8, <4>9 DEF TypeOK
      <3>2. HandleInv'
        BY <1>0, <1>6, <2>1, <3>0, StartFacts DEF Swapped, disk, counters, HandleInv, TypeOK
      <3>3. StopInv'
        BY <1>0, <1>6, <2>1, <3>0, StartFacts DEF Swapped, disk, counters, StopInv, Swapping, TypeOK
      <3>4. OutageIsPassing'
        <4>1. running'
          BY <1>0, <1>6, <2>1, <3>0, StartFacts
        <4> QED
          BY <4>1 DEF OutageIsPassing
      <3>5. ReadyIsHeld'
        <4>1. CASE ready' = FALSE
          BY <4>1 DEF ReadyIsHeld
        <4>2. CASE UNCHANGED <<booted, handle, running, ready>>
          BY <4>2, ReadyStays
        <4> QED
          BY <1>0, <1>6, <2>1, <3>0, StartFacts, <4>1, <4>2
      <3>6. DiskInv'
        BY <1>0, <1>6, <2>1, <3>0, StartFacts DEF Swapped, disk, counters, DiskInv, LinkIsInstalled, TypeOK
      <3>7. UndoInv'
        BY <1>0, <1>6, <2>1, <3>0, StartFacts DEF Swapped, disk, counters, UndoInv, FailedUpdateIsUndone, TypeOK
      <3> QED
        BY <3>1, <3>2, <3>3, <3>4, <3>5, <3>6, <3>7
    <2>2. CASE update = "undo_swapped"
      <3>0. start(previous, running)
        BY <1>6, <2>2 DEF Swapped
      <3>1. TypeOK' /\ (restarting <= restarts)'
        <4>1. proc' \in [Procs -> {"none", "alive", "dead"}] /\ code' \in [Procs -> Versions]
          BY <1>0, <1>6, <2>2, <3>0, StartFacts DEF Swapped, disk, counters, TypeOK, Phases
        <4>2. booted' \subseteq Procs /\ busy' \subseteq Procs /\ handle' \in Procs \cup {"none"}
          BY <1>0, <1>6, <2>2, <3>0, StartFacts DEF Swapped, disk, counters, TypeOK, Phases
        <4>3. running' \in BOOLEAN /\ ready' \in BOOLEAN /\ stopping' \in BOOLEAN /\ stranded' \in BOOLEAN
          BY <1>0, <1>6, <2>2, <3>0, StartFacts DEF Swapped, disk, counters, TypeOK, Phases
        <4>4. draining' \in BOOLEAN
          BY <1>0, <1>6, <2>2, <3>0, StartFacts DEF Swapped, disk, counters, TypeOK, Phases
        <4>5. version' \in Versions /\ timers' \in Nat
          BY <1>0, <1>6, <2>2, <3>0, StartFacts DEF Swapped, disk, counters, TypeOK, Phases
        <4>6. restarting' <= restarts'
          BY <1>0, <1>6, <2>2, <3>0, StartFacts DEF Swapped, disk, counters, TypeOK, Phases
        <4>7. restarting' \in 0..MaxRestarts /\ restarts' \in 0..MaxRestarts /\ crashes' \in 0..MaxCrashes /\ updates' \in 0..MaxUpdates
          BY <1>0, <1>6, <2>2, <3>0, StartFacts DEF Swapped, disk, counters, TypeOK, Phases
        <4>8. /\ link' \in Versions /\ installed' \subseteq Versions /\ overwritten' \subseteq Versions
              /\ update' \in Phases /\ target' \in Versions /\ previous' \in Versions
          BY <1>0, <1>6, <2>2, <3>0, StartFacts DEF Swapped, disk, counters, TypeOK, Phases
        <4>9. outcome' \in {"none", "succeeded", "failed", "swap_failed"}
          BY <1>0, <1>6, <2>2, <3>0, StartFacts DEF Swapped, disk, counters, TypeOK, Phases
        <4> QED
          BY <4>1, <4>2, <4>3, <4>4, <4>5, <4>6, <4>7, <4>8, <4>9 DEF TypeOK
      <3>2. HandleInv'
        BY <1>0, <1>6, <2>2, <3>0, StartFacts DEF Swapped, disk, counters, HandleInv, TypeOK
      <3>3. StopInv'
        BY <1>0, <1>6, <2>2, <3>0, StartFacts DEF Swapped, disk, counters, StopInv, Swapping, TypeOK
      <3>4. OutageIsPassing'
        <4>1. running'
          BY <1>0, <1>6, <2>2, <3>0, StartFacts
        <4> QED
          BY <4>1 DEF OutageIsPassing
      <3>5. ReadyIsHeld'
        <4>1. CASE ready' = FALSE
          BY <4>1 DEF ReadyIsHeld
        <4>2. CASE UNCHANGED <<booted, handle, running, ready>>
          BY <4>2, ReadyStays
        <4> QED
          BY <1>0, <1>6, <2>2, <3>0, StartFacts, <4>1, <4>2
      <3>6. DiskInv'
        BY <1>0, <1>6, <2>2, <3>0, StartFacts DEF Swapped, disk, counters, DiskInv, LinkIsInstalled, TypeOK
      <3>7. UndoInv'
        BY <1>0, <1>6, <2>2, <3>0, StartFacts DEF Swapped, disk, counters, UndoInv, FailedUpdateIsUndone, TypeOK
      <3> QED
        BY <3>1, <3>2, <3>3, <3>4, <3>5, <3>6, <3>7
    <2> QED
      BY <1>6, <2>1, <2>2 DEF Swapped
  <1>7. CASE GatePasses
    BY <1>7 DEF GatePasses, processes, flags, disk, counters, TypeOK, HandleInv, StopInv, OutageIsPassing,
       ReadyIsHeld, DiskInv, UndoInv, LinkIsInstalled, FailedUpdateIsUndone, Swapping, Phases
  <1>8. CASE GateFails
    <2>1. CASE StopBegins
      <3>1. TypeOK' /\ (restarting <= restarts)'
        <4>1. proc' \in [Procs -> {"none", "alive", "dead"}] /\ code' \in [Procs -> Versions]
          BY <1>8, <2>1, StopFacts DEF GateFails, DrainAndStop, disk, counters, TypeOK, Phases
        <4>2. booted' \subseteq Procs /\ busy' \subseteq Procs /\ handle' \in Procs \cup {"none"}
          BY <1>8, <2>1, StopFacts DEF GateFails, DrainAndStop, disk, counters, TypeOK, Phases
        <4>3. running' \in BOOLEAN /\ ready' \in BOOLEAN /\ stopping' \in BOOLEAN /\ stranded' \in BOOLEAN
          BY <1>8, <2>1, StopFacts DEF GateFails, DrainAndStop, disk, counters, TypeOK, Phases
        <4>4. draining' \in BOOLEAN
          BY <1>8, <2>1, StopFacts DEF GateFails, DrainAndStop, disk, counters, TypeOK, Phases
        <4>5. version' \in Versions /\ timers' \in Nat
          BY <1>8, <2>1, StopFacts DEF GateFails, DrainAndStop, disk, counters, TypeOK, Phases
        <4>6. restarting' <= restarts'
          BY <1>8, <2>1, StopFacts DEF GateFails, DrainAndStop, disk, counters, TypeOK, Phases
        <4>7. restarting' \in 0..MaxRestarts /\ restarts' \in 0..MaxRestarts /\ crashes' \in 0..MaxCrashes /\ updates' \in 0..MaxUpdates
          BY <1>8, <2>1, StopFacts DEF GateFails, DrainAndStop, disk, counters, TypeOK, Phases
        <4>8. /\ link' \in Versions /\ installed' \subseteq Versions /\ overwritten' \subseteq Versions
              /\ update' \in Phases /\ target' \in Versions /\ previous' \in Versions
          BY <1>8, <2>1, StopFacts DEF GateFails, DrainAndStop, disk, counters, TypeOK, Phases
        <4>9. outcome' \in {"none", "succeeded", "failed", "swap_failed"}
          BY <1>8, <2>1, StopFacts DEF GateFails, DrainAndStop, disk, counters, TypeOK, Phases
        <4> QED
          BY <4>1, <4>2, <4>3, <4>4, <4>5, <4>6, <4>7, <4>8, <4>9 DEF TypeOK
      <3>2. HandleInv'
        BY <1>8, <2>1, StopFacts DEF GateFails, DrainAndStop, disk, counters, HandleInv, TypeOK
      <3>3. StopInv'
        BY <1>8, <2>1, StopFacts DEF GateFails, DrainAndStop, disk, counters, StopInv, Swapping, TypeOK
      <3>4. OutageIsPassing'
        BY <1>8, <2>1, StopFacts DEF GateFails, DrainAndStop, disk, counters, OutageIsPassing, StopInv, Swapping, Phases, TypeOK
      <3>5. ReadyIsHeld'
        <4>1. UNCHANGED <<booted, handle, running, ready>>
          BY <1>8, <2>1, StopFacts DEF GateFails, DrainAndStop, disk, counters
        <4> QED
          BY <4>1, ReadyStays
      <3>6. DiskInv'
        BY <1>8, <2>1, StopFacts DEF GateFails, DrainAndStop, disk, counters, DiskInv, LinkIsInstalled, TypeOK
      <3>7. UndoInv'
        BY <1>8, <2>1, StopFacts DEF GateFails, DrainAndStop, disk, counters, UndoInv, FailedUpdateIsUndone, TypeOK
      <3> QED
        BY <3>1, <3>2, <3>3, <3>4, <3>5, <3>6, <3>7
    <2>2. CASE ~running /\ UNCHANGED <<processes, flags>>
      BY <1>8, <2>2 DEF GateFails, DrainAndStop, processes, flags, disk, counters, TypeOK, HandleInv, StopInv, OutageIsPassing,
         ReadyIsHeld, DiskInv, UndoInv, LinkIsInstalled, FailedUpdateIsUndone, Swapping, Phases
    <2> QED
      BY <1>8, <2>1, <2>2 DEF GateFails, DrainAndStop
  <1>9. CASE \E v \in Versions : UpdateBegins(v)
    BY <1>9 DEF UpdateBegins, processes, flags, disk, TypeOK, HandleInv, StopInv, OutageIsPassing,
       ReadyIsHeld, DiskInv, UndoInv, LinkIsInstalled, FailedUpdateIsUndone, Swapping, Phases
  <1> QED
    BY <1>1, <1>1a, <1>1b, <1>2, <1>3, <1>4, <1>5, <1>6, <1>7, <1>8, <1>9


LEMMA IInvStep == IInv /\ [Next]_vars => IInv'
  <1> SUFFICES ASSUME IInv, [Next]_vars PROVE IInv'
    OBVIOUS
  <1>1. CASE Internal
    BY <1>1, ProcessSteps, CommandSteps, UpdateSteps DEF Internal
  <1>2. CASE \E p \in Procs : ReadyLine(p) \/ JobEnds(p) \/ Crash(p)
    BY <1>2, ProcessSteps
  <1>3. CASE runJob \/ RestartBegins \/ \E v \in BOOLEAN : setDraining(v)
    BY <1>3, CommandSteps
  <1>4. CASE \E v \in Versions : UpdateBegins(v)
    BY <1>4, UpdateSteps
  <1>5. CASE UNCHANGED vars
    BY <1>5 DEF vars, processes, flags, task, disk, counters, IInv, TypeOK, HandleInv, StopInv,
       OutageIsPassing, ReadyIsHeld, DiskInv, UndoInv, LinkIsInstalled, FailedUpdateIsUndone,
       Swapping, Phases
  <1> QED
    BY <1>1, <1>2, <1>3, <1>4, <1>5 DEF Next

LEMMA IInvInit == Init => IInv
  <1> SUFFICES ASSUME Init PROVE IInv
    OBVIOUS
  <1>1. handle \in Procs
    BY WorkerAssumption DEF Init
  <1>2. proc \in [Procs -> {"none", "alive", "dead"}] /\ code \in [Procs -> Versions]
    BY WorkerAssumption DEF Init
  <1>3. booted = {} /\ busy = {} /\ link \in Versions /\ installed \subseteq Versions /\ overwritten = {}
    BY WorkerAssumption DEF Init
  <1>4. TypeOK
    <2>1. /\ running \in BOOLEAN /\ ready \in BOOLEAN /\ stopping \in BOOLEAN
          /\ draining \in BOOLEAN /\ stranded \in BOOLEAN
      BY DEF Init
    <2>2. /\ version \in Versions /\ target \in Versions /\ previous \in Versions
          /\ update \in Phases /\ timers \in Nat
          /\ outcome \in {"none", "succeeded", "failed", "swap_failed"}
      BY WorkerAssumption DEF Init, Phases
    <2>3. /\ restarting \in 0..MaxRestarts /\ crashes \in 0..MaxCrashes
          /\ updates \in 0..MaxUpdates /\ restarts \in 0..MaxRestarts
      BY WorkerAssumption DEF Init
    <2> QED
      BY <1>1, <1>2, <1>3, <2>1, <2>2, <2>3 DEF TypeOK
  <1>5. HandleInv /\ StopInv /\ OutageIsPassing /\ ReadyIsHeld
    BY <1>1, WorkerAssumption DEF Init, HandleInv, StopInv, OutageIsPassing, ReadyIsHeld
  <1>6. restarting <= restarts /\ DiskInv /\ UndoInv
    BY <1>3, WorkerAssumption DEF Init, DiskInv, UndoInv, LinkIsInstalled, FailedUpdateIsUndone
  <1> QED
    BY <1>4, <1>5, <1>6 DEF IInv

\* The inductive invariant holds in every reachable state.
THEOREM Invariance == Spec => []IInv
  BY IInvInit, IInvStep, PTL DEF Spec

\* Every variable of the worker manager keeps its type.
THEOREM TypeCorrect == Spec => []TypeOK
  <1>1. IInv => TypeOK
    BY DEF IInv
  <1> QED
    BY <1>1, Invariance, PTL

\* However crashes, restarts, job dispatches and updates overlap, a node
\* without a worker has something under way that starts one, but for an
\* update that could not swap the link (lifecycle.mjs, apply-bundle.mjs).
THEOREM OutagesPass == Spec => []OutageIsPassing
  <1>1. IInv => OutageIsPassing
    BY DEF IInv
  <1> QED
    BY <1>1, Invariance, PTL

\* state.ready is never left over from a worker that is gone (onExit, stop and
\* start reset it, whichever comes first).
THEOREM ReadinessIsHeld == Spec => []ReadyIsHeld
  <1>1. IInv => ReadyIsHeld
    BY DEF IInv
  <1> QED
    BY <1>1, Invariance, PTL

\* `current` never leaves the versions that hold one bundle, verified and extracted to
\* its end, although extractBundle writes in place and may fail half way: but for a
\* version that was current already when it was extracted once more.
THEOREM LinkStaysInstalled == Spec => []LinkIsInstalled
  <1>1. IInv => LinkIsInstalled
    BY DEF IInv, DiskInv
  <1> QED
    BY <1>1, Invariance, PTL

\* An update that is reported failed has been undone: rollbackTo goes back to
\* the version that applyBundle read before it began.
THEOREM FailedUpdatesAreUndone == Spec => []FailedUpdateIsUndone
  <1>1. IInv => FailedUpdateIsUndone
    BY DEF IInv, UndoInv
  <1> QED
    BY <1>1, Invariance, PTL
-----------------------------------------------------------------------------
(* An update is a transaction on the installed version *)

\* Between the swap and its undoing `current` is at the version of the update.
TrialInv == update \in {"swapped", "gate", "undo_stopping", "undo_swap"} => link = target

LEMMA TrialStep == IInv /\ TrialInv /\ [Next]_vars => TrialInv'
  <1> SUFFICES ASSUME IInv, TrialInv, [Next]_vars PROVE TrialInv'
    OBVIOUS
  <1> USE DEF TrialInv
  <1>1. ASSUME NEW p \in Procs, onExit(p) \/ ReadyLine(p) \/ JobEnds(p) \/ Crash(p)
        PROVE  TrialInv'
    BY <1>1 DEF onExit, ReadyLine, JobEnds, Crash, task, disk
  <1>2. CASE RestartTimer \/ RestartBegins \/ RestartEnds \/ runJob
    BY <1>2 DEF RestartTimer, RestartBegins, RestartEnds, runJob, task, disk
  <1>3. ASSUME NEW v \in BOOLEAN, setDraining(v) PROVE TrialInv'
    BY <1>3 DEF setDraining, task, disk
  <1>4. ASSUME NEW v \in Versions, UpdateBegins(v) PROVE TrialInv'
    BY <1>4 DEF UpdateBegins
  <1>5. CASE FetchFails \/ Fetched \/ ExtractFails \/ Extracted \/ Stopped \/ swapCurrent \/ SwapFails \/ Swapped
             \/ GatePasses \/ GateFails
    BY <1>5 DEF FetchFails, Fetched, ExtractFails, Extracted, DrainAndStop, Stopped, swapCurrent, SwapFails, Swapped,
       GatePasses, GateFails, disk
  <1>6. CASE UNCHANGED vars
    BY <1>6 DEF vars, task, disk
  <1> QED
    BY <1>1, <1>2, <1>3, <1>4, <1>5, <1>6 DEF Next, Internal

\* A step that touches neither the update nor the installed versions.
LEMMA TaskStutter ==
  ASSUME UNCHANGED <<update, previous, target, link, installed, outcome>>
  PROVE  UNCHANGED Task!taskVars
  BY DEF Task!taskVars, Updating

LEMMA TaskStep == IInv /\ TrialInv /\ [Next]_vars => [Task!Next]_Task!taskVars
  <1> SUFFICES ASSUME IInv, TrialInv, [Next]_vars PROVE [Task!Next]_Task!taskVars
    OBVIOUS
  <1>1. ASSUME NEW p \in Procs, onExit(p) \/ ReadyLine(p) \/ JobEnds(p) \/ Crash(p)
        PROVE  [Task!Next]_Task!taskVars
    BY <1>1, TaskStutter DEF onExit, ReadyLine, JobEnds, Crash, task, disk
  <1>2. CASE RestartTimer \/ RestartBegins \/ RestartEnds \/ runJob
    BY <1>2, TaskStutter DEF RestartTimer, RestartBegins, RestartEnds, runJob, task, disk
  <1>3. ASSUME NEW v \in BOOLEAN, setDraining(v) PROVE [Task!Next]_Task!taskVars
    BY <1>3, TaskStutter DEF setDraining, task, disk
  <1>4. CASE UNCHANGED vars
    BY <1>4, TaskStutter DEF vars, task, disk
  <1>5. ASSUME NEW v \in Versions, UpdateBegins(v) PROVE Task!Begin(v)
    BY <1>5 DEF UpdateBegins, disk, Task!Begin, Updating
  <1>6. CASE FetchFails
    <2>1. link = previous
      BY <1>6 DEF FetchFails, IInv, UndoInv
    <2>2. Task!End
      BY <1>6, <2>1 DEF FetchFails, disk, Task!End, Updating
    <2> QED
      BY <2>2 DEF Task!Next
  <1>6a. CASE Fetched
    <2>1. link = previous
      BY <1>6a DEF Fetched, IInv, UndoInv
    <2>2. Task!Overwrite
      BY <1>6a, <2>1 DEF Fetched, Task!Overwrite, Updating
    <2> QED
      BY <2>2 DEF Task!Next
  <1>6b. CASE ExtractFails
    <2>1. link = previous
      BY <1>6b DEF ExtractFails, IInv, UndoInv
    <2>2. Task!End
      BY <1>6b, <2>1 DEF ExtractFails, disk, Task!End, Updating
    <2> QED
      BY <2>2 DEF Task!Next
  <1>7. CASE Extracted
    <2>1. update' \in {"stopping", "swap"} /\ link = previous
      BY <1>7 DEF Extracted, DrainAndStop, IInv, UndoInv
    <2>2. Task!Verify
      BY <1>7, <2>1 DEF Extracted, Task!Verify, Updating
    <2> QED
      BY <2>2 DEF Task!Next
  <1>8. CASE Stopped
    <2>1. update # "idle" /\ update' # "idle"
      BY <1>8 DEF Stopped
    <2>2. UNCHANGED Task!taskVars
      BY <1>8, <2>1 DEF Stopped, disk, Task!taskVars, Updating
    <2> QED
      BY <2>2
  <1>9. CASE swapCurrent
    <2>1. CASE update = "swap"
      <3>1. target \in installed
        BY <2>1 DEF IInv, DiskInv
      <3>2. Task!Install
        BY <1>9, <2>1, <3>1 DEF swapCurrent, Task!Install, Updating
      <3> QED
        BY <3>2 DEF Task!Next
    <2>2. CASE update = "undo_swap"
      <3>1. Task!Undo
        BY <1>9, <2>2 DEF swapCurrent, Task!Undo, Updating
      <3> QED
        BY <3>1 DEF Task!Next
    <2> QED
      BY <1>9, <2>1, <2>2 DEF swapCurrent
  <1>10. CASE SwapFails
    <2>1. Task!End
      BY <1>10 DEF SwapFails, disk, Task!End, Updating
    <2> QED
      BY <2>1 DEF Task!Next
  <1>11. CASE Swapped
    <2>1. CASE update = "swapped"
      <3>1. UNCHANGED Task!taskVars
        BY <1>11, <2>1 DEF Swapped, disk, Task!taskVars, Updating
      <3> QED
        BY <3>1
    <2>2. CASE update = "undo_swapped"
      <3>1. link = previous
        BY <2>2 DEF IInv, UndoInv
      <3>2. Task!End
        BY <1>11, <2>2, <3>1 DEF Swapped, disk, Task!End, Updating
      <3> QED
        BY <3>2 DEF Task!Next
    <2> QED
      BY <1>11, <2>1, <2>2 DEF Swapped
  <1>12. CASE GatePasses
    <2>1. link = target
      BY <1>12 DEF GatePasses, TrialInv
    <2>2. Task!End
      BY <1>12, <2>1 DEF GatePasses, disk, Task!End, Updating
    <2> QED
      BY <2>2 DEF Task!Next
  <1>13. CASE GateFails
    <2>1. update # "idle" /\ update' # "idle"
      BY <1>13 DEF GateFails, DrainAndStop
    <2>2. UNCHANGED Task!taskVars
      BY <1>13, <2>1 DEF GateFails, disk, Task!taskVars, Updating
    <2> QED
      BY <2>2
  <1> QED
    BY <1>1, <1>2, <1>3, <1>4, <1>5, <1>6, <1>6a, <1>6b, <1>7, <1>8, <1>9, <1>10, <1>11, <1>12, <1>13
       DEF Next, Internal, Task!Next

\* However crashes, exits, restarts and gate timeouts overlap with it, an update
\* moves `current` to a verified version or back to where it was, and its report
\* says which (applyBundle, rollbackTo).
THEOREM ImplementsUpdateTask == Spec => UpdateSpec
  <1>1. Init => Task!Init /\ TrialInv
    BY DEF Init, Task!Init, Updating, TrialInv
  <1> QED
    BY <1>1, IInvInit, IInvStep, TrialStep, TaskStep, PTL DEF Spec, UpdateSpec, Task!Spec
===============================================================================
