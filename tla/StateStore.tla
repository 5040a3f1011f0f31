------------------------------ MODULE StateStore ------------------------------
(***************************************************************************)
(* The control plane's durable store behind its three adapters: a database *)
(* that is written before the call returns (sqlite), one JSON file a table *)
(* that is rewritten in place, a queue of writes a table at a time          *)
(* (localjson), and nothing durable (memory).  A write may fail: the       *)
(* adapter's promise rejects, and whoever wrote does not look at it.       *)
(*                                                                         *)
(* A table maps its ids to rows, with a row of its own that stands for     *)
(* none.  What one call of the control plane writes to one table is one    *)
(* write here: a partial function from ids to rows.                        *)
(***************************************************************************)
EXTENDS Naturals, Sequences

CONSTANTS Tables,   \* names of the tables modelled
          Drivers,  \* adapters the store may have been built with
          NoRows,   \* NoRows[t]: table t without any row
          MaxFaults \* bound, an adapter each: errors of the store, crashes of any process

ASSUME StoreAssumption ==
  /\ Drivers \subseteq {"memory", "localjson", "sqlite"}
  /\ DOMAIN NoRows = Tables
  /\ MaxFaults \in [Drivers -> Nat]

VARIABLES
  driver,  \* the adapter
  up,      \* whether the process of the control plane runs
  disk,    \* disk[t]: what is stored of table t, unless t is torn
  torn,    \* tables whose file has been truncated and not written since
  writing, \* tables whose file is being written
  cache,   \* cache[t]: what the localjson adapter holds of t in memory
  queue,   \* queue[t]: its writes of t that have not ended, one under way at most
  missed,  \* rows <<t, i>> that an error has kept from being the same on both sides
  faults

store == <<driver, disk, torn, writing, cache, queue, missed>>

StoreInit ==
  /\ driver \in Drivers
  /\ up = TRUE
  /\ disk = NoRows /\ cache = NoRows
  /\ torn = {} /\ writing = {}
  /\ missed = {} /\ faults = 0
  /\ queue = [t \in Tables |-> <<>>]

Apply(table, write) ==
  [i \in DOMAIN table |-> IF i \in DOMAIN write THEN write[i] ELSE table[i]]

\* Every fault counts towards the bound.
Fault == faults < MaxFaults[driver] /\ faults' = faults + 1
FaultIf(happens) == IF happens THEN Fault ELSE UNCHANGED faults

Rows(t) == {t} \X DOMAIN NoRows[t]
RowsOf(writes) == UNION {{t} \X DOMAIN writes[t] : t \in Tables}

\* The database takes the rows of a call but those whose write fails.
Take(writes, failed) ==
  IF driver # "sqlite" THEN UNCHANGED <<disk, missed>>
  ELSE /\ disk' = [t \in Tables |-> [i \in DOMAIN disk[t] |->
                     IF <<t, i>> \in RowsOf(writes) \ failed THEN writes[t][i] ELSE disk[t][i]]]
       /\ missed' = (missed \ RowsOf(writes)) \cup failed

\* Wrong on purpose: a write takes the place of those that wait.
MutPersist(writes) ==
  /\ Take(writes, {}) /\ UNCHANGED faults
  /\ queue' = IF driver # "localjson" THEN queue
              ELSE [t \in Tables |-> IF DOMAIN writes[t] = {} THEN queue[t]
                                     ELSE IF t \in writing THEN <<Head(queue[t]), writes[t]>>
                                     ELSE <<writes[t]>>]
  /\ UNCHANGED <<driver, torn, writing, cache>>

\* put and delete: writes[t] is what is written to table t.  The caller goes on
\* whatever comes of it.
Persist(writes) ==
  /\ \E failed \in SUBSET RowsOf(writes) :
       /\ failed # {} => driver = "sqlite"
       /\ FaultIf(failed # {})
       /\ Take(writes, failed)
  /\ queue' = IF driver # "localjson" THEN queue
              ELSE [t \in Tables |-> IF DOMAIN writes[t] = {} THEN queue[t]
                                     ELSE Append(queue[t], writes[t])]
  /\ UNCHANGED <<driver, torn, writing, cache>>

\* The localjson adapter takes its turn for table t: the record is set in memory
\* and the file of the table truncated.
WriteBegins(t) ==
  /\ up /\ t \notin writing /\ queue[t] # <<>>
  /\ cache' = [cache EXCEPT ![t] = Apply(@, Head(queue[t]))]
  /\ torn' = torn \cup {t} /\ writing' = writing \cup {t}
  /\ UNCHANGED <<driver, disk, queue, missed, faults>>

\* The whole table is in the file, with what earlier writes failed to put there.
WriteEnds(t) ==
  /\ up /\ t \in writing
  /\ disk' = [disk EXCEPT ![t] = cache[t]]
  /\ torn' = torn \ {t} /\ writing' = writing \ {t}
  /\ queue' = [queue EXCEPT ![t] = Tail(@)]
  /\ missed' = missed \ Rows(t)
  /\ UNCHANGED <<driver, cache, faults>>

\* Its turn fails before the file is truncated, which leaves the old table there,
\* or after, which leaves no table; the record is in memory in either case.
WriteFails(t) ==
  /\ up /\ queue[t] # <<>> /\ Fault
  /\ queue' = [queue EXCEPT ![t] = Tail(@)]
  /\ cache' = [cache EXCEPT ![t] = Apply(@, Head(queue[t]))]
  /\ writing' = writing \ {t}
  /\ missed' = missed \cup IF t \in writing THEN Rows(t)
                           ELSE {t} \X DOMAIN Head(queue[t])
  /\ UNCHANGED <<driver, disk, torn>>

\* The process is gone: queued writes are lost, a file being written stays torn.
StoreDies ==
  /\ up /\ up' = FALSE
  /\ queue' = [t \in Tables |-> <<>>]
  /\ writing' = {} /\ missed' = {}
  /\ UNCHANGED <<driver, torn, cache>>

\* init reads every table; a torn file does not parse, and the process ends.
StoreStarts ==
  /\ ~up /\ torn = {}
  /\ up' = TRUE
  /\ cache' = disk
  /\ UNCHANGED <<driver, disk, torn, writing, queue>>

\* The row that table t has at i in the store, or is going to have when the writes
\* that wait have ended well.
Pending(t, i) == {k \in 1..Len(queue[t]) : i \in DOMAIN queue[t][k]}
RowToBe(t, i) ==
  IF queue[t] = <<>> THEN disk[t][i]
  ELSE IF Pending(t, i) = {} THEN cache[t][i]
  ELSE queue[t][CHOOSE k \in Pending(t, i) : \A j \in Pending(t, i) : j <= k][i]
=============================================================================
