--------------------------- MODULE OnboardingProofs ---------------------------
(***************************************************************************)
(* Theorems about Onboarding, for any tokens, nodes, machines and builds,  *)
(* each store, and any number of crashes and of errors of the store.       *)
(***************************************************************************)
EXTENDS Onboarding, TLAPS

-----------------------------------------------------------------------------
(* The store against what the control plane has in memory *)

Ids(t) == IF t = "enrollments" THEN Tokens ELSE NodeIds
Vals(t, l) == IF t = "enrollments" THEN {"none", "unused", "used"} ELSE 0..l
PartialRows(t, l) == UNION {[S -> Vals(t, l)] : S \in SUBSET Ids(t)}

Memory == [t \in Tables |-> IF t = "enrollments" THEN tokens ELSE creds]

\* Tables, writes and memory in the presence of l credentials.
Shaped(d, c, q, mem, l) ==
  /\ DOMAIN d = Tables /\ DOMAIN c = Tables /\ DOMAIN q = Tables
  /\ \A t \in Tables : /\ d[t] \in [Ids(t) -> Vals(t, l)]
                       /\ c[t] \in [Ids(t) -> Vals(t, l)]
                       /\ mem[t] \in [Ids(t) -> Vals(t, l)]
                       /\ q[t] \in Seq(PartialRows(t, l))

\* Row i of a table that is c in the adapter's memory is going to be r when the
\* writes in q have ended.
ToBe(c, q, i, r) ==
  LET pending == {k \in 1..Len(q) : i \in DOMAIN q[k]}
  IN  \/ pending = {} /\ r = c[i]
      \/ \E k \in pending : r = q[k][i] /\ \A j \in pending : j <= k

\* Only the localjson adapter has a queue, and only while the process runs; the
\* write under way is in the adapter's memory already.
Queued ==
  /\ driver # "localjson" => torn = {} /\ \A t \in Tables : queue[t] = <<>>
  /\ ~up => writing = {} /\ \A t \in Tables : queue[t] = <<>>
  /\ torn \subseteq Tables /\ writing \subseteq torn
  /\ \A t \in writing : /\ queue[t] # <<>>
                        /\ \A i \in DOMAIN Head(queue[t]) : cache[t][i] = Head(queue[t])[i]

Missed(t, i) == <<t, i>> \in missed

\* Memory and store are the same but for the rows that an error has kept apart.
Reflected ==
  up => /\ driver = "sqlite" =>
             \A t \in Tables : \A i \in Ids(t) : Missed(t, i) \/ disk[t][i] = Memory[t][i]
        /\ driver = "localjson" =>
             /\ \A t \in Tables : \A i \in Ids(t) : ToBe(cache[t], queue[t], i, Memory[t][i])
             /\ \A t \in Tables \ writing : \A i \in Ids(t) :
                  Missed(t, i) \/ disk[t][i] = cache[t][i]

AllRows == UNION {Rows(t) : t \in Tables}

StoreInv ==
  /\ Shaped(disk, cache, queue, Memory, Len(mints))
  /\ Queued /\ Reflected /\ missed \subseteq AllRows

\* Every write that is given to the store is also made in memory.
Writing(w) ==
  /\ Persist(w)
  /\ Memory' = [t \in Tables |-> Apply(Memory[t], w[t])]

LEMMA ApplyType ==
  ASSUME NEW I, NEW V, NEW T \in [I -> V], NEW S \in SUBSET I, NEW w \in [S -> V]
  PROVE  /\ Apply(T, w) \in [I -> V]
         /\ \A i \in I : Apply(T, w)[i] = IF i \in S THEN w[i] ELSE T[i]
BY DEF Apply

LEMMA ApplyShape ==
  ASSUME NEW t, NEW l, NEW T \in [Ids(t) -> Vals(t, l)], NEW w \in PartialRows(t, l)
  PROVE  /\ Apply(T, w) \in [Ids(t) -> Vals(t, l)]
         /\ \A i \in Ids(t) : Apply(T, w)[i] = IF i \in DOMAIN w THEN w[i] ELSE T[i]
<1>1. PICK S \in SUBSET Ids(t) : w \in [S -> Vals(t, l)]
  BY DEF PartialRows
<1> QED BY <1>1, ApplyType

LEMMA ToBeAppend ==
  ASSUME NEW W, NEW q \in Seq(W), NEW c, NEW i, NEW r, ToBe(c, q, i, r), NEW w \in W
  PROVE  ToBe(c, Append(q, w), i, IF i \in DOMAIN w THEN w[i] ELSE r)
<1> DEFINE a == Append(q, w)
           P == {k \in 1..Len(q) : i \in DOMAIN q[k]}
           Q == {k \in 1..Len(a) : i \in DOMAIN a[k]}
<1>1. Len(a) = Len(q) + 1 /\ Len(q) \in Nat /\ a[Len(q) + 1] = w
  OBVIOUS
<1>2. \A k \in 1..Len(q) : a[k] = q[k]
  OBVIOUS
<1> HIDE DEF a
<1>3. CASE i \in DOMAIN w
  <2>1. Len(q) + 1 \in Q /\ \A j \in Q : j <= Len(q) + 1
    BY <1>1, <1>3
  <2> QED BY <1>1, <1>3, <2>1 DEF ToBe, a
<1>4. CASE i \notin DOMAIN w
  <2>1. Q = P
    BY <1>1, <1>2, <1>4
  <2>2. \A k \in P : a[k] = q[k]
    BY <1>2
  <2> QED BY <1>4, <2>1, <2>2 DEF ToBe, a
<1> QED BY <1>3, <1>4

LEMMA ToBeTail ==
  ASSUME NEW W, NEW q \in Seq(W), q # <<>>, NEW c, NEW i, NEW r, ToBe(c, q, i, r),
         i \in DOMAIN Head(q) => c[i] = Head(q)[i]
  PROVE  ToBe(c, Tail(q), i, r)
<1> DEFINE a == Tail(q)
           P == {k \in 1..Len(q) : i \in DOMAIN q[k]}
           Q == {k \in 1..Len(a) : i \in DOMAIN a[k]}
<1>1. Len(q) \in Nat \ {0} /\ Len(a) = Len(q) - 1 /\ Head(q) = q[1]
  OBVIOUS
<1>2. \A k \in 1..Len(a) : a[k] = q[k + 1]
  OBVIOUS
<1> HIDE DEF a
<1>3. \A k \in Q : k + 1 \in P
  BY <1>1, <1>2
<1>4. \A k \in P \ {1} : k - 1 \in Q /\ a[k - 1] = q[k]
  BY <1>1, <1>2
<1>5. CASE P = {} /\ r = c[i]
  BY <1>3, <1>5 DEF ToBe, a
<1>6. ASSUME NEW k \in P, r = q[k][i], \A j \in P : j <= k
      PROVE  ToBe(c, a, i, r)
  <2>1. CASE k = 1
    <3>1. Q = {}
      BY <1>1, <1>3, <1>6, <2>1
    <3>2. r = c[i]
      BY <1>1, <1>6, <2>1
    <3> QED BY <3>1, <3>2 DEF ToBe
  <2>2. CASE k # 1
    <3>1. k - 1 \in Q /\ r = a[k - 1][i]
      BY <1>4, <1>6, <2>2
    <3>2. \A j \in Q : j <= k - 1
      BY <1>1, <1>3, <1>6
    <3> QED BY <3>1, <3>2 DEF ToBe
  <2> QED BY <2>1, <2>2
<1>7. (P = {} /\ r = c[i]) \/ \E k \in P : r = q[k][i] /\ \A j \in P : j <= k
  BY DEF ToBe
<1> QED BY <1>5, <1>6, <1>7 DEF a

\* The row the store is going to have is the one that ToBe tells.
LEMMA ToBeRow ==
  ASSUME NEW t, NEW i, NEW r, queue[t] \in Seq(PartialRows(t, Len(mints))),
         queue[t] # <<>>, ToBe(cache[t], queue[t], i, r)
  PROVE  RowToBe(t, i) = r
<1> DEFINE P == Pending(t, i)
<1>1. P = {k \in 1..Len(queue[t]) : i \in DOMAIN queue[t][k]} /\ P \subseteq Nat
  BY DEF Pending
<1>2. CASE P = {} /\ r = cache[t][i]
  BY <1>2 DEF RowToBe
<1>3. ASSUME NEW k \in P, r = queue[t][k][i], \A j \in P : j <= k
      PROVE  RowToBe(t, i) = r
  <2> DEFINE m == CHOOSE n \in P : \A j \in P : j <= n
  <2>1. m \in P /\ \A j \in P : j <= m
    BY <1>3
  <2>2. m = k
    BY <1>1, <1>3, <2>1
  <2> QED BY <1>3, <2>2 DEF RowToBe
<1> QED BY <1>1, <1>2, <1>3 DEF ToBe

\* The memory is a memory of rows, with no credential but those minted.
LEMMA Grow ==
  ASSUME NEW l \in Nat, NEW k \in Nat, l <= k, NEW d, NEW c, NEW q, NEW mem,
         Shaped(d, c, q, mem, l)
  PROVE  Shaped(d, c, q, mem, k)
<1>1. ASSUME NEW t \in Tables
      PROVE  /\ d[t] \in [Ids(t) -> Vals(t, k)]
             /\ c[t] \in [Ids(t) -> Vals(t, k)]
             /\ mem[t] \in [Ids(t) -> Vals(t, k)]
             /\ q[t] \in Seq(PartialRows(t, k))
  <2>1. Vals(t, l) \subseteq Vals(t, k)
    BY DEF Vals
  <2>2. PartialRows(t, l) \subseteq PartialRows(t, k)
    BY <2>1 DEF PartialRows
  <2>3. /\ d[t] \in [Ids(t) -> Vals(t, l)]
        /\ c[t] \in [Ids(t) -> Vals(t, l)]
        /\ mem[t] \in [Ids(t) -> Vals(t, l)]
        /\ q[t] \in Seq(PartialRows(t, l))
    BY DEF Shaped
  <2> QED BY <2>1, <2>2, <2>3
<1> QED BY <1>1 DEF Shaped

LEMMA RowOf ==
  ASSUME NEW w
  PROVE  \A t, i : <<t, i>> \in RowsOf(w) <=> t \in Tables /\ i \in DOMAIN w[t]
BY DEF RowsOf

LEMMA RowIn == \A t, i : <<t, i>> \in AllRows <=> t \in Tables /\ i \in Ids(t)
<1>1. \A t \in Tables : DOMAIN NoRows[t] = Ids(t)
  BY EnrollmentAssumption DEF Ids
<1> QED BY <1>1 DEF AllRows, Rows

\* What becomes of a row when the database is given w: it stays as it is, takes
\* what is written, or by a fault stays and is missed.
RowGoes(w, t, i) ==
  \/ /\ i \notin DOMAIN w[t]
     /\ disk'[t][i] = disk[t][i] /\ (Missed(t, i)' <=> Missed(t, i))
  \/ /\ i \in DOMAIN w[t]
     /\ disk'[t][i] = w[t][i] /\ ~ Missed(t, i)'
  \/ /\ i \in DOMAIN w[t] /\ faults' = faults + 1
     /\ disk'[t][i] = disk[t][i] /\ Missed(t, i)'

LEMMA Persisted ==
  ASSUME NEW l, NEW w, Persist(w), DOMAIN disk = Tables, missed \subseteq AllRows,
         \A t \in Tables : w[t] \in PartialRows(t, l) /\ disk[t] \in [Ids(t) -> Vals(t, l)],
         faults \in 0..MaxFaults[driver], driver \in Drivers
  PROVE  /\ driver # "sqlite" => UNCHANGED <<disk, missed, faults>>
         /\ driver = "sqlite" => \A t \in Tables : \A i \in Ids(t) : RowGoes(w, t, i)
         /\ DOMAIN disk' = Tables /\ \A t \in Tables : disk'[t] \in [Ids(t) -> Vals(t, l)]
         /\ missed' \subseteq AllRows
         /\ faults' \in 0..MaxFaults[driver] /\ faults' >= faults
<1>1. PICK failed \in SUBSET RowsOf(w) : /\ failed # {} => driver = "sqlite"
                                         /\ FaultIf(failed # {}) /\ Take(w, failed)
  BY DEF Persist
<1>2. MaxFaults[driver] \in Nat
  BY StoreAssumption
<1>3. /\ faults' \in 0..MaxFaults[driver] /\ faults' >= faults
      /\ failed # {} => faults' = faults + 1
      /\ failed = {} => faults' = faults
  BY <1>1, <1>2 DEF FaultIf, Fault
<1>4. CASE driver # "sqlite"
  BY <1>1, <1>3, <1>4 DEF Take
<1>5. CASE driver = "sqlite"
  <2>1. /\ disk' = [t \in Tables |-> [i \in DOMAIN disk[t] |->
                      IF <<t, i>> \in RowsOf(w) \ failed THEN w[t][i] ELSE disk[t][i]]]
        /\ missed' = (missed \ RowsOf(w)) \cup failed
    BY <1>1, <1>5 DEF Take
  <2>2. ASSUME NEW t \in Tables
        PROVE  /\ disk'[t] \in [Ids(t) -> Vals(t, l)]
               /\ \A i \in Ids(t) :
                    disk'[t][i] = IF i \in DOMAIN w[t] /\ <<t, i>> \notin failed
                                  THEN w[t][i] ELSE disk[t][i]
    <3>1. PICK S \in SUBSET Ids(t) : w[t] \in [S -> Vals(t, l)]
      BY DEF PartialRows
    <3>2. disk'[t] = [i \in Ids(t) |-> IF <<t, i>> \in RowsOf(w) \ failed
                                       THEN w[t][i] ELSE disk[t][i]]
      BY <2>1
    <3>3. \A i : <<t, i>> \in RowsOf(w) <=> i \in DOMAIN w[t]
      BY RowOf
    <3> QED BY <3>1, <3>2, <3>3
  <2>3. ASSUME NEW t \in Tables, NEW i \in Ids(t)
        PROVE  RowGoes(w, t, i)
    <3>1. /\ <<t, i>> \in RowsOf(w) <=> i \in DOMAIN w[t]
          /\ <<t, i>> \in failed => i \in DOMAIN w[t]
      BY RowOf
    <3>2. <<t, i>> \in missed' <=> (<<t, i>> \in missed /\ i \notin DOMAIN w[t]) \/ <<t, i>> \in failed
      BY <2>1, <3>1
    <3>3. disk'[t][i] = IF i \in DOMAIN w[t] /\ <<t, i>> \notin failed
                        THEN w[t][i] ELSE disk[t][i]
      BY <2>2
    <3> QED BY <1>3, <3>1, <3>2, <3>3 DEF RowGoes, Missed
  <2>4. RowsOf(w) \subseteq AllRows
    <3>1. \A t \in Tables : DOMAIN w[t] \subseteq Ids(t)
      BY DEF PartialRows
    <3>2. ASSUME NEW r \in RowsOf(w)
          PROVE  r \in AllRows
      <4>1. PICK t \in Tables : r \in {t} \X DOMAIN w[t]
        BY DEF RowsOf
      <4>2. r = <<t, r[2]>> /\ r[2] \in DOMAIN w[t]
        BY <4>1
      <4> QED BY <3>1, <4>2, RowIn
    <3> QED BY <3>2
  <2> QED BY <1>3, <1>5, <2>1, <2>2, <2>3, <2>4
<1> QED BY <1>4, <1>5

LEMMA WritingInv ==
  ASSUME StoreInv, up, up' = up, NEW w, Writing(w), driver \in Drivers,
         faults \in 0..MaxFaults[driver],
         Len(mints) \in Nat, Len(mints') \in Nat, Len(mints) <= Len(mints'),
         \A t \in Tables : w[t] \in PartialRows(t, Len(mints'))
  PROVE  /\ StoreInv'
         /\ faults' \in 0..MaxFaults[driver'] /\ faults' >= faults
         /\ driver = "sqlite" => \A t \in Tables : \A i \in Ids(t) : RowGoes(w, t, i)
<1>1. Shaped(disk, cache, queue, Memory, Len(mints'))
  BY Grow DEF StoreInv
<1>2. UNCHANGED <<driver, torn, writing, cache>>
  BY DEF Writing, Persist
<1>3. \A t \in Tables : Memory'[t] = Apply(Memory[t], w[t])
  BY DEF Writing
<1>4. /\ driver # "sqlite" => UNCHANGED <<disk, missed, faults>>
      /\ driver = "sqlite" => \A t \in Tables : \A i \in Ids(t) : RowGoes(w, t, i)
      /\ DOMAIN disk' = Tables /\ \A t \in Tables : disk'[t] \in [Ids(t) -> Vals(t, Len(mints'))]
      /\ missed' \subseteq AllRows
      /\ faults' \in 0..MaxFaults[driver] /\ faults' >= faults
  <2>1. /\ DOMAIN disk = Tables /\ missed \subseteq AllRows /\ Persist(w)
        /\ \A t \in Tables : disk[t] \in [Ids(t) -> Vals(t, Len(mints'))]
    BY <1>1 DEF Shaped, StoreInv, Writing
  <2> QED BY <2>1, Persisted
<1>5. queue' = IF driver # "localjson" THEN queue
               ELSE [t \in Tables |-> IF DOMAIN w[t] = {} THEN queue[t]
                                      ELSE Append(queue[t], w[t])]
  BY DEF Writing, Persist
<1>6. ASSUME NEW t \in Tables
      PROVE  /\ cache'[t] \in [Ids(t) -> Vals(t, Len(mints'))]
             /\ Memory'[t] \in [Ids(t) -> Vals(t, Len(mints'))]
             /\ \A i \in Ids(t) : Memory'[t][i] = IF i \in DOMAIN w[t] THEN w[t][i]
                                                                       ELSE Memory[t][i]
             /\ queue'[t] \in Seq(PartialRows(t, Len(mints')))
  <2>1. /\ cache[t] \in [Ids(t) -> Vals(t, Len(mints'))]
        /\ Memory[t] \in [Ids(t) -> Vals(t, Len(mints'))]
        /\ queue[t] \in Seq(PartialRows(t, Len(mints')))
    BY <1>1 DEF Shaped
  <2>2. w[t] \in PartialRows(t, Len(mints'))
    OBVIOUS
  <2>3. /\ Memory'[t] \in [Ids(t) -> Vals(t, Len(mints'))]
        /\ \A i \in Ids(t) : Memory'[t][i] = IF i \in DOMAIN w[t] THEN w[t][i] ELSE Memory[t][i]
    BY <1>3, <2>1, <2>2, ApplyShape
  <2>5. queue'[t] \in Seq(PartialRows(t, Len(mints')))
    BY <1>5, <2>1, <2>2
  <2> QED BY <1>2, <2>1, <2>3, <2>5
<1>7. Shaped(disk', cache', queue', Memory', Len(mints'))
  <2>1. DOMAIN queue' = Tables /\ DOMAIN cache' = Tables
    BY <1>1, <1>2, <1>5 DEF Shaped
  <2> QED BY <1>4, <1>6, <2>1 DEF Shaped
<1>8. Queued'
  <2>1. driver # "localjson" => queue' = queue
    BY <1>5
  <2>2. ASSUME driver = "localjson", NEW t \in writing
        PROVE  /\ queue'[t] # <<>>
               /\ \A i \in DOMAIN Head(queue'[t]) : cache'[t][i] = Head(queue'[t])[i]
    <3>1. t \in Tables /\ queue[t] # <<>> /\ queue[t] \in Seq(PartialRows(t, Len(mints')))
      BY <1>1, <2>2 DEF StoreInv, Queued, Shaped
    <3>2. queue'[t] = queue[t] \/ queue'[t] = Append(queue[t], w[t])
      BY <1>5, <2>2, <3>1
    <3>3. queue'[t] # <<>> /\ Head(queue'[t]) = Head(queue[t])
      BY <3>1, <3>2
    <3> QED BY <1>2, <2>2, <3>3 DEF StoreInv, Queued
  <2> QED BY <1>2, <2>1, <2>2 DEF StoreInv, Queued
<1>9. Reflected'
  <2>1. CASE driver = "sqlite"
    <3>1. ASSUME NEW t \in Tables, NEW i \in Ids(t)
          PROVE  Missed(t, i)' \/ disk'[t][i] = Memory'[t][i]
      <4>1. Missed(t, i) \/ disk[t][i] = Memory[t][i]
        BY <2>1 DEF StoreInv, Reflected
      <4>2. RowGoes(w, t, i)
        BY <1>4, <2>1
      <4> QED BY <1>6, <4>1, <4>2 DEF RowGoes
    <3> QED BY <1>2, <2>1, <3>1 DEF Reflected
  <2>2. CASE driver = "localjson"
    <3>1. ASSUME NEW t \in Tables, NEW i \in Ids(t)
          PROVE  ToBe(cache'[t], queue'[t], i, Memory'[t][i])
      <4>1. /\ queue[t] \in Seq(PartialRows(t, Len(mints')))
            /\ w[t] \in PartialRows(t, Len(mints'))
        BY <1>1 DEF Shaped
      <4>2. Memory'[t][i] = IF i \in DOMAIN w[t] THEN w[t][i] ELSE Memory[t][i]
        BY <1>6
      <4>3. ToBe(cache[t], queue[t], i, Memory[t][i])
        BY <2>2 DEF StoreInv, Reflected
      <4>4. CASE DOMAIN w[t] = {}
        <5>1. queue'[t] = queue[t] /\ Memory'[t][i] = Memory[t][i]
          BY <1>5, <2>2, <4>2, <4>4
        <5> QED BY <1>2, <4>3, <5>1
      <4>5. CASE DOMAIN w[t] # {}
        <5>1. queue'[t] = Append(queue[t], w[t])
          BY <1>5, <2>2, <4>5
        <5>2. ToBe(cache[t], Append(queue[t], w[t]), i,
                   IF i \in DOMAIN w[t] THEN w[t][i] ELSE Memory[t][i])
          BY <4>1, <4>3, ToBeAppend
        <5> QED BY <1>2, <4>2, <5>1, <5>2
      <4> QED BY <4>4, <4>5
    <3>2. ASSUME NEW t \in Tables \ writing, NEW i \in Ids(t)
          PROVE  Missed(t, i)' \/ disk'[t][i] = cache'[t][i]
      <4>1. Missed(t, i) \/ disk[t][i] = cache[t][i]
        BY <2>2 DEF StoreInv, Reflected
      <4> QED BY <1>2, <1>4, <2>2, <4>1 DEF Missed
    <3> QED BY <1>2, <2>2, <3>1, <3>2 DEF Reflected
  <2> QED BY <1>2, <2>1, <2>2 DEF Reflected
<1> QED BY <1>2, <1>4, <1>7, <1>8, <1>9 DEF StoreInv, AllRows, Rows

LEMMA StoreUnchanged ==
  ASSUME StoreInv, Len(mints') = Len(mints),
         UNCHANGED <<driver, disk, torn, writing, cache, queue, missed, tokens, creds, up>>
  PROVE  StoreInv'
<1>1. Memory' = Memory
  BY DEF Memory
<1>2. Shaped(disk', cache', queue', Memory', Len(mints'))
  BY <1>1 DEF StoreInv
<1>3. Queued'
  BY DEF StoreInv, Queued
<1>4. Reflected'
  BY <1>1 DEF StoreInv, Reflected, Missed
<1> QED BY <1>2, <1>3, <1>4 DEF StoreInv, AllRows, Rows

\* A row that is set in the adapter's memory is still going to be what it was.
LEMMA ToBeApplied ==
  ASSUME StoreInv, up, driver = "localjson", NEW t \in Tables, queue[t] # <<>>,
         cache' = [cache EXCEPT ![t] = Apply(@, Head(queue[t]))],
         UNCHANGED <<tokens, creds>>
  PROVE  /\ cache'[t] \in [Ids(t) -> Vals(t, Len(mints))]
         /\ \A i \in Ids(t) : /\ cache'[t][i] = IF i \in DOMAIN Head(queue[t])
                                                THEN Head(queue[t])[i] ELSE cache[t][i]
                              /\ ToBe(cache'[t], queue[t], i, Memory'[t][i])
         /\ \A s \in Tables \ {t} : cache'[s] = cache[s]
         /\ Head(queue[t]) \in PartialRows(t, Len(mints)) /\ DOMAIN cache' = Tables
<1> DEFINE W == PartialRows(t, Len(mints))
           q == queue[t]
<1>1. /\ cache[t] \in [Ids(t) -> Vals(t, Len(mints))] /\ q \in Seq(W) /\ q # <<>>
      /\ DOMAIN cache = Tables
  BY DEF StoreInv, Shaped
<1>2. Head(q) \in W /\ Head(q) = q[1] /\ 1 \in 1..Len(q)
  <2> HIDE DEF W, q
  <2> QED BY <1>1
<1>3. cache'[t] = Apply(cache[t], Head(q)) /\ \A s \in Tables \ {t} : cache'[s] = cache[s]
  BY <1>1
<1>4. /\ cache'[t] \in [Ids(t) -> Vals(t, Len(mints))]
      /\ \A i \in Ids(t) : cache'[t][i] = IF i \in DOMAIN Head(q) THEN Head(q)[i] ELSE cache[t][i]
  BY <1>1, <1>2, <1>3, ApplyShape
<1>5. Memory' = Memory
  BY DEF Memory
<1>6. ASSUME NEW i \in Ids(t)
      PROVE  ToBe(cache'[t], q, i, Memory[t][i])
  <2>1. ToBe(cache[t], q, i, Memory[t][i])
    BY DEF StoreInv, Reflected
  <2>2. i \notin DOMAIN q[1] => cache'[t][i] = cache[t][i]
    BY <1>2, <1>4
  <2> HIDE DEF q
  <2> QED BY <1>2, <2>1, <2>2 DEF ToBe
<1> QED BY <1>1, <1>2, <1>3, <1>4, <1>5, <1>6

LEMMA WriteBeginsInv ==
  ASSUME StoreInv, NEW t \in Tables, WriteBegins(t), UNCHANGED <<tokens, creds, up, mints>>
  PROVE  StoreInv'
<1> DEFINE q == queue[t]
<1>1. /\ up /\ t \notin writing /\ q # <<>> /\ cache' = [cache EXCEPT ![t] = Apply(@, Head(q))]
      /\ torn' = torn \cup {t} /\ writing' = writing \cup {t}
      /\ UNCHANGED <<driver, disk, queue, missed>>
  BY DEF WriteBegins
<1>2. driver = "localjson"
  BY <1>1 DEF StoreInv, Queued
<1>3. /\ cache'[t] \in [Ids(t) -> Vals(t, Len(mints))]
      /\ \A i \in Ids(t) : /\ cache'[t][i] = IF i \in DOMAIN Head(q) THEN Head(q)[i]
                                                                     ELSE cache[t][i]
                           /\ ToBe(cache'[t], q, i, Memory'[t][i])
      /\ \A s \in Tables \ {t} : cache'[s] = cache[s]
      /\ Head(q) \in PartialRows(t, Len(mints)) /\ DOMAIN cache' = Tables
  BY <1>1, <1>2, ToBeApplied
<1>4. Memory' = Memory
  BY DEF Memory
<1>5. Shaped(disk', cache', queue', Memory', Len(mints'))
  BY <1>1, <1>3, <1>4 DEF StoreInv, Shaped
<1>6. Queued'
  <2>1. DOMAIN Head(q) \subseteq Ids(t)
    BY <1>3 DEF PartialRows
  <2>2. \A s \in writing : s \in Tables \ {t}
    BY <1>1 DEF StoreInv, Queued
  <2> QED BY <1>1, <1>2, <1>3, <2>1, <2>2 DEF StoreInv, Queued
<1>7. Reflected'
  <2>1. \A s \in Tables \ {t} : \A i \in Ids(s) : ToBe(cache'[s], queue[s], i, Memory[s][i])
    BY <1>1, <1>2, <1>3 DEF StoreInv, Reflected
  <2>2. \A s \in Tables : \A i \in Ids(s) : ToBe(cache'[s], queue[s], i, Memory[s][i])
    BY <1>3, <1>4, <2>1
  <2>3. \A s \in Tables \ writing' : \A i \in Ids(s) :
          Missed(s, i) \/ disk[s][i] = cache'[s][i]
    BY <1>1, <1>2, <1>3 DEF StoreInv, Reflected
  <2> QED BY <1>1, <1>2, <1>4, <2>2, <2>3 DEF Reflected, Missed
<1> QED BY <1>1, <1>5, <1>6, <1>7 DEF StoreInv, AllRows, Rows

\* The write at the head of the queue has had its turn.
LEMMA TurnEnds ==
  ASSUME StoreInv, up, NEW t \in Tables, queue[t] # <<>>,
         queue' = [queue EXCEPT ![t] = Tail(@)], NEW c,
         \A i \in DOMAIN Head(queue[t]) \cap Ids(t) : c[i] = Head(queue[t])[i],
         \A i \in Ids(t) : ToBe(c, queue[t], i, Memory[t][i])
  PROVE  /\ queue'[t] \in Seq(PartialRows(t, Len(mints))) /\ DOMAIN queue' = Tables
         /\ \A s \in Tables \ {t} : queue'[s] = queue[s]
         /\ \A i \in Ids(t) : ToBe(c, queue'[t], i, Memory[t][i])
<1> DEFINE W == PartialRows(t, Len(mints))
           q == queue[t]
<1>1. q \in Seq(W) /\ q # <<>> /\ DOMAIN queue = Tables
  BY DEF StoreInv, Shaped
<1>2. Tail(q) \in Seq(W) /\ Head(q) \in W
  <2> HIDE DEF W, q
  <2> QED BY <1>1
<1>3. queue'[t] = Tail(q) /\ \A s \in Tables \ {t} : queue'[s] = queue[s]
  BY <1>1
<1>4. ASSUME NEW i \in Ids(t)
      PROVE  ToBe(c, Tail(q), i, Memory[t][i])
  <2>1. i \in DOMAIN Head(q) => c[i] = Head(q)[i]
    OBVIOUS
  <2>2. ToBe(c, q, i, Memory[t][i])
    OBVIOUS
  <2> HIDE DEF q, W
  <2> QED BY <1>1, <2>1, <2>2, ToBeTail DEF q
<1> QED BY <1>1, <1>2, <1>3, <1>4

LEMMA WriteEndsInv ==
  ASSUME StoreInv, NEW t \in Tables, WriteEnds(t), UNCHANGED <<tokens, creds, up, mints>>
  PROVE  StoreInv'
<1> DEFINE q == queue[t]
<1>1. /\ t \in writing /\ up /\ torn' = torn \ {t} /\ writing' = writing \ {t}
      /\ disk' = [disk EXCEPT ![t] = cache[t]] /\ missed' = missed \ Rows(t)
      /\ queue' = [queue EXCEPT ![t] = Tail(@)] /\ UNCHANGED <<driver, cache>>
  BY DEF WriteEnds
<1>2. DOMAIN disk = Tables /\ cache[t] \in [Ids(t) -> Vals(t, Len(mints))]
  BY DEF StoreInv, Shaped
<1>3. /\ q # <<>> /\ driver = "localjson"
      /\ \A i \in DOMAIN Head(q) : cache[t][i] = Head(q)[i]
  BY <1>1 DEF StoreInv, Queued
<1>4. Memory' = Memory
  BY DEF Memory
<1>5. /\ \A s \in Tables : \A i \in Ids(s) : ToBe(cache[s], queue[s], i, Memory[s][i])
      /\ \A s \in Tables \ writing : \A i \in Ids(s) : Missed(s, i) \/ disk[s][i] = cache[s][i]
  BY <1>1, <1>3 DEF StoreInv, Reflected
<1>6. /\ queue'[t] \in Seq(PartialRows(t, Len(mints))) /\ DOMAIN queue' = Tables
      /\ \A s \in Tables \ {t} : queue'[s] = queue[s]
      /\ \A i \in Ids(t) : ToBe(cache[t], queue'[t], i, Memory[t][i])
  BY <1>1, <1>3, <1>5, TurnEnds
<1>7. Shaped(disk', cache', queue', Memory', Len(mints'))
  BY <1>1, <1>2, <1>4, <1>6 DEF StoreInv, Shaped
<1>8. Queued'
  BY <1>1, <1>3, <1>6 DEF StoreInv, Queued
<1>9. Reflected'
  <2>1. \A s \in Tables : \A i \in Ids(s) : ToBe(cache'[s], queue'[s], i, Memory'[s][i])
    BY <1>1, <1>4, <1>5, <1>6
  <2>2. ASSUME NEW s \in Tables \ writing', NEW i \in Ids(s)
        PROVE  Missed(s, i)' \/ disk'[s][i] = cache'[s][i]
    <3>1. CASE s = t
      BY <1>1, <1>2, <3>1
    <3>2. CASE s # t
      <4>1. <<s, i>> \in missed => <<s, i>> \in missed'
        BY <1>1, <3>2 DEF Rows
      <4>2. disk'[s] = disk[s] /\ s \notin writing
        BY <1>1, <1>2, <3>2
      <4> QED BY <1>1, <1>5, <4>1, <4>2 DEF Missed
    <3> QED BY <3>1, <3>2
  <2> QED BY <1>1, <1>3, <2>1, <2>2 DEF Reflected
<1> QED BY <1>1, <1>7, <1>8, <1>9 DEF StoreInv, AllRows, Rows

LEMMA WriteFailsInv ==
  ASSUME StoreInv, NEW t \in Tables, WriteFails(t), UNCHANGED <<tokens, creds, up, mints>>
  PROVE  StoreInv'
<1> DEFINE q == queue[t]
           lost == IF t \in writing THEN Rows(t) ELSE {t} \X DOMAIN Head(q)
<1>1. /\ up /\ q # <<>> /\ queue' = [queue EXCEPT ![t] = Tail(@)]
      /\ cache' = [cache EXCEPT ![t] = Apply(@, Head(q))]
      /\ writing' = writing \ {t} /\ missed' = missed \cup lost
      /\ UNCHANGED <<driver, disk, torn>>
  BY DEF WriteFails
<1>2. driver = "localjson"
  BY <1>1 DEF StoreInv, Queued
<1>3. /\ cache'[t] \in [Ids(t) -> Vals(t, Len(mints))]
      /\ \A i \in Ids(t) : /\ cache'[t][i] = IF i \in DOMAIN Head(q) THEN Head(q)[i]
                                                                     ELSE cache[t][i]
                           /\ ToBe(cache'[t], q, i, Memory'[t][i])
      /\ \A s \in Tables \ {t} : cache'[s] = cache[s]
      /\ Head(q) \in PartialRows(t, Len(mints)) /\ DOMAIN cache' = Tables
  BY <1>1, <1>2, ToBeApplied
<1>4. Memory' = Memory
  BY DEF Memory
<1>5. /\ \A s \in Tables : \A i \in Ids(s) : ToBe(cache[s], queue[s], i, Memory[s][i])
      /\ \A s \in Tables \ writing : \A i \in Ids(s) : Missed(s, i) \/ disk[s][i] = cache[s][i]
  BY <1>1, <1>2 DEF StoreInv, Reflected
<1>6. /\ queue'[t] \in Seq(PartialRows(t, Len(mints))) /\ DOMAIN queue' = Tables
      /\ \A s \in Tables \ {t} : queue'[s] = queue[s]
      /\ \A i \in Ids(t) : ToBe(cache'[t], queue'[t], i, Memory[t][i])
  <2>1. /\ \A i \in DOMAIN Head(q) \cap Ids(t) : cache'[t][i] = Head(q)[i]
        /\ \A i \in Ids(t) : ToBe(cache'[t], q, i, Memory[t][i])
    BY <1>3, <1>4
  <2> QED BY <1>1, <2>1, TurnEnds
<1>7. Shaped(disk', cache', queue', Memory', Len(mints'))
  BY <1>1, <1>3, <1>4, <1>6 DEF StoreInv, Shaped
<1>8. Queued'
  <2>1. \A s \in writing' : s \in Tables \ {t} /\ s \in writing
    BY <1>1 DEF StoreInv, Queued
  <2> QED BY <1>1, <1>2, <1>3, <1>6, <2>1 DEF StoreInv, Queued
<1>9. DOMAIN Head(q) \subseteq Ids(t) /\ DOMAIN NoRows[t] = Ids(t)
  <2>1. DOMAIN Head(q) \subseteq Ids(t)
    BY <1>3 DEF PartialRows
  <2>2. DOMAIN NoRows[t] = Ids(t)
    BY EnrollmentAssumption DEF Ids
  <2> QED BY <2>1, <2>2
<1>10. Reflected'
  <2>1. \A s \in Tables : \A i \in Ids(s) : ToBe(cache'[s], queue'[s], i, Memory'[s][i])
    BY <1>3, <1>4, <1>5, <1>6
  <2>2. ASSUME NEW s \in Tables \ writing', NEW i \in Ids(s)
        PROVE  Missed(s, i)' \/ disk'[s][i] = cache'[s][i]
    <3>1. CASE s = t /\ t \in writing
      <4>1. <<s, i>> \in lost
        BY <1>9, <3>1 DEF Rows
      <4> QED BY <1>1, <4>1 DEF Missed
    <3>2. CASE s = t /\ t \notin writing
      <4>1. i \in DOMAIN Head(q) => <<s, i>> \in lost
        BY <3>2
      <4>2. Missed(s, i) \/ disk[s][i] = cache[s][i]
        BY <1>5, <3>2
      <4> QED BY <1>1, <1>3, <3>2, <4>1, <4>2 DEF Missed
    <3>3. CASE s # t
      BY <1>1, <1>3, <1>5, <3>3 DEF Missed
    <3> QED BY <3>1, <3>2, <3>3
  <2> QED BY <1>1, <1>2, <2>1, <2>2 DEF Reflected
<1>11. lost \subseteq AllRows
  <2>1. \A r \in lost : \E i \in Ids(t) : r = <<t, i>>
    BY <1>9 DEF Rows
  <2> QED BY <2>1, RowIn
<1>12. missed' \subseteq AllRows /\ AllRows' = AllRows
  BY <1>1, <1>11 DEF StoreInv, AllRows, Rows
<1> QED BY <1>7, <1>8, <1>10, <1>12 DEF StoreInv

\* With the process, what is in memory counts no more, and the database may have
\* got a row.
LEMMA DeathInv ==
  ASSUME StoreInv, StoreDies, UNCHANGED <<tokens, creds, mints>>,
         DOMAIN disk' = Tables, \A t \in Tables : disk'[t] \in [Ids(t) -> Vals(t, Len(mints))]
  PROVE  StoreInv'
<1>1. /\ ~up' /\ UNCHANGED <<driver, torn, cache>> /\ queue' = [t \in Tables |-> <<>>]
      /\ writing' = {} /\ missed' = {}
  BY DEF StoreDies
<1>2. Memory' = Memory
  BY DEF Memory
<1>3. Shaped(disk', cache', queue', Memory', Len(mints'))
  BY <1>1, <1>2 DEF StoreInv, Shaped
<1>4. Queued' /\ Reflected'
  BY <1>1 DEF StoreInv, Queued, Reflected
<1> QED BY <1>1, <1>3, <1>4 DEF StoreInv

\* A table in memory at the start: the stored one, or none by a fault.
LEMMA Starts ==
  ASSUME EnrollmentStarts, driver \in Drivers, faults \in 0..MaxFaults[driver]
  PROVE  /\ ~up /\ up' /\ torn = {} /\ cache' = disk /\ life' = life + 1
         /\ UNCHANGED <<driver, disk, torn, writing, queue, expired, issued, mints>>
         /\ \A t \in Tables : \/ Memory'[t] = disk[t]
                              \/ Memory'[t] = NoRows[t] /\ driver = "sqlite" /\ faults' > faults
         /\ \A t \in Tables : Memory'[t] = disk[t] \/ \A i \in Ids(t) : Missed(t, i)'
         /\ missed' \subseteq AllRows
         /\ faults' \in 0..MaxFaults[driver] /\ faults' >= faults
<1>1. /\ ~up /\ torn = {} /\ up' /\ cache' = disk /\ life' = life + 1
      /\ UNCHANGED <<driver, disk, torn, writing, queue, expired, issued, mints>>
  BY DEF EnrollmentStarts, StoreStarts
<1>2. PICK unread \in SUBSET Tables :
        /\ unread # {} => driver = "sqlite"
        /\ FaultIf(unread # {})
        /\ missed' = UNION {Rows(t) : t \in unread}
        /\ tokens' = IF "enrollments" \in unread THEN NoRows["enrollments"] ELSE disk["enrollments"]
        /\ creds' = IF "credentials" \in unread THEN NoRows["credentials"] ELSE disk["credentials"]
  BY DEF EnrollmentStarts
<1>3. MaxFaults[driver] \in Nat
  BY StoreAssumption
<1>4. /\ faults' \in 0..MaxFaults[driver] /\ faults' >= faults
      /\ unread # {} => faults' > faults
  BY <1>2, <1>3 DEF FaultIf, Fault
<1>5. \A t \in Tables : Memory'[t] = IF t \in unread THEN NoRows[t] ELSE disk[t]
  <2>1. Memory' = [t \in Tables |-> IF t = "enrollments" THEN tokens' ELSE creds']
    BY DEF Memory
  <2>2. \A t \in Tables : t = "enrollments" \/ t = "credentials"
    BY EnrollmentAssumption
  <2> QED BY <1>2, <2>1, <2>2
<1>6. \A t \in Tables : t \in unread => \A i \in Ids(t) : Missed(t, i)'
  <2>1. \A t \in Tables : DOMAIN NoRows[t] = Ids(t)
    BY EnrollmentAssumption DEF Ids
  <2>2. \A t \in unread : \A i \in Ids(t) : <<t, i>> \in Rows(t)
    BY <2>1 DEF Rows
  <2>3. \A t \in unread : Rows(t) \subseteq missed'
    BY <1>2
  <2>4. \A t \in unread : \A i \in Ids(t) : <<t, i>> \in missed'
    BY <2>2, <2>3
  <2> QED BY <2>4 DEF Missed
<1>7. missed' \subseteq AllRows
  BY <1>2 DEF AllRows
<1>8. /\ \A t \in Tables : \/ Memory'[t] = disk[t]
                           \/ Memory'[t] = NoRows[t] /\ driver = "sqlite" /\ faults' > faults
      /\ \A t \in Tables : Memory'[t] = disk[t] \/ \A i \in Ids(t) : Missed(t, i)'
  BY <1>2, <1>4, <1>5, <1>6
<1> QED BY <1>1, <1>4, <1>7, <1>8

LEMMA StartInv ==
  ASSUME StoreInv, EnrollmentStarts, driver \in Drivers, faults \in 0..MaxFaults[driver],
         Len(mints) \in Nat
  PROVE  StoreInv'
<1>1. /\ ~up /\ up' /\ torn = {} /\ cache' = disk
      /\ UNCHANGED <<driver, disk, torn, writing, queue, mints>>
      /\ \A t \in Tables : \/ Memory'[t] = disk[t]
                           \/ Memory'[t] = NoRows[t] /\ driver = "sqlite"
      /\ \A t \in Tables : Memory'[t] = disk[t] \/ \A i \in Ids(t) : Missed(t, i)'
      /\ missed' \subseteq AllRows
  BY Starts
<1>2. \A t \in Tables : NoRows[t] \in [Ids(t) -> Vals(t, Len(mints))]
  BY EnrollmentAssumption DEF Ids, Vals
<1>3. Shaped(disk', cache', queue', Memory', Len(mints'))
  BY <1>1, <1>2 DEF StoreInv, Shaped
<1>4. Queued'
  BY <1>1 DEF StoreInv, Queued
<1>5. Reflected'
  <2>1. \A t \in Tables : queue'[t] = <<>>
    BY <1>1 DEF StoreInv, Queued
  <2>2. driver = "localjson" =>
          \A t \in Tables : \A i \in Ids(t) : ToBe(cache'[t], queue'[t], i, Memory'[t][i])
    BY <1>1, <2>1 DEF ToBe
  <2>3. \A t \in Tables : \A i \in Ids(t) : Missed(t, i)' \/ disk'[t][i] = Memory'[t][i]
    BY <1>1
  <2>4. \A t \in Tables : \A i \in Ids(t) : disk'[t][i] = cache'[t][i]
    BY <1>1
  <2> QED BY <1>1, <2>2, <2>3, <2>4 DEF Reflected
<1> QED BY <1>1, <1>3, <1>4, <1>5 DEF StoreInv, AllRows, Rows

-----------------------------------------------------------------------------
(* Enrollment as writes *)

Minting(l) == [node : NodeIds, token : Tokens, life : 0..l, taken : SUBSET Tables]

EnrollmentTypes ==
  /\ tokens \in [Tokens -> {"none", "unused", "used"}]
  /\ creds \in [NodeIds -> 0..Len(mints)]
  /\ expired \subseteq issued /\ issued \subseteq Tokens
  /\ mints \in Seq(Minting(life))
  /\ life \in Nat

LEMMA WritingBoth ==
  ASSUME NEW a, NEW b, NEW l, tokens' = Apply(tokens, a), creds' = Apply(creds, b),
         Persist(Writes(a, b)), a \in PartialRows("enrollments", l),
         b \in PartialRows("credentials", l)
  PROVE  /\ Writing(Writes(a, b))
         /\ \A t \in Tables : Writes(a, b)[t] \in PartialRows(t, l)
<1>1. \A t \in Tables : t = "enrollments" \/ t = "credentials"
  BY EnrollmentAssumption
<1>2. \A t \in Tables : Writes(a, b)[t] = IF t = "enrollments" THEN a ELSE b
  BY DEF Writes
<1>3. \A t \in Tables : Memory[t] = IF t = "enrollments" THEN tokens ELSE creds
  BY DEF Memory
<1>4. Memory' = [t \in Tables |-> IF t = "enrollments" THEN tokens' ELSE creds']
  BY DEF Memory
<1>5. Memory' = [t \in Tables |-> Apply(Memory[t], Writes(a, b)[t])]
  <2>1. \A t \in Tables : Apply(Memory[t], Writes(a, b)[t])
                          = IF t = "enrollments" THEN tokens' ELSE creds'
    BY <1>2, <1>3
  <2> QED BY <1>4, <2>1
<1>6. \A t \in Tables : Writes(a, b)[t] \in PartialRows(t, l)
  BY <1>1, <1>2
<1> QED BY <1>5, <1>6 DEF Writing

LEMMA ApplyNothing ==
  ASSUME NEW I, NEW V, NEW T \in [I -> V], NEW t, NEW l
  PROVE  Apply(T, Nothing) = T /\ Nothing \in PartialRows(t, l)
<1>1. Apply(T, Nothing) = T
  BY DEF Apply, Nothing
<1>2. Nothing \in [{} -> Vals(t, l)] /\ {} \in SUBSET Ids(t)
  BY DEF Nothing
<1>3. Nothing \in PartialRows(t, l)
  BY <1>2 DEF PartialRows
<1> QED BY <1>1, <1>3

LEMMA ApplyOne ==
  ASSUME NEW I, NEW V, NEW T \in [I -> V], NEW i \in I, NEW v
  PROVE  Apply(T, [k \in {i} |-> v]) = [T EXCEPT ![i] = v]
BY DEF Apply

\* What the three operations write: the tokens' rows, and for a grant a credential.
IssueRows(t) == [k \in {j \in expired : tokens[j] # "none"} \cup {t} |->
                   IF k = t THEN "unused" ELSE "none"]
RefuseRows(t) == [k \in {j \in {t} : j \in expired /\ tokens[j] # "none"} |-> "none"]
GrantRows(t) == [k \in {t} |-> "used"]
GrantWrites(t, n) == Writes(GrantRows(t), [i \in {n} |-> Len(mints) + 1])

LEMMA IssueWrites ==
  ASSUME EnrollmentTypes, NEW t \in Tokens, IssueToken(t)
  PROVE  /\ Writing(Writes(IssueRows(t), Nothing))
         /\ \A s \in Tables : Writes(IssueRows(t), Nothing)[s] \in PartialRows(s, Len(mints'))
<1> DEFINE swept == {k \in expired : tokens[k] # "none"}
           a == IssueRows(t)
<1>1. tokens' = Apply(tokens, a) /\ Persist(Writes(a, Nothing)) /\ UNCHANGED <<creds, mints>>
  BY DEF IssueToken, IssueRows
<1>2. a \in PartialRows("enrollments", Len(mints'))
  <2>1. swept \cup {t} \in SUBSET Ids("enrollments")
    BY DEF EnrollmentTypes, Ids
  <2>2. a \in [swept \cup {t} -> Vals("enrollments", Len(mints'))]
    BY DEF Vals, IssueRows
  <2> HIDE DEF a, swept
  <2> QED BY <2>1, <2>2 DEF PartialRows
<1>3. creds' = Apply(creds, Nothing) /\ Nothing \in PartialRows("credentials", Len(mints'))
  BY <1>1, ApplyNothing DEF EnrollmentTypes
<1>4. ASSUME NEW b, b = a
      PROVE  /\ Writing(Writes(b, Nothing))
             /\ \A s \in Tables : Writes(b, Nothing)[s] \in PartialRows(s, Len(mints'))
  BY <1>1, <1>2, <1>3, <1>4, WritingBoth
<1> QED BY <1>4

LEMMA RefusesWrites ==
  ASSUME EnrollmentTypes, NEW t \in Tokens, NEW n \in NodeIds, Refuses(t, n)
  PROVE  /\ Writing(Writes(RefuseRows(t), Nothing))
         /\ \A s \in Tables : Writes(RefuseRows(t), Nothing)[s] \in PartialRows(s, Len(mints'))
<1> DEFINE gone == {k \in {t} : k \in expired /\ tokens[k] # "none"}
           a == RefuseRows(t)
<1>1. tokens' = Apply(tokens, a) /\ Persist(Writes(a, Nothing)) /\ UNCHANGED <<creds, mints>>
  BY DEF Refuses, RefuseRows
<1>2. a \in PartialRows("enrollments", Len(mints'))
  <2>1. gone \in SUBSET Ids("enrollments")
    BY DEF EnrollmentTypes, Ids
  <2>2. a \in [gone -> Vals("enrollments", Len(mints'))]
    BY DEF Vals, RefuseRows
  <2> HIDE DEF a, gone
  <2> QED BY <2>1, <2>2 DEF PartialRows
<1>3. creds' = Apply(creds, Nothing) /\ Nothing \in PartialRows("credentials", Len(mints'))
  BY <1>1, ApplyNothing DEF EnrollmentTypes
<1>4. ASSUME NEW b, b = a
      PROVE  /\ Writing(Writes(b, Nothing))
             /\ \A s \in Tables : Writes(b, Nothing)[s] \in PartialRows(s, Len(mints'))
  BY <1>1, <1>2, <1>3, <1>4, WritingBoth
<1> QED BY <1>4

\* A mint names the rows that the database has taken, which it is not missing.
LEMMA GrantsWrites ==
  ASSUME EnrollmentTypes, NEW t \in Tokens, NEW n \in NodeIds, Grants(t, n)
  PROVE  /\ Writing(GrantWrites(t, n))
         /\ \A s \in Tables : GrantWrites(t, n)[s] \in PartialRows(s, Len(mints'))
         /\ Len(mints) \in Nat /\ Len(mints') = Len(mints) + 1
         /\ \A i \in 1..Len(mints) : mints'[i] = mints[i]
         /\ mints' \in Seq(Minting(life))
         /\ LET r == mints'[Len(mints) + 1]
            IN  /\ r.node = n /\ r.token = t /\ r.life = life
                /\ "enrollments" \in r.taken => ~ Missed("enrollments", t)'
                /\ "credentials" \in r.taken => ~ Missed("credentials", n)'
         /\ tokens' = [tokens EXCEPT ![t] = "used"]
         /\ creds' = [creds EXCEPT ![n] = Len(mints')]
<1> DEFINE c == Len(mints) + 1
           a == GrantRows(t)
           b == [i \in {n} |-> c]
<1>1. /\ tokens' = [tokens EXCEPT ![t] = "used"] /\ creds' = [creds EXCEPT ![n] = c]
      /\ Persist(Writes(a, b)) /\ mints' = Append(mints, Mint(t, n))
  BY DEF Grants, GrantRows
<1>2. /\ Mint(t, n) \in Minting(life)
      /\ Mint(t, n).node = n /\ Mint(t, n).token = t /\ Mint(t, n).life = life
      /\ "enrollments" \in Mint(t, n).taken => ~ Missed("enrollments", t)'
      /\ "credentials" \in Mint(t, n).taken => ~ Missed("credentials", n)'
  BY DEF Mint, Minting, EnrollmentTypes, Missed
<1>3. /\ Len(mints) \in Nat /\ Len(mints') = Len(mints) + 1
      /\ \A i \in 1..Len(mints) : mints'[i] = mints[i]
      /\ mints'[Len(mints) + 1] = Mint(t, n)
      /\ mints' \in Seq(Minting(life))
  <2>1. ASSUME NEW r, r \in Minting(life), mints' = Append(mints, r)
        PROVE  /\ Len(mints) \in Nat /\ Len(mints') = Len(mints) + 1
               /\ \A i \in 1..Len(mints) : mints'[i] = mints[i]
               /\ mints'[Len(mints) + 1] = r
               /\ mints' \in Seq(Minting(life))
    BY <2>1 DEF EnrollmentTypes
  <2> QED BY <1>1, <1>2, <2>1
<1>4. a \in PartialRows("enrollments", Len(mints'))
  <2>1. {t} \in SUBSET Ids("enrollments") /\ a \in [{t} -> Vals("enrollments", Len(mints'))]
    BY DEF Ids, Vals, GrantRows
  <2> HIDE DEF a
  <2> QED BY <2>1 DEF PartialRows
<1>5. b \in PartialRows("credentials", Len(mints'))
  <2>1. {n} \in SUBSET Ids("credentials") /\ b \in [{n} -> Vals("credentials", Len(mints'))]
    BY <1>3 DEF Ids, Vals
  <2> HIDE DEF b
  <2> QED BY <2>1 DEF PartialRows
<1>6. tokens' = Apply(tokens, a) /\ creds' = Apply(creds, b)
  <2>1. Apply(tokens, a) = [tokens EXCEPT ![t] = "used"]
    BY DEF Apply, EnrollmentTypes, GrantRows
  <2>2. Apply(creds, b) = [creds EXCEPT ![n] = c]
    BY DEF Apply, EnrollmentTypes
  <2> QED BY <1>1, <2>1, <2>2
<1>7. /\ Writing(GrantWrites(t, n))
      /\ \A s \in Tables : GrantWrites(t, n)[s] \in PartialRows(s, Len(mints'))
  <2>1. GrantWrites(t, n) = Writes(a, b)
    BY DEF GrantWrites
  <2>2. ASSUME NEW x, NEW y, x = a, y = b
        PROVE  /\ Writing(Writes(x, y))
               /\ \A s \in Tables : Writes(x, y)[s] \in PartialRows(s, Len(mints'))
    BY <1>1, <1>4, <1>5, <1>6, <2>2, WritingBoth
  <2> HIDE DEF a, b
  <2> QED BY <2>1, <2>2
<1> QED BY <1>1, <1>2, <1>3, <1>7

-----------------------------------------------------------------------------
(* The inductive invariant *)

BundleTypes ==
  /\ registered \in Builds \cup {NoBuild} /\ putting \in Builds \cup {NoBuild}
  /\ file \in Builds \cup {NoBuild, TornBuild}
  /\ accepted \subseteq Builds

\* What the machines have and how far their bootstraps are, with l credentials.
BootRecords(l) == [step : Steps, token : Tokens \cup {"none"},
                   build : Builds \cup {NoBuild}, cred : 0..l]
MachineTypes ==
  /\ boot \in [Machines -> BootRecords(Len(mints))]
  /\ outcome \in [Machines -> {"none", "failed", "onboarded"}]
  /\ current \in [Machines -> Builds \cup {NoBuild, TornBuild}]
  /\ service \subseteq Machines
  /\ identity \in [Machines -> 0..Len(mints)] /\ running \in [Machines -> 0..Len(mints)]
  /\ runs \in [Machines -> Nat]
  /\ \A m \in Machines : boot[m].step # "idle" => boot[m].token \in issued

Types ==
  /\ driver \in Drivers /\ up \in BOOLEAN /\ faults \in 0..MaxFaults[driver]
  /\ EnrollmentTypes /\ BundleTypes /\ MachineTypes

\* A token with which a credential was minted was issued, and is used up or gone:
\* in memory for as long as the process that minted it runs, and for ever with a
\* database that has taken the use of it.
UsedUp ==
  \A i \in 1..Len(mints) :
    LET t == mints[i].token
    IN  /\ t \in issued
        /\ mints[i].life = life => tokens[t] # "unused"
        /\ driver = "sqlite" /\ "enrollments" \in mints[i].taken =>
             disk["enrollments"][t] # "unused" /\ (up => tokens[t] # "unused")

TokenInv == UsedUp /\ TokenEnrollsOnce

\* Of the credentials minted for n none that the database has taken is later than c.
Latest(c, n) == \A i \in MintedFor(n) : "credentials" \in mints[i].taken => i <= c

CredInv ==
  driver = "sqlite" => \A n \in NodeIds : /\ disk["credentials"][n] \in MintedFor(n) \cup {0}
                                          /\ up => creds[n] \in MintedFor(n) \cup {0}
                                          /\ Latest(disk["credentials"][n], n)

\* A bootstrap asks for a build that was registered and keeps one that it trusts.
CodeInv ==
  /\ registered # NoBuild => registered \in accepted
  /\ PlaneChecks => accepted \subseteq Signed /\ (putting # NoBuild => putting \in Signed)
  /\ \A m \in Machines : /\ boot[m].step \in {"download", "extract"} => boot[m].build \in accepted
                         /\ boot[m].step = "extract" /\ NodesCheck => boot[m].build \in Signed
  /\ CodeIsPublished

IInv == Types /\ StoreInv /\ TokenInv /\ CredInv /\ CodeInv

LEMMA InvTypes == Types /\ StoreInv => TypeOK
<1> SUFFICES ASSUME Types, StoreInv PROVE TypeOK
  OBVIOUS
<1>1. "enrollments" \in Tables /\ "credentials" \in Tables
  BY EnrollmentAssumption
<1>2. \A T \in {disk, cache} : /\ T["enrollments"] \in [Tokens -> {"none", "unused", "used"}]
                               /\ T["credentials"] \in [NodeIds -> 0..Len(mints)]
  BY <1>1 DEF StoreInv, Shaped, Ids, Vals
<1>3. torn \subseteq Tables /\ writing \subseteq torn /\ missed \subseteq UNION {Rows(t) : t \in Tables}
  BY DEF StoreInv, Queued, AllRows
<1> QED BY <1>2, <1>3 DEF Types, EnrollmentTypes, BundleTypes, MachineTypes, BootRecords, TypeOK,
       Minting

LEMMA InitInv == Init => IInv
<1> SUFFICES ASSUME Init PROVE IInv
  OBVIOUS
<1> USE DEF Init, StoreInit, EnrollmentInit, BundlesInit
<1>1. Len(mints) = 0 /\ mints = <<>>
  OBVIOUS
<1>2. NoRows = [t \in Tables |-> IF t = "enrollments" THEN [k \in Tokens |-> "none"]
                                                      ELSE [n \in NodeIds |-> 0]]
  BY EnrollmentAssumption
<1>3. Tables = {"enrollments", "credentials"}
  BY EnrollmentAssumption
<1>4. Memory = NoRows
  BY <1>2, <1>3 DEF Memory
<1>5. Types
  <2>1. EnrollmentTypes
    BY <1>1, <1>2, <1>3 DEF EnrollmentTypes
  <2>4. faults \in 0..MaxFaults[driver]
    BY StoreAssumption
  <2>2. BundleTypes
    BY DEF BundleTypes
  <2>3. MachineTypes
    BY <1>1 DEF MachineTypes, BootRecords, Idle, Steps
  <2> QED BY <2>1, <2>2, <2>3, <2>4 DEF Types
<1>6. StoreInv
  <2>1. Shaped(disk, cache, queue, Memory, Len(mints))
    <3>1. \A t \in Tables : NoRows[t] \in [Ids(t) -> Vals(t, Len(mints))]
      BY <1>1, <1>2, <1>3 DEF Ids, Vals
    <3>2. \A t \in Tables : queue[t] \in Seq(PartialRows(t, Len(mints)))
      <4>1. \A t \in Tables : queue[t] = <<>>
        OBVIOUS
      <4>2. \A S : <<>> \in Seq(S)
        OBVIOUS
      <4> QED BY <4>1, <4>2
    <3>3. DOMAIN NoRows = Tables /\ DOMAIN queue = Tables
      BY <1>2
    <3> QED BY <1>4, <3>1, <3>2, <3>3 DEF Shaped
  <2>2. Queued
    BY DEF Queued
  <2>3. Reflected
    BY <1>4 DEF Reflected, ToBe
  <2> QED BY <2>1, <2>2, <2>3 DEF StoreInv
<1>7. TokenInv
  BY <1>1 DEF TokenInv, UsedUp, TokenEnrollsOnce, Minted
<1>8. CredInv
  <2>1. \A n \in NodeIds : MintedFor(n) = {} /\ creds[n] = 0 /\ disk["credentials"][n] = 0
    BY <1>1, <1>2, <1>3 DEF MintedFor
  <2> QED BY <2>1 DEF CredInv, Latest
<1>9. CodeInv
  BY BundlesAssumption DEF CodeInv, CodeIsPublished, Idle
<1> QED BY <1>5, <1>6, <1>7, <1>8, <1>9 DEF IInv

-----------------------------------------------------------------------------
(* Steps of a machine that leave enrollment and the store alone *)

\* All but the requests to enroll.
LocalStep(m) ==
  \/ \E t \in Tokens : Begin(m, t)
  \/ FetchManifest(m) \/ Download(m) \/ Extract(m) \/ InstallService(m)
  \/ PersistIdentity(m) \/ StartService(m)
  \/ BootstrapDies(m) \/ SupervisorStarts(m) \/ SupervisorDies(m)

\* A step of the bootstrap to a given record.
LEMMA BootType ==
  ASSUME MachineTypes, NEW m \in Machines, NEW r \in BootRecords(Len(mints)),
         boot' = [boot EXCEPT ![m] = r], mints' = mints, issued' = issued,
         r.step # "idle" => r.token \in issued
  PROVE  /\ boot' \in [Machines -> BootRecords(Len(mints'))]
         /\ \A k \in Machines : boot'[k].step # "idle" => boot'[k].token \in issued'
BY DEF MachineTypes

LEMMA IdleType == \A l \in Nat : Idle \in BootRecords(l)
BY DEF Idle, BootRecords, Steps

LEMMA GoesType ==
  ASSUME MachineTypes, NEW m \in Machines, NEW step \in Steps, NEW b \in Builds \cup {NoBuild},
         boot[m].step # "idle", mints' = mints, issued' = issued,
         \/ boot' = [boot EXCEPT ![m].step = step]
         \/ boot' = [boot EXCEPT ![m].step = step, ![m].build = b]
  PROVE  /\ boot' \in [Machines -> BootRecords(Len(mints'))]
         /\ \A k \in Machines : boot'[k].step # "idle" => boot'[k].token \in issued'
<1>1. boot[m] \in BootRecords(Len(mints)) /\ boot[m].token \in issued
  BY DEF MachineTypes
<1>2. CASE boot' = [boot EXCEPT ![m].step = step]
  <2> DEFINE r == [boot[m] EXCEPT !.step = step]
  <2>1. r \in BootRecords(Len(mints)) /\ r.token \in issued
    BY <1>1 DEF BootRecords
  <2>2. boot' = [boot EXCEPT ![m] = r]
    BY <1>2
  <2> HIDE DEF r
  <2> QED BY <2>1, <2>2, BootType
<1>3. CASE boot' = [boot EXCEPT ![m].step = step, ![m].build = b]
  <2> DEFINE r == [boot[m] EXCEPT !.step = step, !.build = b]
  <2>1. r \in BootRecords(Len(mints)) /\ r.token \in issued
    BY <1>1 DEF BootRecords
  <2>2. boot' = [boot EXCEPT ![m] = r]
    BY <1>3
  <2> HIDE DEF r
  <2> QED BY <2>1, <2>2, BootType
<1> QED BY <1>2, <1>3

LEMMA EndsType ==
  ASSUME MachineTypes, Len(mints) \in Nat, NEW m \in Machines,
         NEW how \in {"none", "failed", "onboarded"}, Ends(m, how), mints' = mints,
         issued' = issued
  PROVE  /\ boot' \in [Machines -> BootRecords(Len(mints'))]
         /\ \A k \in Machines : boot'[k].step # "idle" => boot'[k].token \in issued'
         /\ outcome' \in [Machines -> {"none", "failed", "onboarded"}]
<1>1. Idle \in BootRecords(Len(mints)) /\ Idle.step = "idle" /\ boot' = [boot EXCEPT ![m] = Idle]
  BY IdleType DEF Ends, Idle
<1>2. outcome' \in [Machines -> {"none", "failed", "onboarded"}]
  BY DEF MachineTypes, Ends
<1> QED BY <1>1, <1>2, BootType

LEMMA LocalTypes ==
  ASSUME Types, NEW m \in Machines, LocalStep(m)
  PROVE  MachineTypes'
<1> USE DEF enrollment, Rest, At
<1>1. Len(mints) \in Nat /\ mints' = mints /\ issued' = issued
  <2>1. Len(mints) \in Nat
    BY DEF Types, EnrollmentTypes
  <2>2. mints' = mints /\ issued' = issued
    BY DEF LocalStep, Begin, FetchManifest, Download, Extract, InstallService, PersistIdentity,
           StartService, BootstrapDies, SupervisorStarts, SupervisorDies
  <2> QED BY <2>1, <2>2
<1>2. MachineTypes /\ BundleTypes
  BY DEF Types
<1>3. ASSUME NEW t \in Tokens, Begin(m, t)
      PROVE  MachineTypes'
  <2> DEFINE r == [Idle EXCEPT !.step = "manifest", !.token = t]
  <2>1. r \in BootRecords(Len(mints)) /\ r.token \in issued
    <3>1. Idle \in BootRecords(Len(mints))
      BY <1>1, IdleType
    <3>2. r \in BootRecords(Len(mints))
      BY <3>1 DEF BootRecords, Steps
    <3>3. r.token = t /\ t \in issued
      BY <1>3, <3>1 DEF Begin, BootRecords
    <3> QED BY <3>2, <3>3
  <2>2. boot' = [boot EXCEPT ![m] = r]
    BY <1>3 DEF Begin
  <2>3. /\ boot' \in [Machines -> BootRecords(Len(mints'))]
        /\ \A k \in Machines : boot'[k].step # "idle" => boot'[k].token \in issued'
    <3> HIDE DEF r
    <3> QED BY <1>1, <1>2, <2>1, <2>2, BootType
  <2>4. runs' \in [Machines -> Nat]
    BY <1>2, <1>3 DEF Begin, MachineTypes
  <2> QED BY <1>1, <1>2, <1>3, <2>3, <2>4 DEF Begin, MachineTypes
<1>4. CASE FetchManifest(m) \/ Download(m)
  <2>1. boot[m].step # "idle"
    BY <1>4 DEF FetchManifest, Download
  <2>2. \/ boot' = [boot EXCEPT ![m].step = "extract"] /\ outcome' = outcome
        \/ /\ boot' = [boot EXCEPT ![m].step = "download", ![m].build = registered]
           /\ outcome' = outcome
        \/ Ends(m, "failed")
    BY <1>4 DEF FetchManifest, Download, Goes
  <2>3. UNCHANGED <<current, service, identity, running, runs>>
    BY <1>4 DEF FetchManifest, Download
  <2>4. /\ boot' \in [Machines -> BootRecords(Len(mints'))]
        /\ \A k \in Machines : boot'[k].step # "idle" => boot'[k].token \in issued'
        /\ outcome' \in [Machines -> {"none", "failed", "onboarded"}]
    <3>1. CASE boot' = [boot EXCEPT ![m].step = "extract"] /\ outcome' = outcome
      <4>1. "extract" \in Steps /\ NoBuild \in Builds \cup {NoBuild}
        BY DEF Steps
      <4> QED BY <1>1, <1>2, <2>1, <3>1, <4>1, GoesType DEF MachineTypes
    <3>2. CASE /\ boot' = [boot EXCEPT ![m].step = "download", ![m].build = registered]
               /\ outcome' = outcome
      <4>1. "download" \in Steps /\ registered \in Builds \cup {NoBuild}
        BY <1>2 DEF Steps, BundleTypes
      <4> QED BY <1>1, <1>2, <2>1, <3>2, <4>1, GoesType DEF MachineTypes
    <3>3. CASE Ends(m, "failed")
      BY <1>1, <1>2, <3>3, EndsType
    <3> QED BY <2>2, <3>1, <3>2, <3>3
  <2> QED BY <1>1, <1>2, <2>3, <2>4 DEF MachineTypes
<1>5. CASE Extract(m) \/ InstallService(m) \/ PersistIdentity(m)
  <2>1. PICK step \in Steps : boot' = [boot EXCEPT ![m].step = step] /\ boot[m].step # "idle"
    BY <1>5 DEF Extract, InstallService, PersistIdentity, Goes, Steps
  <2>2. boot[m].build \in Builds \cup {NoBuild} /\ boot[m].cred \in 0..Len(mints)
    BY <1>2 DEF MachineTypes, BootRecords
  <2>3. /\ boot' \in [Machines -> BootRecords(Len(mints'))]
        /\ \A k \in Machines : boot'[k].step # "idle" => boot'[k].token \in issued'
    BY <1>1, <1>2, <2>1, GoesType
  <2>4. current' \in [Machines -> Builds \cup {NoBuild, TornBuild}]
    BY <1>2, <1>5, <2>2 DEF Extract, InstallService, PersistIdentity, MachineTypes
  <2>5. identity' \in [Machines -> 0..Len(mints)] /\ service' \subseteq Machines
    BY <1>2, <1>5, <2>2 DEF Extract, InstallService, PersistIdentity, MachineTypes
  <2>6. UNCHANGED <<outcome, running, runs>>
    BY <1>5 DEF Extract, InstallService, PersistIdentity
  <2> QED BY <1>1, <1>2, <2>3, <2>4, <2>5, <2>6 DEF MachineTypes
<1>6. CASE StartService(m) \/ BootstrapDies(m)
  <2>1. \E how \in {"none", "failed", "onboarded"} : Ends(m, how)
    BY <1>6 DEF StartService, BootstrapDies
  <2>2. /\ boot' \in [Machines -> BootRecords(Len(mints'))]
        /\ \A k \in Machines : boot'[k].step # "idle" => boot'[k].token \in issued'
        /\ outcome' \in [Machines -> {"none", "failed", "onboarded"}]
    BY <1>1, <1>2, <2>1, EndsType
  <2>3. current' \in [Machines -> Builds \cup {NoBuild, TornBuild}]
    BY <1>2, <1>6 DEF StartService, BootstrapDies, MachineTypes
  <2>4. identity' \in [Machines -> 0..Len(mints)]
    <3>1. 0 \in 0..Len(mints)
      BY <1>1
    <3> QED BY <1>2, <1>6, <3>1 DEF StartService, BootstrapDies, MachineTypes
  <2>6. running' \in [Machines -> 0..Len(mints)]
    BY <1>2, <1>6 DEF StartService, BootstrapDies, MachineTypes
  <2>5. UNCHANGED <<service, runs>>
    BY <1>6 DEF StartService, BootstrapDies
  <2> QED BY <1>1, <1>2, <2>2, <2>3, <2>4, <2>5, <2>6 DEF MachineTypes
<1>7. CASE SupervisorStarts(m) \/ SupervisorDies(m)
  <2>1. running' \in [Machines -> 0..Len(mints)]
    BY <1>1, <1>2, <1>7 DEF SupervisorStarts, SupervisorDies, MachineTypes
  <2>2. UNCHANGED <<boot, outcome, current, service, identity, runs>>
    BY <1>7 DEF SupervisorStarts, SupervisorDies
  <2> QED BY <1>1, <1>2, <2>1, <2>2 DEF MachineTypes
<1> QED BY <1>3, <1>4, <1>5, <1>6, <1>7 DEF LocalStep

LEMMA LocalCode ==
  ASSUME Types, CodeInv, NEW m \in Machines, LocalStep(m)
  PROVE  CodeInv'
<1> USE DEF Rest, At, bundles
<1>1. \A k \in Machines : boot[k] = [step |-> boot[k].step, token |-> boot[k].token,
                                     build |-> boot[k].build, cred |-> boot[k].cred]
  BY DEF Types, MachineTypes, BootRecords
<1>2. DOMAIN boot = Machines /\ DOMAIN current = Machines
  BY DEF Types, MachineTypes
<1>3. UNCHANGED <<registered, putting, accepted>>
  BY DEF LocalStep, Begin, FetchManifest, Download, Extract, InstallService, PersistIdentity,
         StartService, BootstrapDies, SupervisorStarts, SupervisorDies
<1>4. /\ registered' # NoBuild => registered' \in accepted'
      /\ PlaneChecks => accepted' \subseteq Signed /\ (putting' # NoBuild => putting' \in Signed)
  BY <1>3 DEF CodeInv
<1>5. ASSUME NEW k \in Machines
      PROVE  /\ boot'[k].step \in {"download", "extract"} => boot'[k].build \in accepted
             /\ boot'[k].step = "extract" /\ NodesCheck => boot'[k].build \in Signed
  <2>1. CASE \E t \in Tokens : Begin(m, t)
    BY <1>2, <2>1 DEF Begin, Idle, CodeInv
  <2>2. CASE FetchManifest(m)
    BY <1>1, <1>2, <2>2 DEF FetchManifest, Ends, Idle, CodeInv
  <2>3. CASE Download(m)
    BY <1>1, <1>2, <2>3 DEF Download, Goes, Ends, Idle, CodeInv
  <2>4. CASE Extract(m) \/ InstallService(m) \/ PersistIdentity(m)
    BY <1>1, <1>2, <2>4 DEF Extract, InstallService, PersistIdentity, Goes, CodeInv
  <2>5. CASE StartService(m) \/ BootstrapDies(m)
    BY <1>2, <2>5 DEF StartService, BootstrapDies, Ends, Idle, CodeInv
  <2>6. CASE SupervisorStarts(m) \/ SupervisorDies(m)
    BY <2>6 DEF SupervisorStarts, SupervisorDies, CodeInv
  <2> QED BY <2>1, <2>2, <2>3, <2>4, <2>5, <2>6 DEF LocalStep
<1>6. CodeIsPublished'
  <2>1. CASE Extract(m)
    <3>1. boot[m].build \in accepted /\ (NodesCheck => boot[m].build \in Signed)
      BY <2>1 DEF Extract, CodeInv
    <3>2. current' = [current EXCEPT ![m] = boot[m].build]
      BY <2>1 DEF Extract
    <3> QED BY <1>2, <1>3, <3>1, <3>2 DEF CodeInv, CodeIsPublished
  <2>2. CASE BootstrapDies(m)
    <3>1. current' = current \/ current' = [current EXCEPT ![m] = TornBuild]
      BY <2>2 DEF BootstrapDies
    <3> QED BY <1>2, <1>3, <3>1, BundlesAssumption DEF CodeInv, CodeIsPublished
  <2>3. CASE current' = current
    BY <1>3, <2>3 DEF CodeInv, CodeIsPublished
  <2> QED BY <2>1, <2>2, <2>3 DEF LocalStep, Begin, FetchManifest, Download, InstallService,
             PersistIdentity, StartService, SupervisorStarts, SupervisorDies
<1> QED BY <1>3, <1>4, <1>5, <1>6 DEF CodeInv

-----------------------------------------------------------------------------
(* What becomes of the tokens and the credentials *)

LEMMA MintType ==
  ASSUME EnrollmentTypes
  PROVE  \A i \in 1..Len(mints) : /\ mints[i].node \in NodeIds /\ mints[i].token \in Tokens
                                  /\ mints[i].life \in Nat /\ mints[i].life <= life
<1>1. mints \in Seq(Minting(life)) /\ life \in Nat
  BY DEF EnrollmentTypes
<1>2. \A i \in 1..Len(mints) : mints[i] \in Minting(life)
  BY <1>1
<1> QED BY <1>1, <1>2 DEF Minting

\* The tokens and credentials stay used up when nothing is minted: only a token
\* that had not been issued becomes unused, in the database or in memory, and
\* memory keeps what it has or gets what the database has, or nothing.
LEMMA NothingMinted ==
  ASSUME TokenInv, CredInv, Types, UNCHANGED <<mints, driver>>, issued \subseteq issued',
         life' = life \/ life' = life + 1,
         life' = life => \A t \in issued : tokens'[t] # "unused" \/ tokens'[t] = tokens[t],
         driver = "sqlite" =>
           /\ \A t \in issued : /\ \/ disk'["enrollments"][t] # "unused"
                                   \/ disk'["enrollments"][t] = disk["enrollments"][t]
                                /\ up' => \/ tokens'[t] # "unused"
                                          \/ up /\ tokens'[t] = tokens[t]
                                          \/ tokens'[t] = disk["enrollments"][t]
           /\ \A n \in NodeIds :
                /\ disk'["credentials"][n] = disk["credentials"][n]
                /\ up' => \/ up /\ creds'[n] = creds[n]
                          \/ creds'[n] \in {0, disk["credentials"][n]}
  PROVE  TokenInv' /\ CredInv'
<1>1. life \in Nat /\ \A i \in 1..Len(mints) : mints[i].life \in Nat /\ mints[i].life <= life
  BY MintType DEF Types, EnrollmentTypes
<1>2. UsedUp'
  <2>1. ASSUME NEW i \in 1..Len(mints)
        PROVE  LET t == mints[i].token
               IN  /\ t \in issued'
                   /\ mints[i].life = life' => tokens'[t] # "unused"
                   /\ driver = "sqlite" /\ "enrollments" \in mints[i].taken =>
                        disk'["enrollments"][t] # "unused" /\ (up' => tokens'[t] # "unused")
    <3> DEFINE t == mints[i].token
    <3>1. /\ t \in issued
          /\ mints[i].life = life => tokens[t] # "unused"
          /\ driver = "sqlite" /\ "enrollments" \in mints[i].taken =>
               disk["enrollments"][t] # "unused" /\ (up => tokens[t] # "unused")
      BY DEF TokenInv, UsedUp
    <3> HIDE DEF t
    <3>2. mints[i].life = life' => tokens'[t] # "unused"
      BY <1>1, <3>1
    <3>3. driver = "sqlite" /\ "enrollments" \in mints[i].taken =>
            disk'["enrollments"][t] # "unused" /\ (up' => tokens'[t] # "unused")
      BY <3>1
    <3> QED BY <3>1, <3>2, <3>3 DEF t
  <2> QED BY <2>1 DEF UsedUp
<1>3. TokenEnrollsOnce'
  BY DEF TokenInv, TokenEnrollsOnce, Minted
<1>4. CredInv'
  BY DEF CredInv, Latest, MintedFor
<1> QED BY <1>2, <1>3, <1>4 DEF TokenInv

\* What the database has of a grant, and what it had of everything else.
LEMMA GrantGoes ==
  ASSUME NEW t \in Tokens, NEW n \in NodeIds, EnrollmentTypes,
         \A s \in Tables : \A i \in Ids(s) : RowGoes(GrantWrites(t, n), s, i)
  PROVE  /\ \A k \in Tokens :
              \/ disk'["enrollments"][k] = disk["enrollments"][k]
                   /\ (k = t => Missed("enrollments", t)')
              \/ k = t /\ disk'["enrollments"][k] = "used"
         /\ \A k \in NodeIds :
              \/ disk'["credentials"][k] = disk["credentials"][k]
                   /\ (k = n => Missed("credentials", n)')
              \/ k = n /\ disk'["credentials"][k] = Len(mints) + 1
<1>1. "enrollments" \in Tables /\ "credentials" \in Tables /\ "enrollments" # "credentials"
  BY EnrollmentAssumption
<1>2. /\ GrantWrites(t, n)["enrollments"] = GrantRows(t)
      /\ GrantWrites(t, n)["credentials"] = [i \in {n} |-> Len(mints) + 1]
      /\ Ids("enrollments") = Tokens /\ Ids("credentials") = NodeIds
  BY <1>1 DEF GrantWrites, Writes, Ids
<1>3. /\ DOMAIN GrantRows(t) = {t} /\ GrantRows(t)[t] = "used"
      /\ DOMAIN [i \in {n} |-> Len(mints) + 1] = {n} /\ [i \in {n} |-> Len(mints) + 1][n] = Len(mints) + 1
  BY DEF GrantRows
<1>4. \A k \in Tokens : RowGoes(GrantWrites(t, n), "enrollments", k)
  BY <1>1, <1>2
<1>5. \A k \in NodeIds : RowGoes(GrantWrites(t, n), "credentials", k)
  BY <1>1, <1>2
<1>6. ASSUME NEW k \in Tokens
      PROVE  \/ disk'["enrollments"][k] = disk["enrollments"][k]
                  /\ (k = t => Missed("enrollments", t)')
             \/ k = t /\ disk'["enrollments"][k] = "used"
  BY <1>2, <1>3, <1>4 DEF RowGoes
<1>7. ASSUME NEW k \in NodeIds
      PROVE  \/ disk'["credentials"][k] = disk["credentials"][k]
                  /\ (k = n => Missed("credentials", n)')
             \/ k = n /\ disk'["credentials"][k] = Len(mints) + 1
  BY <1>2, <1>3, <1>5 DEF RowGoes
<1> QED BY <1>6, <1>7

\* The token that a credential is minted with was unused, unless it is reusable.
LEMMA OneMinted ==
  ASSUME TokenInv, CredInv, Types, up, up', UNCHANGED <<driver, life, issued>>,
         NEW t \in issued, NEW n \in NodeIds, Grants(t, n),
         driver = "sqlite" => \A s \in Tables : \A i \in Ids(s) : RowGoes(GrantWrites(t, n), s, i)
  PROVE  TokenInv' /\ CredInv'
<1> DEFINE L == Len(mints)
           new == mints'[L + 1]
<1>1. t \in Tokens /\ EnrollmentTypes
  BY DEF Types, EnrollmentTypes
<1>2. /\ L \in Nat /\ Len(mints') = L + 1
      /\ \A i \in 1..L : mints'[i] = mints[i]
      /\ new.node = n /\ new.token = t /\ new.life = life
      /\ "enrollments" \in new.taken => ~ Missed("enrollments", t)'
      /\ "credentials" \in new.taken => ~ Missed("credentials", n)'
      /\ tokens' = [tokens EXCEPT ![t] = "used"]
      /\ creds' = [creds EXCEPT ![n] = L + 1]
  BY <1>1, GrantsWrites
<1>3. /\ tokens \in [Tokens -> {"none", "unused", "used"}]
      /\ creds \in [NodeIds -> 0..L]
      /\ \A i \in 1..L : mints[i].node \in NodeIds /\ mints[i].token \in Tokens
      /\ issued \subseteq Tokens
  BY <1>1, MintType DEF EnrollmentTypes
<1>4. Valid(t, n)
  BY DEF Grants
<1>5. driver = "sqlite" =>
        /\ \A k \in Tokens :
             \/ disk'["enrollments"][k] = disk["enrollments"][k]
                  /\ (k = t => Missed("enrollments", t)')
             \/ k = t /\ disk'["enrollments"][k] = "used"
        /\ \A k \in NodeIds :
             \/ disk'["credentials"][k] = disk["credentials"][k]
                  /\ (k = n => Missed("credentials", n)')
             \/ k = n /\ disk'["credentials"][k] = L + 1
  BY <1>1, GrantGoes
<1>6. \A k \in Tokens : tokens'[k] = IF k = t THEN "used" ELSE tokens[k]
  BY <1>1, <1>2, <1>3
<1>7. \A k \in NodeIds : creds'[k] = IF k = n THEN L + 1 ELSE creds[k]
  BY <1>2, <1>3
<1>8. \A i \in 1..L : LET k == mints[i].token
                      IN  /\ k \in issued
                          /\ mints[i].life = life => tokens[k] # "unused"
                          /\ driver = "sqlite" /\ "enrollments" \in mints[i].taken =>
                               disk["enrollments"][k] # "unused" /\ tokens[k] # "unused"
  BY DEF TokenInv, UsedUp
<1> HIDE DEF L, new
<1>9. UsedUp'
  <2>1. ASSUME NEW i \in 1..(L + 1)
        PROVE  LET k == mints'[i].token
               IN  /\ k \in issued'
                   /\ mints'[i].life = life' => tokens'[k] # "unused"
                   /\ driver' = "sqlite" /\ "enrollments" \in mints'[i].taken =>
                        disk'["enrollments"][k] # "unused" /\ (up' => tokens'[k] # "unused")
    <3>1. CASE i = L + 1
      <4>1. mints'[i] = new /\ new.token = t /\ tokens'[t] = "used"
        BY <1>1, <1>2, <1>6, <3>1 DEF new
      <4> QED BY <1>1, <1>2, <1>5, <4>1
    <3>2. CASE i \in 1..L
      <4> DEFINE k == mints[i].token
      <4>1. mints'[i] = mints[i] /\ k \in issued /\ k \in Tokens
        BY <1>2, <1>3, <1>8, <3>2
      <4>2. /\ mints[i].life = life => tokens[k] # "unused"
            /\ driver = "sqlite" /\ "enrollments" \in mints[i].taken =>
                 disk["enrollments"][k] # "unused" /\ tokens[k] # "unused"
        BY <1>8, <3>2
      <4>3. tokens'[k] = tokens[k] \/ tokens'[k] = "used"
        BY <1>6, <4>1
      <4>4. driver = "sqlite" => \/ disk'["enrollments"][k] = disk["enrollments"][k]
                                 \/ disk'["enrollments"][k] = "used"
        BY <1>5, <4>1
      <4> HIDE DEF k
      <4> QED BY <4>1, <4>2, <4>3, <4>4 DEF k
    <3> QED BY <1>2, <3>1, <3>2 DEF L
  <2> QED BY <1>2, <2>1 DEF UsedUp
<1>10. TokenEnrollsOnce'
  <2>1. ASSUME NEW k \in Tokens \ Reusable, NEW i \in 1..(L + 1), NEW j \in 1..(L + 1),
               mints'[i].token = k, mints'[j].token = k, i < j
        PROVE  /\ mints'[i].life # mints'[j].life
               /\ driver = "sqlite" => "enrollments" \notin mints'[i].taken
    <3>1. i \in 1..L /\ mints'[i] = mints[i]
      BY <1>2, <2>1
    <3>2. CASE j \in 1..L
      <4>1. mints'[j] = mints[j]
        BY <1>2, <3>2
      <4> QED BY <2>1, <3>1, <3>2, <4>1 DEF TokenInv, TokenEnrollsOnce, Minted, L
    <3>3. CASE j = L + 1
      <4>1. k = t /\ mints'[j].life = life
        BY <1>2, <2>1, <3>3 DEF new
      <4>2. tokens[t] = "unused"
        BY <1>4, <2>1, <4>1 DEF Valid
      <4> QED BY <1>8, <2>1, <3>1, <4>1, <4>2
    <3> QED BY <1>2, <3>2, <3>3
  <2>2. \A k : Minted(k)' = {i \in 1..(L + 1) : mints'[i].token = k}
    BY <1>2 DEF Minted
  <2> QED BY <2>1, <2>2 DEF TokenEnrollsOnce
<1>11. CredInv'
  <2>1. ASSUME driver = "sqlite", NEW k \in NodeIds
        PROVE  /\ disk'["credentials"][k] \in MintedFor(k)' \cup {0}
               /\ creds'[k] \in MintedFor(k)' \cup {0}
               /\ \A i \in MintedFor(k)' :
                    "credentials" \in mints'[i].taken => i <= disk'["credentials"][k]
    <3>1. /\ MintedFor(k)' = IF k = n THEN MintedFor(k) \cup {L + 1} ELSE MintedFor(k)
          /\ MintedFor(k) \subseteq 1..L
      BY <1>2 DEF MintedFor, L, new
    <3>2. /\ disk["credentials"][k] \in MintedFor(k) \cup {0}
          /\ creds[k] \in MintedFor(k) \cup {0}
          /\ \A i \in MintedFor(k) : "credentials" \in mints[i].taken => i <= disk["credentials"][k]
      BY <2>1 DEF CredInv, Latest
    <3>3. \A i \in MintedFor(k) : i <= L + 1 /\ mints'[i] = mints[i]
      BY <1>2, <3>1
    <3>4. CASE k = n
      <4>1. creds'[k] = L + 1 /\ MintedFor(k)' = MintedFor(k) \cup {L + 1}
        BY <1>7, <3>1, <3>4
      <4>2. CASE disk'["credentials"][k] = L + 1
        BY <1>2, <3>1, <3>3, <4>1, <4>2
      <4>3. CASE /\ disk'["credentials"][k] = disk["credentials"][k]
                 /\ Missed("credentials", n)'
        <5>1. "credentials" \notin new.taken
          BY <1>2, <4>3
        <5> QED BY <3>2, <3>3, <4>1, <4>3, <5>1 DEF new
      <4> QED BY <1>5, <2>1, <3>4, <4>2, <4>3
    <3>5. CASE k # n
      <4>1. /\ creds'[k] = creds[k] /\ MintedFor(k)' = MintedFor(k)
            /\ disk'["credentials"][k] = disk["credentials"][k]
        BY <1>5, <1>7, <2>1, <3>1, <3>5
      <4> QED BY <3>2, <3>3, <4>1
    <3> QED BY <3>4, <3>5
  <2> QED BY <2>1 DEF CredInv, Latest
<1> QED BY <1>9, <1>10, <1>11 DEF TokenInv

\* An operation that writes only tokens, and mints nothing.
LEMMA WritingKeeps ==
  ASSUME IInv, up, UNCHANGED <<up, mints, life, creds, driver>>, issued \subseteq issued', NEW a,
         Writing(Writes(a, Nothing)), \A k \in issued \cap DOMAIN a : a[k] # "unused",
         \A s \in Tables : Writes(a, Nothing)[s] \in PartialRows(s, Len(mints'))
  PROVE  /\ StoreInv' /\ TokenInv' /\ CredInv'
         /\ faults' \in 0..MaxFaults[driver'] /\ faults' >= faults
         /\ driver = "sqlite" =>
              \A t \in Tables : \A i \in Ids(t) : RowGoes(Writes(a, Nothing), t, i)
<1> DEFINE w == Writes(a, Nothing)
<1>1. Len(mints) \in Nat /\ Len(mints') \in Nat /\ Len(mints) <= Len(mints')
  <2>1. Len(mints) \in Nat
    BY DEF IInv, Types, EnrollmentTypes
  <2> QED BY <2>1
<1>2. /\ StoreInv'
      /\ faults' \in 0..MaxFaults[driver'] /\ faults' >= faults
      /\ driver = "sqlite" => \A t \in Tables : \A i \in Ids(t) : RowGoes(w, t, i)
  <2> HIDE DEF w
  <2>1. w = Writes(a, Nothing)
    BY DEF w
  <2> QED BY <1>1, <2>1, WritingInv DEF IInv, Types
<1>3. "enrollments" \in Tables /\ "credentials" \in Tables /\ "enrollments" # "credentials"
  BY EnrollmentAssumption
<1>4. /\ w["enrollments"] = a /\ w["credentials"] = Nothing /\ DOMAIN Nothing = {}
      /\ Ids("enrollments") = Tokens /\ Ids("credentials") = NodeIds /\ issued \subseteq Tokens
  BY <1>3 DEF Writes, Nothing, Ids, IInv, Types, EnrollmentTypes
<1> HIDE DEF w
<1>5. tokens' = Apply(tokens, a) /\ DOMAIN tokens = Tokens
  <2>1. Memory'["enrollments"] = Apply(Memory["enrollments"], w["enrollments"])
    BY <1>3 DEF Writing, w
  <2> QED BY <1>3, <1>4, <2>1 DEF Memory, IInv, Types, EnrollmentTypes
<1>6. \A k \in issued : tokens'[k] # "unused" \/ tokens'[k] = tokens[k]
  BY <1>4, <1>5 DEF Apply
<1>7. driver = "sqlite" =>
        /\ \A k \in issued : \/ disk'["enrollments"][k] # "unused"
                             \/ disk'["enrollments"][k] = disk["enrollments"][k]
        /\ \A n \in NodeIds : disk'["credentials"][n] = disk["credentials"][n]
  <2>1. ASSUME driver = "sqlite", NEW k \in issued
        PROVE  \/ disk'["enrollments"][k] # "unused"
               \/ disk'["enrollments"][k] = disk["enrollments"][k]
    <3>1. RowGoes(w, "enrollments", k)
      BY <1>2, <1>3, <1>4, <2>1
    <3> QED BY <1>4, <3>1 DEF RowGoes
  <2>2. ASSUME driver = "sqlite", NEW n \in NodeIds
        PROVE  disk'["credentials"][n] = disk["credentials"][n]
    <3>1. RowGoes(w, "credentials", n)
      BY <1>2, <1>3, <1>4, <2>2
    <3> QED BY <1>4, <3>1 DEF RowGoes
  <2> QED BY <2>1, <2>2
<1>8. TokenInv' /\ CredInv'
  BY <1>6, <1>7, NothingMinted DEF IInv
<1> QED BY <1>2, <1>8 DEF w

-----------------------------------------------------------------------------
(* The control plane's steps *)

LEMMA IssueInv ==
  ASSUME IInv, NEW t \in Tokens, OperatorIssues(t)
  PROVE  IInv'
<1> DEFINE swept == {k \in expired : tokens[k] # "none"}
           a == IssueRows(t)
<1>1. /\ IssueToken(t) /\ up /\ t \notin issued /\ issued' = issued \cup {t}
      /\ tokens' = Apply(tokens, a) /\ UNCHANGED <<creds, expired, mints, life, driver>>
      /\ UNCHANGED <<up, bundles, machine, runs>>
  BY DEF OperatorIssues, IssueToken, Persist, IssueRows
<1>2. EnrollmentTypes
  BY DEF IInv, Types
<1>9. DOMAIN a = swept \cup {t} /\ \A k \in swept \cup {t} : a[k] = IF k = t THEN "unused" ELSE "none"
  BY DEF IssueRows
<1>3. /\ DOMAIN tokens = Tokens
      /\ \A k \in Tokens : tokens'[k] = IF k \in swept \cup {t}
                                        THEN IF k = t THEN "unused" ELSE "none" ELSE tokens[k]
  <2>1. /\ tokens \in [Tokens -> {"none", "unused", "used"}]
        /\ swept \cup {t} \in SUBSET Tokens
    BY <1>2 DEF EnrollmentTypes
  <2> HIDE DEF swept, a
  <2> QED BY <1>1, <1>9, <2>1 DEF Apply
<1>4. tokens' \in [Tokens -> {"none", "unused", "used"}]
  <2>1. tokens \in [Tokens -> {"none", "unused", "used"}]
    BY <1>2 DEF EnrollmentTypes
  <2> HIDE DEF swept, a
  <2>2. tokens' = [i \in Tokens |-> IF i \in DOMAIN a THEN a[i] ELSE tokens[i]]
    BY <1>1, <2>1 DEF Apply
  <2> QED BY <1>9, <2>1, <2>2
<1>5. \A k \in issued \cap DOMAIN a : a[k] # "unused"
  BY <1>1, <1>9
<1>6. /\ StoreInv' /\ TokenInv' /\ CredInv'
      /\ faults' \in 0..MaxFaults[driver']
  <2>1. /\ Writing(Writes(a, Nothing))
        /\ \A s \in Tables : Writes(a, Nothing)[s] \in PartialRows(s, Len(mints'))
    BY <1>1, <1>2, IssueWrites
  <2> HIDE DEF swept, a
  <2> QED BY <1>1, <1>5, <2>1, WritingKeeps
<1> HIDE DEF swept, a
<1>7. Types'
  <2>1. EnrollmentTypes'
    BY <1>1, <1>2, <1>4 DEF EnrollmentTypes
  <2>2. BundleTypes' /\ MachineTypes'
    BY <1>1 DEF IInv, Types, BundleTypes, MachineTypes, bundles, machine
  <2> QED BY <1>1, <1>6, <2>1, <2>2 DEF IInv, Types
<1>8. CodeInv'
  BY <1>1 DEF IInv, CodeInv, CodeIsPublished, bundles, machine
<1> QED BY <1>6, <1>7, <1>8 DEF IInv

\* Nothing of enrollment, store or machines changes but what is said.
LEMMA EnrollmentUnchanged ==
  ASSUME IInv, UNCHANGED <<up, store, tokens, creds, mints, life, issued>>
  PROVE  StoreInv' /\ TokenInv' /\ CredInv'
<1>1. UNCHANGED <<driver, disk, torn, writing, cache, queue, missed, tokens, creds, up, mints,
                  life, issued>>
  BY DEF store
<1>2. StoreInv'
  BY <1>1, StoreUnchanged DEF IInv
<1>3. TokenInv' /\ CredInv'
  BY <1>1, NothingMinted DEF IInv
<1> QED BY <1>2, <1>3

LEMMA PublishInv ==
  ASSUME IInv, Publish \/ \E t \in Tokens : TimePasses(t)
  PROVE  IInv'
<1>1. StoreInv' /\ TokenInv' /\ CredInv'
  BY EnrollmentUnchanged DEF Publish, TimePasses, TokenExpires, enrollment
<1>2. CASE Publish
  <2>1. Types'
    <3>1. EnrollmentTypes' /\ MachineTypes' /\ UNCHANGED <<driver, up, faults>>
      BY <1>2 DEF Publish, IInv, Types, EnrollmentTypes, MachineTypes, enrollment, store, machine
    <3>2. BundleTypes'
      BY <1>2 DEF Publish, PublishBegins, PublishEnds, IInv, Types, BundleTypes
    <3> QED BY <3>1, <3>2 DEF IInv, Types
  <2>2. CodeInv'
    <3>1. UNCHANGED <<boot, current>> /\ accepted \subseteq accepted'
      BY <1>2 DEF Publish, PublishBegins, PublishEnds, machine
    <3>2. /\ registered' # NoBuild => registered' \in accepted'
          /\ PlaneChecks => accepted' \subseteq Signed /\ (putting' # NoBuild => putting' \in Signed)
      BY <1>2 DEF Publish, PublishBegins, PublishEnds, IInv, CodeInv
    <3> QED BY <3>1, <3>2 DEF IInv, CodeInv, CodeIsPublished
  <2> QED BY <1>1, <2>1, <2>2 DEF IInv
<1>3. CASE \E t \in Tokens : TimePasses(t)
  <2>1. Types'
    BY <1>3 DEF TimePasses, TokenExpires, IInv, Types, EnrollmentTypes, BundleTypes, MachineTypes,
                store, bundles, machine
  <2>2. CodeInv'
    BY <1>3 DEF TimePasses, IInv, CodeInv, CodeIsPublished, bundles, machine
  <2> QED BY <1>1, <2>1, <2>2 DEF IInv
<1> QED BY <1>2, <1>3

LEMMA FaultCounts ==
  ASSUME driver \in Drivers, faults \in 0..MaxFaults[driver], Fault
  PROVE  faults' \in 0..MaxFaults[driver]
BY StoreAssumption DEF Fault

LEMMA WriteInv ==
  ASSUME IInv, NEW t \in Tables, Write(t)
  PROVE  IInv'
<1>1. /\ WriteBegins(t) \/ WriteEnds(t) \/ WriteFails(t)
      /\ UNCHANGED <<up, tokens, creds, expired, issued, mints, life, bundles, machine, runs>>
  BY DEF Write, enrollment
<1>2. StoreInv'
  BY <1>1, WriteBeginsInv, WriteEndsInv, WriteFailsInv DEF IInv
<1>3. driver = "localjson" /\ driver' = driver
  <2>1. queue[t] # <<>> \/ t \in writing
    BY <1>1 DEF WriteBegins, WriteEnds, WriteFails
  <2>2. driver' = driver
    BY <1>1 DEF WriteBegins, WriteEnds, WriteFails
  <2> QED BY <2>1, <2>2 DEF IInv, StoreInv, Queued
<1>7. faults' \in 0..MaxFaults[driver']
  <2>1. faults' = faults \/ Fault
    BY <1>1 DEF WriteBegins, WriteEnds, WriteFails
  <2> QED BY <1>3, <2>1, FaultCounts DEF IInv, Types
<1>4. TokenInv' /\ CredInv'
  BY <1>1, <1>3, NothingMinted DEF IInv
<1>5. Types'
  BY <1>1, <1>3, <1>7 DEF IInv, Types, EnrollmentTypes, BundleTypes, MachineTypes, bundles, machine
<1>6. CodeInv'
  BY <1>1 DEF IInv, CodeInv, CodeIsPublished, bundles, machine
<1> QED BY <1>2, <1>4, <1>5, <1>6 DEF IInv

\* The control plane dies, at rest or in enroll.
LEMMA DiesInv ==
  ASSUME IInv, StoreDies, BundlesDie, Fault, UNCHANGED enrollment, MachineTypes',
         \/ disk' = disk
         \/ /\ driver = "sqlite"
            /\ \E t \in Tokens : disk' = [disk EXCEPT !["enrollments"] = [@ EXCEPT ![t] = "used"]],
         UNCHANGED current,
         \A m \in Machines : boot'[m] = boot[m] \/ boot'[m] = Idle
  PROVE  IInv'
<1>1. /\ UNCHANGED <<tokens, creds, expired, issued, mints, life>>
      /\ up' = FALSE /\ UNCHANGED <<driver, torn, cache>>
  BY DEF StoreDies, enrollment
<1>2. "enrollments" \in Tables /\ "credentials" \in Tables /\ "enrollments" # "credentials"
  BY EnrollmentAssumption
<1>3. DOMAIN disk = Tables /\ \A t \in Tables : disk[t] \in [Ids(t) -> Vals(t, Len(mints))]
  BY DEF IInv, StoreInv, Shaped
<1>4. disk["enrollments"] \in [Tokens -> {"none", "unused", "used"}]
  BY <1>2, <1>3 DEF Ids, Vals
<1>5. /\ DOMAIN disk' = Tables
      /\ \A t \in Tables : disk'[t] \in [Ids(t) -> Vals(t, Len(mints))]
      /\ disk'["credentials"] = disk["credentials"]
      /\ \A t \in Tokens : \/ disk'["enrollments"][t] = "used"
                           \/ disk'["enrollments"][t] = disk["enrollments"][t]
  <2>1. CASE disk' = disk
    BY <1>3, <2>1
  <2>2. ASSUME NEW t \in Tokens,
               disk' = [disk EXCEPT !["enrollments"] = [@ EXCEPT ![t] = "used"]]
        PROVE  /\ DOMAIN disk' = Tables
               /\ \A s \in Tables : disk'[s] \in [Ids(s) -> Vals(s, Len(mints))]
               /\ disk'["credentials"] = disk["credentials"]
               /\ \A s \in Tokens : \/ disk'["enrollments"][s] = "used"
                                    \/ disk'["enrollments"][s] = disk["enrollments"][s]
    <3> DEFINE T == [disk["enrollments"] EXCEPT ![t] = "used"]
    <3>1. T \in [Tokens -> {"none", "unused", "used"}]
      BY <1>4
    <3>2. \A s \in Tokens : T[s] = "used" \/ T[s] = disk["enrollments"][s]
      BY <1>4
    <3>3. disk' = [disk EXCEPT !["enrollments"] = T]
      BY <2>2
    <3> HIDE DEF T
    <3>4. T \in [Ids("enrollments") -> Vals("enrollments", Len(mints))]
      BY <3>1 DEF Ids, Vals
    <3>5. disk'["enrollments"] = T /\ \A s \in Tables \ {"enrollments"} : disk'[s] = disk[s]
      BY <1>2, <1>3, <3>3
    <3> QED BY <1>2, <1>3, <3>2, <3>3, <3>4, <3>5
  <2> QED BY <2>1, <2>2
<1>6. StoreInv'
  BY <1>1, <1>5, DeathInv DEF IInv
<1>7. TokenInv' /\ CredInv'
  <2>1. \A t \in issued : t \in Tokens
    BY DEF IInv, Types, EnrollmentTypes
  <2>2. \A t \in issued : \/ disk'["enrollments"][t] # "unused"
                          \/ disk'["enrollments"][t] = disk["enrollments"][t]
    BY <1>5, <2>1
  <2> QED BY <1>1, <1>5, <2>2, NothingMinted DEF IInv
<1>8. Types'
  <2>1. EnrollmentTypes'
    BY <1>1 DEF IInv, Types, EnrollmentTypes
  <2>2. BundleTypes'
    BY DEF BundlesDie, IInv, Types, BundleTypes
  <2>3. faults' \in 0..MaxFaults[driver]
    BY FaultCounts DEF IInv, Types
  <2> QED BY <1>1, <2>1, <2>2, <2>3 DEF IInv, Types
<1>9. CodeInv'
  BY DEF BundlesDie, IInv, CodeInv, CodeIsPublished, Idle
<1> QED BY <1>6, <1>7, <1>8, <1>9 DEF IInv

LEMMA ControlPlaneDiesInv ==
  ASSUME IInv, ControlPlaneDies
  PROVE  IInv'
<1>1. StoreDies /\ BundlesDie /\ Fault /\ UNCHANGED <<disk, enrollment, machine, runs>>
  BY DEF ControlPlaneDies, EnrollmentDies
<1>3. MachineTypes'
  BY <1>1 DEF IInv, Types, MachineTypes, machine, enrollment
<1>4. UNCHANGED <<boot, current>>
  BY <1>1 DEF machine
<1> QED BY <1>1, <1>3, <1>4, DiesInv

LEMMA ControlPlaneStartsInv ==
  ASSUME IInv, ControlPlaneStarts
  PROVE  IInv'
<1>1. EnrollmentStarts /\ UNCHANGED <<bundles, machine, runs>>
  BY DEF ControlPlaneStarts
<1>2. "enrollments" \in Tables /\ "credentials" \in Tables /\ "enrollments" # "credentials"
  BY EnrollmentAssumption
<1>3. /\ UNCHANGED <<expired, issued, mints, driver, disk>> /\ ~up /\ up' = TRUE
      /\ life' = life + 1 /\ faults' \in 0..MaxFaults[driver]
      /\ tokens' \in {disk["enrollments"], NoRows["enrollments"]}
      /\ creds' \in {disk["credentials"], NoRows["credentials"]}
  <2>1. Memory'["enrollments"] = tokens' /\ Memory'["credentials"] = creds'
    BY <1>2 DEF Memory
  <2>2. up' = TRUE
    BY <1>1 DEF EnrollmentStarts, StoreStarts
  <2> QED BY <1>1, <1>2, <2>1, <2>2, Starts DEF IInv, Types
<1>4. /\ NoRows["enrollments"] = [k \in Tokens |-> "none"]
      /\ NoRows["credentials"] = [n \in NodeIds |-> 0]
  BY EnrollmentAssumption
<1>5. Len(mints) \in Nat /\ life \in Nat /\ issued \subseteq Tokens
  BY DEF IInv, Types, EnrollmentTypes
<1>6. StoreInv'
  BY <1>1, <1>5, StartInv DEF IInv, Types
<1>7. TokenInv' /\ CredInv'
  <2>1. life' # life
    BY <1>3, <1>5
  <2>2. \A t \in issued : tokens'[t] # "unused" \/ tokens'[t] = disk["enrollments"][t]
    BY <1>3, <1>4, <1>5
  <2>3. \A n \in NodeIds : creds'[n] \in {0, disk["credentials"][n]}
    BY <1>3, <1>4
  <2> QED BY <1>3, <2>1, <2>2, <2>3, NothingMinted DEF IInv
<1>8. Types'
  <2>1. /\ tokens' \in [Tokens -> {"none", "unused", "used"}]
        /\ creds' \in [NodeIds -> 0..Len(mints)]
    <3>1. /\ disk["enrollments"] \in [Tokens -> {"none", "unused", "used"}]
          /\ disk["credentials"] \in [NodeIds -> 0..Len(mints)]
      BY <1>2 DEF IInv, StoreInv, Shaped, Ids, Vals
    <3> QED BY <1>3, <1>4, <1>5, <3>1
  <2>2. mints' \in Seq(Minting(life'))
    <3>1. Minting(life) \subseteq Minting(life')
      BY <1>3, <1>5 DEF Minting
    <3>2. mints \in Seq(Minting(life'))
      BY <3>1 DEF IInv, Types, EnrollmentTypes
    <3> QED BY <1>3, <3>2
  <2>3. EnrollmentTypes'
    BY <1>3, <2>1, <2>2 DEF IInv, Types, EnrollmentTypes, Minting
  <2>4. BundleTypes' /\ MachineTypes'
    BY <1>1, <1>3 DEF IInv, Types, BundleTypes, MachineTypes, bundles, machine
  <2> QED BY <1>3, <2>3, <2>4 DEF IInv, Types
<1>9. CodeInv'
  BY <1>1 DEF IInv, CodeInv, CodeIsPublished, bundles, machine
<1> QED BY <1>6, <1>7, <1>8, <1>9 DEF IInv

-----------------------------------------------------------------------------
(* The machines' steps *)

LEMMA LocalInv ==
  ASSUME IInv, NEW m \in Machines, LocalStep(m)
  PROVE  IInv'
<1> USE DEF Rest
<1>1. UNCHANGED <<up, store, enrollment, bundles>>
  BY DEF LocalStep, Begin, FetchManifest, Download, Extract, InstallService, PersistIdentity,
         StartService, BootstrapDies, SupervisorStarts, SupervisorDies
<1>2. StoreInv' /\ TokenInv' /\ CredInv'
  BY <1>1, EnrollmentUnchanged DEF enrollment
<1>3. faults' \in 0..MaxFaults[driver]
  <2>1. faults' = faults \/ Fault
    BY DEF LocalStep, Begin, FetchManifest, Download, Extract, InstallService, PersistIdentity,
           StartService, BootstrapDies, SupervisorStarts, SupervisorDies
  <2> QED BY <2>1, FaultCounts DEF IInv, Types
<1>4. Types'
  <2>1. EnrollmentTypes' /\ BundleTypes' /\ UNCHANGED <<driver, up>>
    BY <1>1 DEF IInv, Types, EnrollmentTypes, BundleTypes, enrollment, bundles, store
  <2>2. MachineTypes'
    BY LocalTypes DEF IInv
  <2> QED BY <1>3, <2>1, <2>2 DEF IInv, Types
<1>5. CodeInv'
  BY LocalCode DEF IInv
<1> QED BY <1>2, <1>4, <1>5 DEF IInv

LEMMA DiesInEnrollInv ==
  ASSUME IInv, NEW m \in Machines, DiesInEnroll(m)
  PROVE  IInv'
<1>1. /\ Ends(m, "failed") /\ BundlesDie /\ Fault /\ At(m, "enroll")
      /\ UNCHANGED <<current, service, identity, running, runs>>
      /\ driver = "sqlite" /\ StoreDies /\ UNCHANGED enrollment
      /\ disk' = [disk EXCEPT !["enrollments"] = [@ EXCEPT ![boot[m].token] = "used"]]
  BY DEF DiesInEnroll, DiesEnrolling
<1>2. boot[m].token \in Tokens
  BY <1>1 DEF IInv, Types, MachineTypes, EnrollmentTypes, At
<1>3. UNCHANGED <<mints, issued>> /\ Len(mints) \in Nat
  BY <1>1 DEF enrollment, IInv, Types, EnrollmentTypes
<1>4. MachineTypes'
  <2>1. /\ boot' \in [Machines -> BootRecords(Len(mints'))]
        /\ \A k \in Machines : boot'[k].step # "idle" => boot'[k].token \in issued'
        /\ outcome' \in [Machines -> {"none", "failed", "onboarded"}]
    BY <1>1, <1>3, EndsType DEF IInv, Types
  <2> QED BY <1>1, <1>3, <2>1 DEF IInv, Types, MachineTypes
<1>6. \A k \in Machines : boot'[k] = boot[k] \/ boot'[k] = Idle
  BY <1>1 DEF Ends, IInv, Types, MachineTypes
<1> QED BY <1>1, <1>2, <1>4, <1>6, DiesInv

LEMMA RefusedInv ==
  ASSUME IInv, NEW m \in Machines, NEW t \in Tokens, NEW n \in NodeIds, up, Refuses(t, n),
         Ends(m, "failed"), Rest, UNCHANGED <<up, current, service, identity, running>>
  PROVE  IInv'
<1> DEFINE a == RefuseRows(t)
<1>1. /\ tokens' = Apply(tokens, a) /\ UNCHANGED <<creds, expired, issued, mints, life, driver>>
      /\ UNCHANGED <<bundles, runs>>
  BY DEF Refuses, Persist, Rest, RefuseRows
<1>2. EnrollmentTypes /\ Len(mints) \in Nat
  BY DEF IInv, Types, EnrollmentTypes
<1>3. /\ tokens' \in [Tokens -> {"none", "unused", "used"}]
      /\ \A k \in Tokens : tokens'[k] = "none" \/ tokens'[k] = tokens[k]
  <2>1. DOMAIN a \subseteq Tokens /\ \A k \in DOMAIN a : a[k] = "none"
    BY DEF RefuseRows
  <2>2. tokens \in [Tokens -> {"none", "unused", "used"}]
    BY <1>2 DEF EnrollmentTypes
  <2> HIDE DEF a
  <2>3. tokens' = [i \in Tokens |-> IF i \in DOMAIN a THEN a[i] ELSE tokens[i]]
    BY <1>1, <2>2 DEF Apply
  <2> QED BY <2>1, <2>2, <2>3
<1>4. \A k \in issued \cap DOMAIN a : a[k] # "unused"
  BY DEF RefuseRows
<1>5. /\ StoreInv' /\ TokenInv' /\ CredInv'
      /\ faults' \in 0..MaxFaults[driver']
  <2>1. /\ Writing(Writes(a, Nothing))
        /\ \A s \in Tables : Writes(a, Nothing)[s] \in PartialRows(s, Len(mints'))
    BY <1>1, <1>2, RefusesWrites
  <2> HIDE DEF a
  <2> QED BY <1>1, <1>4, <2>1, WritingKeeps
<1> HIDE DEF a
<1>6. Types'
  <2>1. EnrollmentTypes'
    BY <1>1, <1>2, <1>3 DEF EnrollmentTypes
  <2>2. BundleTypes'
    BY <1>1 DEF IInv, Types, BundleTypes, bundles
  <2>3. /\ boot' \in [Machines -> BootRecords(Len(mints'))]
        /\ \A k \in Machines : boot'[k].step # "idle" => boot'[k].token \in issued'
        /\ outcome' \in [Machines -> {"none", "failed", "onboarded"}]
    BY <1>1, <1>2, EndsType DEF IInv, Types
  <2>4. MachineTypes'
    BY <1>1, <2>3 DEF IInv, Types, MachineTypes
  <2> QED BY <1>1, <1>5, <2>1, <2>2, <2>4 DEF IInv, Types
<1>7. CodeInv'
  <2>1. \A k \in Machines : boot'[k] = boot[k] \/ boot'[k].step = "idle"
    BY DEF Ends, Idle, IInv, Types, MachineTypes
  <2> QED BY <1>1, <2>1 DEF IInv, CodeInv, CodeIsPublished, bundles
<1> QED BY <1>5, <1>6, <1>7 DEF IInv

LEMMA GrantedInv ==
  ASSUME IInv, NEW m \in Machines, NEW n \in NodeIds, up, At(m, "enroll"),
         Grants(boot[m].token, n),
         boot' = [boot EXCEPT ![m].step = "persist", ![m].cred = Len(mints')],
         outcome' = outcome, Rest, UNCHANGED <<up, current, service, identity, running>>
  PROVE  IInv'
<1> DEFINE t == boot[m].token
           L == Len(mints)
<1>1. t \in issued /\ t \in Tokens
  BY DEF At, IInv, Types, MachineTypes, EnrollmentTypes
<1>2. UNCHANGED <<driver, life, issued, expired>> /\ UNCHANGED <<bundles, runs>>
  BY DEF Grants, Persist, Rest
<1>3. /\ Writing(GrantWrites(t, n))
      /\ \A s \in Tables : GrantWrites(t, n)[s] \in PartialRows(s, Len(mints'))
      /\ mints' \in Seq(Minting(life))
      /\ L \in Nat /\ Len(mints') = L + 1
      /\ tokens' = [tokens EXCEPT ![t] = "used"]
      /\ creds' = [creds EXCEPT ![n] = Len(mints')]
  BY <1>1, GrantsWrites DEF IInv, Types
<1>4. /\ StoreInv' /\ faults' \in 0..MaxFaults[driver]
      /\ driver = "sqlite" =>
           \A s \in Tables : \A i \in Ids(s) : RowGoes(GrantWrites(t, n), s, i)
  <2>1. ASSUME NEW w, w = GrantWrites(t, n)
        PROVE  /\ StoreInv' /\ faults' \in 0..MaxFaults[driver']
               /\ driver = "sqlite" => \A s \in Tables : \A i \in Ids(s) : RowGoes(w, s, i)
    BY <1>3, <2>1, WritingInv DEF IInv, Types
  <2> HIDE DEF t
  <2> QED BY <1>2, <2>1
<1>5. TokenInv' /\ CredInv'
  BY <1>1, <1>2, <1>4, OneMinted DEF IInv
<1>6. 0..L \subseteq 0..Len(mints')
  BY <1>3
<1>7. EnrollmentTypes'
  <2>1. tokens' \in [Tokens -> {"none", "unused", "used"}]
    BY <1>3 DEF IInv, Types, EnrollmentTypes
  <2>2. creds' \in [NodeIds -> 0..Len(mints')]
    <3>1. creds \in [NodeIds -> 0..L] /\ Len(mints') \in 0..Len(mints')
      BY <1>3 DEF IInv, Types, EnrollmentTypes
    <3> QED BY <1>3, <1>6, <3>1
  <2> QED BY <1>2, <1>3, <2>1, <2>2 DEF IInv, Types, EnrollmentTypes, Minting
<1>8. MachineTypes'
  <2>1. boot' \in [Machines -> BootRecords(Len(mints'))]
    <3> DEFINE r == [boot[m] EXCEPT !.step = "persist", !.cred = Len(mints')]
    <3>1. \A k \in Machines : boot[k] \in BootRecords(Len(mints'))
      <4>1. \A k \in Machines : boot[k] \in BootRecords(L)
        BY DEF IInv, Types, MachineTypes
      <4>2. BootRecords(L) \subseteq BootRecords(Len(mints'))
        BY <1>6 DEF BootRecords
      <4> QED BY <4>1, <4>2
    <3>2. r \in BootRecords(Len(mints'))
      <4>1. boot[m] \in BootRecords(Len(mints')) /\ Len(mints') \in 0..Len(mints')
        BY <1>3, <3>1
      <4> QED BY <4>1 DEF BootRecords, Steps
    <3>3. boot' = [boot EXCEPT ![m] = r] /\ DOMAIN boot = Machines
      BY DEF IInv, Types, MachineTypes
    <3>4. boot = [k \in Machines |-> boot[k]]
      BY DEF IInv, Types, MachineTypes
    <3> HIDE DEF r
    <3> QED BY <3>1, <3>2, <3>3, <3>4
  <2>2. \A k \in Machines : boot'[k].step # "idle" => boot'[k].token \in issued'
    <3>1. boot[m] \in BootRecords(L) /\ DOMAIN boot = Machines
      BY DEF IInv, Types, MachineTypes
    <3>2. boot'[m].token = t
      BY <3>1 DEF BootRecords
    <3>3. \A k \in Machines \ {m} : boot'[k] = boot[k]
      BY <3>1
    <3> QED BY <1>1, <1>2, <3>2, <3>3 DEF IInv, Types, MachineTypes
  <2>3. identity' \in [Machines -> 0..Len(mints')] /\ running' \in [Machines -> 0..Len(mints')]
    <3>1. identity \in [Machines -> 0..L] /\ running \in [Machines -> 0..L]
      BY DEF IInv, Types, MachineTypes
    <3> HIDE DEF L
    <3> QED BY <1>6, <3>1
  <2> QED BY <1>2, <2>1, <2>2, <2>3 DEF IInv, Types, MachineTypes
<1>9. Types'
  BY <1>2, <1>4, <1>7, <1>8 DEF IInv, Types, BundleTypes, bundles
<1>10. CodeInv'
  <2>1. DOMAIN boot = Machines /\ boot[m] \in BootRecords(L)
    BY DEF IInv, Types, MachineTypes
  <2>2. boot'[m].step = "persist" /\ \A k \in Machines \ {m} : boot'[k] = boot[k]
    BY <2>1 DEF BootRecords
  <2>3. \A k \in Machines : \/ boot'[k] = boot[k]
                            \/ boot'[k].step \notin {"download", "extract"}
    BY <2>2
  <2>4. UNCHANGED <<current, registered, putting, accepted>>
    BY <1>2 DEF bundles
  <2>5. CodeInv
    BY DEF IInv
  <2>6. /\ registered' # NoBuild => registered' \in accepted'
        /\ PlaneChecks => accepted' \subseteq Signed /\ (putting' # NoBuild => putting' \in Signed)
    BY <2>4, <2>5 DEF CodeInv
  <2>7. ASSUME NEW k \in Machines
        PROVE  /\ boot'[k].step \in {"download", "extract"} => boot'[k].build \in accepted'
               /\ boot'[k].step = "extract" /\ NodesCheck => boot'[k].build \in Signed
    <3>1. CASE boot'[k] = boot[k]
      <4>1. /\ boot[k].step \in {"download", "extract"} => boot[k].build \in accepted
            /\ boot[k].step = "extract" /\ NodesCheck => boot[k].build \in Signed
        BY <2>5 DEF CodeInv
      <4> QED BY <2>4, <3>1, <4>1
    <3>2. CASE boot'[k].step \notin {"download", "extract"}
      BY <3>2
    <3> QED BY <2>3, <3>1, <3>2
  <2>8. CodeIsPublished'
    BY <2>4, <2>5 DEF CodeInv, CodeIsPublished
  <2> QED BY <2>6, <2>7, <2>8 DEF CodeInv
<1> QED BY <1>4, <1>5, <1>9, <1>10 DEF IInv

LEMMA EnrollInv ==
  ASSUME IInv, NEW m \in Machines, Enroll(m)
  PROVE  IInv'
<1>1. boot[m].token \in Tokens /\ IdOf[m] \in NodeIds
  BY OnboardingAssumption DEF Enroll, At, IInv, Types, MachineTypes, EnrollmentTypes
<1> QED BY <1>1, RefusedInv, GrantedInv DEF Enroll

LEMMA StepInv ==
  ASSUME IInv, [Next]_vars
  PROVE  IInv'
<1>1. CASE ControlPlaneStep
  BY <1>1, IssueInv, PublishInv, WriteInv, ControlPlaneDiesInv, ControlPlaneStartsInv
     DEF ControlPlaneStep
<1>2. ASSUME NEW m \in Machines, MachineStep(m)
      PROVE  IInv'
  <2>1. LocalStep(m) \/ Enroll(m) \/ DiesInEnroll(m)
    BY <1>2 DEF MachineStep, LocalStep
  <2> QED BY <2>1, LocalInv, EnrollInv, DiesInEnrollInv
<1>3. CASE UNCHANGED vars
  <2>1. StoreInv' /\ TokenInv' /\ CredInv'
    BY <1>3, EnrollmentUnchanged DEF vars, enrollment
  <2>2. Types'
    BY <1>3 DEF vars, store, enrollment, bundles, machine, IInv, Types, EnrollmentTypes,
                BundleTypes, MachineTypes
  <2>3. CodeInv'
    BY <1>3 DEF vars, bundles, machine, IInv, CodeInv, CodeIsPublished
  <2> QED BY <2>1, <2>2, <2>3 DEF IInv
<1> QED BY <1>1, <1>2, <1>3 DEF Next

-----------------------------------------------------------------------------
(* The database makes a ledger of enrollment *)

\* The store that the process was built with stays.
LEMMA DriverStays ==
  ASSUME [Next]_vars
  PROVE  driver' = driver
<1>1. CASE ControlPlaneStep
  BY <1>1 DEF ControlPlaneStep, OperatorIssues, IssueToken, Persist, TimePasses, TokenExpires,
     Write, WriteBegins, WriteEnds, WriteFails, Publish, ControlPlaneDies, EnrollmentDies, StoreDies,
     ControlPlaneStarts, EnrollmentStarts, StoreStarts, store
<1>2. ASSUME NEW m \in Machines, MachineStep(m)
      PROVE  driver' = driver
  <2>1. CASE LocalStep(m)
    BY <2>1 DEF LocalStep, Begin, FetchManifest, Download, Extract, InstallService, PersistIdentity,
       StartService, BootstrapDies, SupervisorStarts, SupervisorDies, store
  <2>2. CASE Enroll(m) \/ DiesInEnroll(m)
    BY <2>2 DEF Enroll, Grants, Refuses, Persist, DiesInEnroll, DiesEnrolling, StoreDies
  <2>3. LocalStep(m) \/ Enroll(m) \/ DiesInEnroll(m)
    BY <1>2 DEF MachineStep, LocalStep
  <2> QED BY <2>1, <2>2, <2>3
<1>3. CASE UNCHANGED vars
  BY <1>3 DEF vars, store
<1> QED BY <1>1, <1>2, <1>3 DEF Next

InForceDefs ==
  /\ TokensInForce = IF driver # "sqlite" THEN NoRows["enrollments"]
                     ELSE IF up THEN tokens ELSE disk["enrollments"]
  /\ CredsInForce = IF driver # "sqlite" THEN NoRows["credentials"]
                    ELSE IF up THEN creds ELSE disk["credentials"]
  /\ TokensKept = IF driver # "sqlite" THEN NoRows["enrollments"] ELSE disk["enrollments"]
  /\ CredsKept = IF driver # "sqlite" THEN NoRows["credentials"] ELSE disk["credentials"]
  /\ MintsInForce = IF driver = "sqlite" THEN Len(mints) ELSE 0
  /\ IssuedInForce = IF driver = "sqlite" THEN issued ELSE {}
  /\ FaultsInForce = IF driver = "sqlite" THEN faults ELSE 0

LEMMA InForceIs == InForceDefs
BY DEF InForceDefs, TokensInForce, CredsInForce, TokensKept, CredsKept, MintsInForce,
       IssuedInForce, FaultsInForce, InForce, Kept

LEMMA InForceWill == InForceDefs'
BY InForceIs, PTL

LEMMA LedgerStill ==
  ASSUME UNCHANGED <<TokensInForce, CredsInForce, TokensKept, CredsKept, MintsInForce,
                     IssuedInForce>>,
         FaultsInForce' >= FaultsInForce
  PROVE  Ledger!Next
BY DEF Ledger!Next, Ledger!ledger

\* While the process runs, before and after a step, its memory is in force.
LEMMA InMemory ==
  ASSUME driver = "sqlite", driver' = driver, up, up'
  PROVE  /\ TokensInForce = tokens /\ TokensInForce' = tokens'
         /\ CredsInForce = creds /\ CredsInForce' = creds'
         /\ TokensKept = disk["enrollments"] /\ TokensKept' = disk'["enrollments"]
         /\ CredsKept = disk["credentials"] /\ CredsKept' = disk'["credentials"]
         /\ MintsInForce = Len(mints) /\ MintsInForce' = Len(mints')
         /\ IssuedInForce = issued /\ IssuedInForce' = issued'
         /\ FaultsInForce = faults /\ FaultsInForce' = faults'
BY InForceIs, InForceWill DEF InForceDefs

\* Steps that touch neither memory nor tables.
LEMMA LedgerUntouched ==
  ASSUME UNCHANGED <<driver, up, disk, tokens, creds, mints, issued>>,
         faults' >= faults
  PROVE  Ledger!Next
BY InForceIs, InForceWill, LedgerStill DEF InForceDefs

LEMMA TheTables ==
  /\ "enrollments" \in Tables /\ "credentials" \in Tables /\ "enrollments" # "credentials"
  /\ Ids("enrollments") = Tokens /\ Ids("credentials") = NodeIds
BY EnrollmentAssumption DEF Ids

\* The database's copy of the tokens takes what is written of them, but for faults;
\* and its copy of the credentials.
LEMMA TokensCopied ==
  ASSUME IInv, StoreInv', driver = "sqlite", driver' = driver, up, up', NEW w, NEW S \in SUBSET Tokens,
         \A t \in Tables : \A i \in Ids(t) : RowGoes(w, t, i), DOMAIN w["enrollments"] = S,
         \A k \in S : tokens'[k] = w["enrollments"][k]
  PROVE  Ledger!CopyTokens(S)
<1> DEFINE taken == {k \in S : ~ Missed("enrollments", k)'}
<1>1. /\ DOMAIN disk["enrollments"] = Tokens
      /\ disk'["enrollments"] = [k \in Tokens |-> disk'["enrollments"][k]]
  BY TheTables DEF IInv, StoreInv, Shaped
<1>2. faults' > faults \/ faults' # faults + 1
  BY DEF IInv, Types
<1>3. \A k \in Tokens : /\ disk'["enrollments"][k] = IF k \in taken THEN tokens'[k]
                                                     ELSE disk["enrollments"][k]
                        /\ k \in S \ taken => faults' = faults + 1
  <2>1. \A k \in Tokens : RowGoes(w, "enrollments", k)
    BY TheTables
  <2> QED BY <2>1 DEF RowGoes
<1> HIDE DEF taken
<1>4. taken \subseteq S /\ (taken = S \/ faults' > faults)
  BY <1>2, <1>3 DEF taken
<1>5. disk'["enrollments"] = [k \in DOMAIN disk["enrollments"] |->
                                IF k \in taken THEN tokens'[k] ELSE disk["enrollments"][k]]
  BY <1>1, <1>3
<1>6. taken \in Ledger!Taken(S)
  BY <1>4, InMemory DEF Ledger!Taken
<1>7. TokensKept' = Ledger!Copied(TokensKept, TokensInForce', taken)
  BY <1>5, InMemory DEF Ledger!Copied
<1> QED BY <1>6, <1>7 DEF Ledger!CopyTokens

LEMMA CredentialsCopied ==
  ASSUME IInv, StoreInv', driver = "sqlite", driver' = driver, up, up', NEW w, NEW S \in SUBSET NodeIds,
         \A t \in Tables : \A i \in Ids(t) : RowGoes(w, t, i), DOMAIN w["credentials"] = S,
         \A k \in S : creds'[k] = w["credentials"][k]
  PROVE  Ledger!CopyCredentials(S) /\ (S = {} => UNCHANGED CredsKept)
<1> DEFINE taken == {k \in S : ~ Missed("credentials", k)'}
<1>1. /\ disk["credentials"] = [k \in NodeIds |-> disk["credentials"][k]]
      /\ disk'["credentials"] = [k \in NodeIds |-> disk'["credentials"][k]]
  BY TheTables DEF IInv, StoreInv, Shaped
<1>2. faults' > faults \/ faults' # faults + 1
  BY DEF IInv, Types
<1>3. \A k \in NodeIds : /\ disk'["credentials"][k] = IF k \in taken THEN creds'[k]
                                                      ELSE disk["credentials"][k]
                         /\ k \in S \ taken => faults' = faults + 1
  <2>1. \A k \in NodeIds : RowGoes(w, "credentials", k)
    BY TheTables
  <2> QED BY <2>1 DEF RowGoes
<1> HIDE DEF taken
<1>4. taken \subseteq S /\ (taken = S \/ faults' > faults)
  BY <1>2, <1>3 DEF taken
<1>5. disk'["credentials"] = [k \in DOMAIN disk["credentials"] |->
                                IF k \in taken THEN creds'[k] ELSE disk["credentials"][k]]
  BY <1>1, <1>3
<1>6. taken \in Ledger!Taken(S)
  BY <1>4, InMemory DEF Ledger!Taken
<1>7. CredsKept' = Ledger!Copied(CredsKept, CredsInForce', taken)
  BY <1>5, InMemory DEF Ledger!Copied
<1>8. S = {} => UNCHANGED CredsKept
  <2>1. S = {} => disk'["credentials"] = disk["credentials"]
    BY <1>1, <1>3, <1>4
  <2> QED BY <2>1, InMemory
<1> QED BY <1>6, <1>7, <1>8 DEF Ledger!CopyCredentials

\* A write of tokens only.
LEMMA TokensWritten ==
  ASSUME IInv, StoreInv', driver = "sqlite", driver' = driver, up, up', NEW a, NEW S \in SUBSET Tokens,
         \A t \in Tables : \A i \in Ids(t) : RowGoes(Writes(a, Nothing), t, i), DOMAIN a = S,
         \A k \in S : tokens'[k] = a[k], creds' = creds
  PROVE  Ledger!CopyTokens(S) /\ UNCHANGED CredsKept
<1> DEFINE w == Writes(a, Nothing)
<1>1. w["enrollments"] = a /\ w["credentials"] = Nothing /\ DOMAIN Nothing = {}
  BY TheTables DEF Writes, Nothing
<1>2. \A t \in Tables : \A i \in Ids(t) : RowGoes(w, t, i)
  OBVIOUS
<1> HIDE DEF w
<1>3. Ledger!CopyTokens(S)
  BY <1>1, <1>2, TokensCopied
<1>4. UNCHANGED CredsKept
  BY <1>1, <1>2, CredentialsCopied
<1> QED BY <1>3, <1>4

LEMMA IssuesLedger ==
  ASSUME IInv, driver = "sqlite", NEW t \in Tokens, OperatorIssues(t)
  PROVE  Ledger!Issue(t) /\ FaultsInForce' >= FaultsInForce
<1> DEFINE swept == {k \in expired : tokens[k] # "none"}
           a == IssueRows(t)
<1>1. /\ up /\ t \notin issued /\ issued' = issued \cup {t} /\ UNCHANGED <<creds, mints, driver, up>>
      /\ tokens' = Apply(tokens, a) /\ IssueToken(t) /\ life' = life
  BY DEF OperatorIssues, IssueToken, Persist, IssueRows
<1>2. /\ tokens \in [Tokens -> {"none", "unused", "used"}] /\ swept \in SUBSET Tokens
      /\ EnrollmentTypes
  BY DEF IInv, Types, EnrollmentTypes
<1>3. DOMAIN a = swept \cup {t} /\ DOMAIN tokens = Tokens
  BY <1>2 DEF IssueRows
<1>4. \A k \in swept \cup {t} : a[k] = IF k = t THEN "unused" ELSE "none"
  BY DEF IssueRows
<1>5. /\ StoreInv' /\ faults' >= faults
      /\ \A s \in Tables : \A i \in Ids(s) : RowGoes(Writes(a, Nothing), s, i)
  <2>1. /\ Writing(Writes(a, Nothing))
        /\ \A s \in Tables : Writes(a, Nothing)[s] \in PartialRows(s, Len(mints'))
    BY <1>1, <1>2, IssueWrites
  <2>2. \A k \in issued \cap DOMAIN a : a[k] # "unused"
    BY <1>1, <1>3, <1>4
  <2> HIDE DEF a, swept
  <2> QED BY <1>1, <2>1, <2>2, WritingKeeps
<1> HIDE DEF a, swept
<1>6. tokens' = [k \in Tokens |-> IF k \in swept \cup {t} THEN a[k] ELSE tokens[k]]
  BY <1>1, <1>3 DEF Apply
<1>7. Ledger!CopyTokens(swept \cup {t}) /\ UNCHANGED CredsKept
  <2>1. \A k \in swept \cup {t} : tokens'[k] = a[k]
    BY <1>2, <1>6
  <2> QED BY <1>1, <1>2, <1>3, <1>5, <2>1, TokensWritten
<1> DEFINE w == [k \in Tokens |-> IF k \in swept THEN "none" ELSE tokens[k]]
<1>8. tokens' = [w EXCEPT ![t] = "unused"]
  BY <1>4, <1>6
<1>9. w = Ledger!Without(swept)
  BY <1>1, InMemory DEF Ledger!Without
<1> HIDE DEF w
<1>10. TokensInForce' = [Ledger!Without(swept) EXCEPT ![t] = "unused"]
  BY <1>1, <1>8, <1>9, InMemory
<1>11. /\ UNCHANGED <<CredsInForce, MintsInForce>> /\ IssuedInForce = issued
       /\ IssuedInForce' = issued' /\ FaultsInForce' >= FaultsInForce
  BY <1>1, <1>5, InMemory
<1> QED BY <1>1, <1>2, <1>7, <1>10, <1>11 DEF Ledger!Issue

LEMMA GrantLedger ==
  ASSUME IInv, IInv', driver = "sqlite", driver' = driver, up, up',
         NEW t \in Tokens, NEW n \in NodeIds, Grants(t, n)
  PROVE  Ledger!Enroll(t, n) /\ FaultsInForce' >= FaultsInForce
<1> DEFINE w == GrantWrites(t, n)
<1>1. tokens \in [Tokens -> {"none", "unused", "used"}] /\ EnrollmentTypes
      /\ creds \in [NodeIds -> 0..Len(mints)]
  BY DEF IInv, Types, EnrollmentTypes
<1>2. /\ Writing(w) /\ \A s \in Tables : w[s] \in PartialRows(s, Len(mints'))
      /\ Len(mints) \in Nat /\ Len(mints') = Len(mints) + 1
      /\ tokens' = [tokens EXCEPT ![t] = "used"] /\ creds' = [creds EXCEPT ![n] = Len(mints')]
  BY <1>1, GrantsWrites
<1>3. issued' = issued /\ Valid(t, n)
  BY DEF Grants
<1>4. /\ w["enrollments"] = GrantRows(t) /\ DOMAIN w["enrollments"] = {t}
      /\ w["enrollments"][t] = "used"
      /\ DOMAIN w["credentials"] = {n} /\ w["credentials"][n] = Len(mints')
  BY <1>2, TheTables DEF GrantWrites, GrantRows, Writes
<1> HIDE DEF w
<1>5. /\ faults' >= faults
      /\ \A s \in Tables : \A i \in Ids(s) : RowGoes(w, s, i)
  BY <1>2, WritingInv DEF IInv, Types
<1>6. Ledger!CopyTokens({t})
  <2>1. \A k \in {t} : tokens'[k] = w["enrollments"][k]
    BY <1>1, <1>2, <1>4
  <2>2. StoreInv' /\ {t} \in SUBSET Tokens
    BY DEF IInv
  <2> QED BY <1>4, <1>5, <2>1, <2>2, TokensCopied
<1>7. Ledger!CopyCredentials({n})
  <2>1. \A k \in {n} : creds'[k] = w["credentials"][k]
    BY <1>1, <1>2, <1>4
  <2>2. StoreInv' /\ {n} \in SUBSET NodeIds
    BY DEF IInv
  <2> QED BY <1>4, <1>5, <2>1, <2>2, CredentialsCopied
<1>8. Ledger!Enrolls(t, n)
  BY <1>1, <1>3, InMemory DEF Valid, Ledger!Enrolls
<1>9. /\ MintsInForce' = MintsInForce + 1
      /\ TokensInForce' = [TokensInForce EXCEPT ![t] = "used"]
      /\ CredsInForce' = [CredsInForce EXCEPT ![n] = MintsInForce']
      /\ IssuedInForce' = IssuedInForce /\ FaultsInForce' >= FaultsInForce
  BY <1>2, <1>3, <1>5, InMemory
<1> QED BY <1>6, <1>7, <1>8, <1>9 DEF Ledger!Enroll

LEMMA RefusalLedger ==
  ASSUME IInv, IInv', driver = "sqlite", driver' = driver, up, up', life' = life,
         NEW t \in Tokens, NEW n \in NodeIds, Refuses(t, n)
  PROVE  Ledger!Next
<1> DEFINE gone == {k \in {t} : k \in expired /\ tokens[k] # "none"}
           a == RefuseRows(t)
<1>1. tokens' = Apply(tokens, a) /\ UNCHANGED <<creds, mints, issued>>
  BY DEF Refuses, RefuseRows
<1>2. tokens \in [Tokens -> {"none", "unused", "used"}] /\ EnrollmentTypes
  BY DEF IInv, Types, EnrollmentTypes
<1>3. DOMAIN a = gone /\ (\A k \in gone : a[k] = "none") /\ DOMAIN tokens = Tokens
  BY <1>2 DEF RefuseRows
<1>4. gone = {} \/ gone = {t}
  OBVIOUS
<1>5. /\ faults' >= faults
      /\ \A s \in Tables : \A i \in Ids(s) : RowGoes(Writes(a, Nothing), s, i)
  <2>1. /\ Writing(Writes(a, Nothing))
        /\ \A s \in Tables : Writes(a, Nothing)[s] \in PartialRows(s, Len(mints'))
    BY <1>2, RefusesWrites
  <2>2. \A k \in issued \cap DOMAIN a : a[k] # "unused"
    BY <1>3
  <2> HIDE DEF gone, a
  <2> QED BY <1>1, <2>1, <2>2, WritingKeeps
<1> HIDE DEF gone, a
<1>6. tokens' = [k \in Tokens |-> IF k \in gone THEN "none" ELSE tokens[k]]
  BY <1>1, <1>3 DEF Apply
<1>7. Ledger!CopyTokens(gone) /\ UNCHANGED CredsKept
  <2>1. \A k \in gone : tokens'[k] = a[k]
    BY <1>3, <1>4, <1>6
  <2>2. gone \in SUBSET Tokens /\ StoreInv'
    BY <1>4 DEF IInv
  <2> QED BY <1>1, <1>3, <1>5, <2>1, <2>2, TokensWritten
<1>8. UNCHANGED <<CredsInForce, MintsInForce, IssuedInForce>> /\ FaultsInForce' >= FaultsInForce
  BY <1>1, <1>5, InMemory
<1>9. CASE gone = {}
  <2>1. tokens' = tokens
    BY <1>2, <1>6, <1>9
  <2>2. UNCHANGED TokensKept
    <3>1. PICK taken \in Ledger!Taken({}) : TokensKept' = Ledger!Copied(TokensKept, TokensInForce', taken)
      BY <1>7, <1>9 DEF Ledger!CopyTokens
    <3>2. taken = {}
      BY DEF Ledger!Taken
    <3>3. TokensKept = [k \in DOMAIN TokensKept |-> TokensKept[k]]
      <4>1. disk["enrollments"] = [k \in Tokens |-> disk["enrollments"][k]]
        BY TheTables DEF IInv, StoreInv, Shaped
      <4> QED BY <4>1, InMemory
    <3> QED BY <3>1, <3>2, <3>3 DEF Ledger!Copied
  <2>3. UNCHANGED TokensInForce
    BY <2>1, InMemory
  <2> QED BY <1>7, <1>8, <2>2, <2>3, LedgerStill
<1>10. CASE gone = {t}
  <2>1. TokensInForce' = Ledger!Without({t})
    BY <1>6, <1>10, InMemory DEF Ledger!Without
  <2>2. Ledger!Remove(t)
    BY <1>7, <1>8, <1>10, <2>1 DEF Ledger!Remove
  <2> QED BY <1>8, <2>2 DEF Ledger!Next
<1> QED BY <1>4, <1>9, <1>10

LEMMA EnrollLedger ==
  ASSUME IInv, IInv', driver = "sqlite", driver' = driver, NEW m \in Machines, Enroll(m)
  PROVE  Ledger!Next
<1> DEFINE t == boot[m].token
           n == IdOf[m]
<1>1. t \in Tokens /\ n \in NodeIds /\ up /\ up'
  BY OnboardingAssumption DEF Enroll, At, IInv, Types, MachineTypes, EnrollmentTypes
<1>2. Grants(t, n) \/ Refuses(t, n)
  BY DEF Enroll
<1> HIDE DEF t, n
<1>3. CASE Grants(t, n)
  BY <1>1, <1>3, GrantLedger DEF Ledger!Next
<1>4. CASE Refuses(t, n)
  <2>1. life' = life
    BY <1>4 DEF Refuses
  <2> QED BY <1>1, <1>4, <2>1, RefusalLedger
<1> QED BY <1>2, <1>3, <1>4

\* The process dies: the tables come in force, with a token that it was using up.
LEMMA DeathLedger ==
  ASSUME IInv, driver = "sqlite", StoreDies, UNCHANGED enrollment, Fault,
         \/ disk' = disk
         \/ \E t \in Tokens, n \in NodeIds :
              /\ Valid(t, n)
              /\ disk' = [disk EXCEPT !["enrollments"] = [@ EXCEPT ![t] = "used"]]
  PROVE  Ledger!Next
<1>1. /\ up /\ ~up' /\ driver' = driver /\ UNCHANGED <<tokens, creds, mints, issued>>
  BY DEF StoreDies, enrollment
<1>2. DOMAIN disk = Tables
  BY DEF IInv, StoreInv, Shaped
<1>3. faults' >= faults
  BY DEF Fault, IInv, Types
<1>4. /\ TokensInForce = tokens /\ TokensInForce' = TokensKept'
      /\ CredsInForce' = CredsKept'
      /\ TokensKept = disk["enrollments"] /\ TokensKept' = disk'["enrollments"]
      /\ CredsKept = disk["credentials"] /\ CredsKept' = disk'["credentials"]
      /\ UNCHANGED <<MintsInForce, IssuedInForce>> /\ FaultsInForce' >= FaultsInForce
  BY <1>1, <1>3, InForceIs, InForceWill DEF InForceDefs
<1>5. CASE disk' = disk
  BY <1>4, <1>5 DEF Ledger!Die, Ledger!Next
<1>6. ASSUME NEW t \in Tokens, NEW n \in NodeIds, Valid(t, n),
             disk' = [disk EXCEPT !["enrollments"] = [@ EXCEPT ![t] = "used"]]
      PROVE  Ledger!Next
  <2> DEFINE T == [disk["enrollments"] EXCEPT ![t] = "used"]
  <2>1. disk' = [disk EXCEPT !["enrollments"] = T]
    BY <1>6
  <2>2. T = [TokensKept EXCEPT ![t] = "used"]
    BY <1>4
  <2> HIDE DEF T
  <2>3. disk'["enrollments"] = T /\ disk'["credentials"] = disk["credentials"]
    BY <1>2, <2>1, TheTables
  <2>4. TokensKept' = [TokensKept EXCEPT ![t] = "used"] /\ CredsKept' = CredsKept
    BY <1>4, <2>2, <2>3
  <2>5. Ledger!Enrolls(t, n)
    <3>1. tokens \in [Tokens -> {"none", "unused", "used"}]
      BY DEF IInv, Types, EnrollmentTypes
    <3> QED BY <1>4, <1>6, <3>1 DEF Valid, Ledger!Enrolls
  <2>6. Ledger!Die
    BY <1>4, <2>4, <2>5 DEF Ledger!Die
  <2> QED BY <1>4, <2>6 DEF Ledger!Next
<1> QED BY <1>5, <1>6

\* The process starts: it goes by what the tables hold, or could be listed of them.
LEMMA StartLedger ==
  ASSUME IInv, driver = "sqlite", ControlPlaneStarts
  PROVE  Ledger!Next
<1>1. EnrollmentStarts
  BY DEF ControlPlaneStarts
<1>2. /\ ~up /\ up' /\ UNCHANGED <<driver, disk, mints, issued>> /\ faults' >= faults
      /\ tokens' = disk["enrollments"] \/ (tokens' = NoRows["enrollments"] /\ faults' > faults)
      /\ creds' = disk["credentials"] \/ (creds' = NoRows["credentials"] /\ faults' > faults)
  <2>1. Memory'["enrollments"] = tokens' /\ Memory'["credentials"] = creds'
    BY TheTables DEF Memory
  <2> QED BY <1>1, <2>1, TheTables, Starts DEF IInv, Types
<1>3. /\ NoRows["enrollments"] = Ledger!NoTokens
      /\ NoRows["credentials"] = Ledger!NoCredentials
  BY EnrollmentAssumption DEF Ledger!NoTokens, Ledger!NoCredentials
<1>4. /\ TokensInForce' = tokens' /\ CredsInForce' = creds'
      /\ TokensKept = disk["enrollments"] /\ CredsKept = disk["credentials"]
      /\ UNCHANGED <<TokensKept, CredsKept, MintsInForce, IssuedInForce>>
      /\ FaultsInForce = faults /\ FaultsInForce' = faults'
  BY <1>2, InForceIs, InForceWill DEF InForceDefs
<1>5. Ledger!Start
  BY <1>2, <1>3, <1>4 DEF Ledger!Start
<1> QED BY <1>2, <1>4, <1>5 DEF Ledger!Next

LEMMA LedgerStep ==
  ASSUME IInv, [Next]_vars
  PROVE  [Ledger!Next]_Ledger!ledgerVars
<1>1. driver' = driver /\ IInv'
  BY DriverStays, StepInv
<1>2. CASE driver # "sqlite"
  <2>1. UNCHANGED <<TokensInForce, CredsInForce, TokensKept, CredsKept, MintsInForce,
                    IssuedInForce, FaultsInForce>>
    BY <1>1, <1>2, InForceIs, InForceWill DEF InForceDefs
  <2> QED BY <2>1 DEF Ledger!ledgerVars, Ledger!ledger
<1>3. CASE driver = "sqlite"
  <2>1. ASSUME NEW t \in Tokens, OperatorIssues(t)
        PROVE  Ledger!Next
    <3>1. Ledger!Issue(t) /\ FaultsInForce' >= FaultsInForce
      BY <1>3, <2>1, IssuesLedger
    <3> QED BY <3>1 DEF Ledger!Next
  <2>2. CASE Publish \/ \E t \in Tokens : TimePasses(t)
    <3>1. UNCHANGED <<driver, up, disk, tokens, creds, mints, issued, faults>> /\ faults \in Nat
      BY <2>2 DEF Publish, TimePasses, TokenExpires, store, enrollment, IInv, Types
    <3> QED BY <3>1, LedgerUntouched
  <2>3. ASSUME NEW t \in Tables, Write(t)
        PROVE  FALSE
    <3>1. queue[t] = <<>> /\ writing = {}
      BY <1>3 DEF IInv, StoreInv, Queued
    <3> QED BY <2>3, <3>1 DEF Write, WriteBegins, WriteEnds, WriteFails
  <2>4. CASE ControlPlaneDies
    <3>1. StoreDies /\ Fault /\ UNCHANGED enrollment /\ disk' = disk
      BY <2>4 DEF ControlPlaneDies, EnrollmentDies
    <3> QED BY <1>3, <3>1, DeathLedger
  <2>5. CASE ControlPlaneStarts
    BY <1>3, <2>5, StartLedger
  <2>6. ASSUME NEW m \in Machines, MachineStep(m)
        PROVE  Ledger!Next
    <3>1. CASE LocalStep(m)
      <4>1. /\ UNCHANGED <<driver, up, disk, tokens, creds, mints, issued>>
            /\ faults' = faults \/ Fault
        BY <3>1 DEF LocalStep, Begin, FetchManifest, Download, Extract, InstallService,
           PersistIdentity, StartService, BootstrapDies, SupervisorStarts, SupervisorDies,
           store, enrollment, Rest
      <4>2. faults' >= faults
        BY <4>1 DEF Fault, IInv, Types
      <4> QED BY <4>1, <4>2, LedgerUntouched
    <3>2. CASE Enroll(m)
      BY <1>1, <1>3, <3>2, EnrollLedger
    <3>3. CASE DiesInEnroll(m)
      <4>1. boot[m].token \in Tokens /\ IdOf[m] \in NodeIds
        BY <3>3, OnboardingAssumption
           DEF DiesInEnroll, At, IInv, Types, MachineTypes, EnrollmentTypes
      <4>2. /\ StoreDies /\ Fault /\ UNCHANGED enrollment /\ Valid(boot[m].token, IdOf[m])
            /\ disk' = [disk EXCEPT !["enrollments"] = [@ EXCEPT ![boot[m].token] = "used"]]
        BY <3>3 DEF DiesInEnroll, DiesEnrolling
      <4> QED BY <1>3, <4>1, <4>2, DeathLedger
    <3>4. LocalStep(m) \/ Enroll(m) \/ DiesInEnroll(m)
      BY <2>6 DEF MachineStep, LocalStep
    <3> QED BY <3>1, <3>2, <3>3, <3>4
  <2>7. CASE UNCHANGED vars
    <3>1. UNCHANGED <<driver, up, disk, tokens, creds, mints, issued, faults>> /\ faults \in Nat
      BY <2>7 DEF vars, store, enrollment, IInv, Types
    <3> QED BY <3>1, LedgerUntouched
  <2> QED BY <2>1, <2>2, <2>3, <2>4, <2>5, <2>6, <2>7 DEF Next, ControlPlaneStep
<1> QED BY <1>2, <1>3

LEMMA LedgerInit == Init => Ledger!Init
<1> SUFFICES ASSUME Init PROVE Ledger!Init
  OBVIOUS
<1>1. /\ tokens = [t \in Tokens |-> "none"] /\ NoRows["enrollments"] = [t \in Tokens |-> "none"]
      /\ creds = [n \in NodeIds |-> 0] /\ NoRows["credentials"] = [n \in NodeIds |-> 0]
  BY EnrollmentAssumption DEF Init, EnrollmentInit
<1>2. up /\ Len(mints) = 0 /\ issued = {} /\ disk = NoRows /\ faults = 0
  BY DEF Init, StoreInit, EnrollmentInit
<1>3. InForceDefs
  BY InForceIs
<1>4. /\ TokensInForce = [t \in Tokens |-> "none"] /\ CredsInForce = [n \in NodeIds |-> 0]
      /\ TokensKept = [t \in Tokens |-> "none"] /\ CredsKept = [n \in NodeIds |-> 0]
      /\ MintsInForce = 0 /\ IssuedInForce = {} /\ FaultsInForce = 0
  BY <1>1, <1>2, <1>3 DEF InForceDefs
<1> QED BY <1>4 DEF Ledger!Init, Ledger!NoTokens, Ledger!NoCredentials

-----------------------------------------------------------------------------
(* Theorems *)

\* The invariant of memory, queue, file and database, of tokens, credentials and
\* builds holds of every behaviour.
THEOREM Invariance == Spec => []IInv
<1>1. IInv /\ [Next]_vars => IInv'
  BY StepInv
<1> QED BY InitInv, <1>1, PTL DEF Spec

\* Every variable keeps its type.
THEOREM TypeCorrect == Spec => []TypeOK
<1>1. IInv => TypeOK
  BY InvTypes DEF IInv
<1> QED BY Invariance, <1>1, PTL

\* A single-use token enrolls once in a life of the process, with any store and any
\* number of requests; and once in all its lives with a database that has taken the
\* use of it.
THEOREM EnrollsOnce == Spec => []TokenEnrollsOnce
<1>1. IInv => TokenEnrollsOnce
  BY DEF IInv, TokenInv
<1> QED BY Invariance, <1>1, PTL

\* What the process has in memory is what the store has or is going to have, but for
\* the rows whose last write or listing failed, however the queued writes, the
\* truncated files and the files that were left so stand.
THEOREM WritesThrough == Spec => []MemoryIsWritten
<1>1. ASSUME IInv, up, driver # "memory"
      PROVE  /\ \A t \in Tokens : \/ <<"enrollments", t>> \in missed
                                  \/ tokens[t] = RowToBe("enrollments", t)
             /\ \A n \in NodeIds : \/ <<"credentials", n>> \in missed
                                   \/ creds[n] = RowToBe("credentials", n)
  <2>1. "enrollments" \in Tables /\ "credentials" \in Tables /\ "enrollments" # "credentials"
    BY EnrollmentAssumption
  <2>2. driver = "sqlite" \/ driver = "localjson"
    BY <1>1, StoreAssumption DEF IInv, Types
  <2>3. Memory["enrollments"] = tokens /\ Memory["credentials"] = creds
    BY <2>1 DEF Memory
  <2>4. Ids("enrollments") = Tokens /\ Ids("credentials") = NodeIds
    BY <2>1 DEF Ids
  <2>5. ASSUME NEW t \in Tables, NEW i \in Ids(t)
        PROVE  Missed(t, i) \/ Memory[t][i] = RowToBe(t, i)
    <3>1. CASE driver = "sqlite"
      BY <1>1, <3>1 DEF IInv, StoreInv, Queued, Reflected, RowToBe
    <3>2. CASE driver = "localjson" /\ queue[t] # <<>>
      <4>1. /\ queue[t] \in Seq(PartialRows(t, Len(mints)))
            /\ ToBe(cache[t], queue[t], i, Memory[t][i])
        BY <1>1, <3>2 DEF IInv, StoreInv, Shaped, Reflected
      <4> QED BY <3>2, <4>1, ToBeRow
    <3>3. CASE driver = "localjson" /\ queue[t] = <<>>
      <4>1. t \notin writing
        BY <1>1, <3>3 DEF IInv, StoreInv, Queued
      <4>2. Missed(t, i) \/ disk[t][i] = cache[t][i]
        BY <1>1, <3>3, <4>1 DEF IInv, StoreInv, Reflected
      <4>3. Memory[t][i] = cache[t][i]
        <5>1. ToBe(cache[t], queue[t], i, Memory[t][i])
          BY <1>1, <3>3 DEF IInv, StoreInv, Reflected
        <5> QED BY <3>3, <5>1 DEF ToBe
      <4> QED BY <3>3, <4>2, <4>3 DEF RowToBe
    <3> QED BY <2>2, <3>1, <3>2, <3>3
  <2> QED BY <2>1, <2>3, <2>4, <2>5 DEF Missed
<1>2. IInv => MemoryIsWritten
  BY <1>1 DEF MemoryIsWritten
<1> QED BY Invariance, <1>2, PTL

\* With the database, the credential on record for a node is one minted for it, and
\* no later one was minted that the database has taken, whenever the control plane
\* runs and could list them.
THEOREM LastCounts == Spec => []LastCredentialCounts
<1>1. ASSUME IInv, up, driver = "sqlite", NEW n \in NodeIds
      PROVE  /\ creds[n] \in MintedFor(n) \cup {0}
             /\ <<"credentials", n>> \notin missed =>
                  \A i \in MintedFor(n) : "credentials" \in mints[i].taken => i <= creds[n]
  <2>1. Missed("credentials", n) \/ disk["credentials"][n] = creds[n]
    BY <1>1, TheTables DEF IInv, StoreInv, Reflected, Memory
  <2> QED BY <1>1, <2>1 DEF IInv, CredInv, Latest, Missed
<1>2. IInv => LastCredentialCounts
  BY <1>1 DEF LastCredentialCounts
<1> QED BY Invariance, <1>2, PTL

\* No machine ever runs code that no operator has registered, nor unsigned code
\* where signatures are checked.
THEOREM PublishedCode == Spec => []CodeIsPublished
<1>1. IInv => CodeIsPublished
  BY DEF IInv, CodeInv
<1> QED BY Invariance, <1>1, PTL

\* With the database the process, its memory and its tables, dying and starting at
\* any point, implement one ledger of tokens and credentials and its copy: every
\* enrollment is whole in the ledger, or has used a token up for nothing, and what
\* was granted is taken back only by a start after a write or in a listing that
\* failed (enroll, issueToken, load).
THEOREM ImplementsLedger == Spec => LedgerSpec
<1>1. IInv /\ [Next]_vars => [Ledger!Next]_Ledger!ledgerVars
  BY LedgerStep
<1> QED BY LedgerInit, Invariance, <1>1, PTL DEF Spec, LedgerSpec, Ledger!Spec
===============================================================================
