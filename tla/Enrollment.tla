------------------------------ MODULE Enrollment ------------------------------
(***************************************************************************)
(* Enrollment tokens and node credentials, held in memory, written through *)
(* to the store and read back from it when the control plane starts.       *)
(* Credentials are numbered in the order they are minted; a token is an    *)
(* element of Tokens, the hashes stand for what they are hashes of.        *)
(***************************************************************************)
EXTENDS StateStore, FiniteSets

CONSTANTS Tokens,    \* enrollment tokens, issued in any order
          Reusable,  \* those issued with oneTimeUse = false
          NodeIds,   \* "nodeType:nodeName"
          Scope      \* Scope[t]: node ids of the type t is scoped to, or all

ASSUME EnrollmentAssumption ==
  /\ Reusable \subseteq Tokens
  /\ Scope \in [Tokens -> SUBSET NodeIds]
  /\ Tables = {"enrollments", "credentials"}
  /\ NoRows = [t \in Tables |-> IF t = "enrollments" THEN [k \in Tokens |-> "none"]
                                                     ELSE [n \in NodeIds |-> 0]]

VARIABLES
  tokens,   \* tokens[t]: "none" without a record in memory, else "unused" or "used"
  creds,    \* creds[n]: the credential on record for node n, 0 without one
  expired,  \* tokens whose expiresAt has passed
  issued,   \* tokens that have been issued
  mints,    \* every credential minted: for which node, with which token, by which
            \* process, and which of its two rows the database has been given
  life      \* which process of the control plane runs

enrollment == <<tokens, creds, expired, issued, mints, life>>

EnrollmentInit ==
  /\ tokens = NoRows["enrollments"] /\ creds = NoRows["credentials"]
  /\ expired = {} /\ issued = {} /\ mints = <<>> /\ life = 0

Nothing == [i \in {} |-> "none"]
Writes(toTokens, toCreds) ==
  [t \in Tables |-> IF t = "enrollments" THEN toTokens ELSE toCreds]

\* issueToken, with the sweep of expired tokens it begins with.
IssueToken(t) ==
  LET swept == {k \in expired : tokens[k] # "none"}
      write == [k \in swept \cup {t} |-> IF k = t THEN "unused" ELSE "none"]
  IN  /\ up /\ t \notin issued
      /\ issued' = issued \cup {t}
      /\ tokens' = Apply(tokens, write)
      /\ Persist(Writes(write, Nothing))
      /\ UNCHANGED <<creds, expired, mints, life>>

TokenExpires(t) ==
  /\ t \in issued \ expired
  /\ expired' = expired \cup {t}
  /\ UNCHANGED <<tokens, creds, issued, mints, life, store, faults>>

\* The checks of enroll that a request of node n with token t must pass.
Valid(t, n) ==
  /\ tokens[t] # "none" /\ t \notin expired
  /\ tokens[t] = "unused" \/ t \in Reusable
  /\ n \in Scope[t]

\* The record of a credential minted for node n with token t.
Mint(t, n) ==
  [node |-> n, token |-> t, life |-> life,
   taken |-> IF driver # "sqlite" THEN {}
             ELSE {k \in Tables : <<k, IF k = "enrollments" THEN t ELSE n>> \notin missed'}]

\* Wrong on purpose: that the token is used is not written to the store.
MutGrants(t, n) ==
  LET c == Len(mints) + 1
  IN  /\ Valid(t, n)
      /\ tokens' = [tokens EXCEPT ![t] = "used"]
      /\ creds' = [creds EXCEPT ![n] = c]
      /\ Persist(Writes(Nothing, [i \in {n} |-> c]))
      /\ mints' = Append(mints, Mint(t, n))
      /\ UNCHANGED <<expired, issued, life>>

\* enroll: the token is used up, a new credential takes the place of the node's
\* former one.
Grants(t, n) ==
  LET c == Len(mints) + 1
  IN  /\ Valid(t, n)
      /\ tokens' = [tokens EXCEPT ![t] = "used"]
      /\ creds' = [creds EXCEPT ![n] = c]
      /\ Persist(Writes([k \in {t} |-> "used"], [i \in {n} |-> c]))
      /\ mints' = Append(mints, Mint(t, n))
      /\ UNCHANGED <<expired, issued, life>>

\* enroll throws; an expired token is removed.
Refuses(t, n) ==
  LET gone == {k \in {t} : k \in expired /\ tokens[k] # "none"}
      write == [k \in gone |-> "none"]
  IN  /\ ~ Valid(t, n)
      /\ tokens' = Apply(tokens, write)
      /\ Persist(Writes(write, Nothing))
      /\ UNCHANGED <<creds, expired, issued, mints, life>>

\* The process dies.
EnrollmentDies ==
  /\ StoreDies /\ UNCHANGED <<disk, enrollment>>

\* The process dies in enroll, when the database has the one write and not the other.
DiesEnrolling(t, n) ==
  /\ driver = "sqlite" /\ Valid(t, n)
  /\ StoreDies
  /\ disk' = [disk EXCEPT !["enrollments"] = [@ EXCEPT ![t] = "used"]]
  /\ UNCHANGED enrollment

\* Wrong on purpose: the credentials are not read back.
MutEnrollmentStarts ==
  /\ StoreStarts
  /\ missed' = {} /\ UNCHANGED faults
  /\ life' = life + 1
  /\ tokens' = disk["enrollments"]
  /\ creds' = NoRows["credentials"]
  /\ UNCHANGED <<expired, issued, mints>>

\* listen: the store's init, then load.  A table of the database that cannot be
\* listed counts as empty.
EnrollmentStarts ==
  /\ StoreStarts
  /\ \E unread \in SUBSET Tables :
       LET Loaded(t) == IF t \in unread THEN NoRows[t] ELSE disk[t]
       IN  /\ unread # {} => driver = "sqlite"
           /\ FaultIf(unread # {})
           /\ missed' = UNION {Rows(t) : t \in unread}
           /\ tokens' = Loaded("enrollments")
           /\ creds' = Loaded("credentials")
  /\ life' = life + 1
  /\ UNCHANGED <<expired, issued, mints>>
=============================================================================
