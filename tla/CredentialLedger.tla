--------------------------- MODULE CredentialLedger ---------------------------
(***************************************************************************)
(* What enrollment promises when the store is a database: tokens and       *)
(* credentials are a ledger of which the database keeps a copy.  Enrolling *)
(* with a token marks it used and records the new credential at once, in   *)
(* the ledger and, but for the rows whose write fails, in the copy.  When  *)
(* the control plane dies and starts the copy takes effect, or, of a table *)
(* that cannot be listed, nothing; a death in the middle of an enrollment  *)
(* can also use the token up for nothing.  Each failure is a fault more.   *)
(* Onboarding, with its process, its queue of writes and its crashes, is   *)
(* shown to implement this.                                                *)
(***************************************************************************)
EXTENDS Naturals

CONSTANTS Tokens, Reusable, NodeIds, Scope  \* as in Enrollment

VARIABLES token,           \* token[t]: "none" without a record of t, "unused" or "used"
          credential,      \* credential[n]: the one that is recognized for node n, or 0
          keptTokens,      \* what the database has of the tokens
          keptCredentials, \* and of the credentials
          minted,          \* how many so far; they are numbered as they are minted
          issued,          \* tokens that have been issued
          faults           \* so far, in the database or elsewhere

ledger == <<token, credential, keptTokens, keptCredentials, minted, issued>>
ledgerVars == <<ledger, faults>>

NoTokens == [t \in Tokens |-> "none"]
NoCredentials == [n \in NodeIds |-> 0]

Init ==
  /\ token = NoTokens /\ keptTokens = NoTokens
  /\ credential = NoCredentials /\ keptCredentials = NoCredentials
  /\ minted = 0 /\ issued = {} /\ faults = 0

Without(gone) == [k \in Tokens |-> IF k \in gone THEN "none" ELSE token[k]]

\* The copy takes the rows written to it; fewer of them only by a fault.
Copied(copy, now, taken) == [k \in DOMAIN copy |-> IF k \in taken THEN now[k] ELSE copy[k]]
Taken(written) == {taken \in SUBSET written : taken = written \/ faults' > faults}
CopyTokens(written) ==
  \E taken \in Taken(written) : keptTokens' = Copied(keptTokens, token', taken)
CopyCredentials(written) ==
  \E taken \in Taken(written) : keptCredentials' = Copied(keptCredentials, credential', taken)

Issue(t) ==
  /\ t \notin issued
  /\ issued' = issued \cup {t}
  /\ \E gone \in SUBSET Tokens : /\ token' = [Without(gone) EXCEPT ![t] = "unused"]
                                 /\ CopyTokens(gone \cup {t})
  /\ UNCHANGED <<credential, keptCredentials, minted>>

Remove(t) ==
  /\ token' = Without({t})
  /\ CopyTokens({t})
  /\ UNCHANGED <<credential, keptCredentials, minted, issued>>

Enrolls(t, n) == n \in Scope[t] /\ token[t] \in {"unused"} \cup (IF t \in Reusable THEN {"used"} ELSE {})

Enroll(t, n) ==
  /\ Enrolls(t, n)
  /\ minted' = minted + 1
  /\ token' = [token EXCEPT ![t] = "used"]
  /\ credential' = [credential EXCEPT ![n] = minted']
  /\ CopyTokens({t}) /\ CopyCredentials({n})
  /\ UNCHANGED issued

Die ==
  /\ token' = keptTokens' /\ credential' = keptCredentials'
  /\ \/ UNCHANGED keptTokens
     \/ \E t \in Tokens : /\ \E n \in NodeIds : Enrolls(t, n)
                          /\ keptTokens' = [keptTokens EXCEPT ![t] = "used"]
  /\ UNCHANGED <<keptCredentials, minted, issued>>

Start ==
  /\ \/ token' = keptTokens /\ credential' = keptCredentials
     \/ /\ faults' > faults
        /\ token' \in {keptTokens, NoTokens} /\ credential' \in {keptCredentials, NoCredentials}
  /\ UNCHANGED <<keptTokens, keptCredentials, minted, issued>>

Next == /\ faults' >= faults
        /\ \/ UNCHANGED ledger
           \/ Start \/ Die
           \/ \E t \in Tokens : Issue(t) \/ Remove(t) \/ \E n \in NodeIds : Enroll(t, n)

Spec == Init /\ [][Next]_ledgerVars
===============================================================================
