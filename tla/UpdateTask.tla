------------------------------ MODULE UpdateTask ------------------------------
(***************************************************************************)
(* What update_agent promises about the installed version, without the     *)
(* worker, its process or the steps of the update: between two updates     *)
(* `current` stays where it is; during one it moves only to the version of *)
(* the update, while that is verified and complete, or back to the one the *)
(* update found; files are written only before it has moved; and the       *)
(* outcome that is reported says which of the two it is (unless the swap   *)
(* of the link itself failed).  WorkerManager is shown to implement this.  *)
(***************************************************************************)
CONSTANTS Versions, Initial

VARIABLES open,      \* whether an update is under way
          from, to,  \* the version it found and its own
          current,   \* the version that a worker started now would run
          verified,  \* those that are verified and extracted completely
          outcome    \* what the last update reported

taskVars == <<open, from, to, current, verified, outcome>>

Init ==
  /\ open = FALSE
  /\ from = Initial /\ to = Initial
  /\ current = Initial /\ verified = {Initial}
  /\ outcome = "none"

Begin(v) ==
  /\ ~open
  /\ open' = TRUE
  /\ to' = v /\ from' = current
  /\ UNCHANGED <<current, verified, outcome>>

\* The files of `to` are replaced, which may fail half way ...
Overwrite ==
  /\ open
  /\ current = from
  /\ verified' = verified \ {to}
  /\ UNCHANGED <<open, from, to, current, outcome>>

\* ... or come to its end.
Verify ==
  /\ open
  /\ current = from
  /\ verified' = verified \cup {to}
  /\ UNCHANGED <<open, from, to, current, outcome>>

Install ==
  /\ open
  /\ to \in verified
  /\ current' = to
  /\ UNCHANGED <<open, from, to, verified, outcome>>

Undo ==
  /\ open
  /\ current' = from
  /\ UNCHANGED <<open, from, to, verified, outcome>>

End ==
  /\ open
  /\ open' = FALSE
  /\ \/ current = to /\ outcome' = "succeeded"
     \/ current = from /\ outcome' = "failed"
     \/ outcome' = "swap_failed"
  /\ UNCHANGED <<from, to, current, verified>>

Next == (\E v \in Versions : Begin(v)) \/ Overwrite \/ Verify \/ Install \/ Undo \/ End

Spec == Init /\ [][Next]_taskVars
===============================================================================
