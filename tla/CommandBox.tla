------------------------------ MODULE CommandBox ------------------------------
(***************************************************************************)
(* What the control channel promises for the commands that registry.send   *)
(* accepts, without transports, polls or processes: a command that is sent *)
(* is lost at once or waits; what waits is handed to the supervisor's      *)
(* router in batches, in any order, or lost; and nothing of it is left to  *)
(* be handed over again.  ControlChannel is shown to implement this.       *)
(***************************************************************************)
EXTENDS Naturals

CONSTANT Max      \* bound: commands sent

VARIABLES sent,     \* how many so far; they are numbered as they are sent
          waiting,  \* those that may still be handed over
          received  \* received[m]: how often command m has been handed over

boxVars == <<sent, waiting, received>>

Init ==
  /\ sent = 0
  /\ waiting = {}
  /\ received = [m \in 1..Max |-> 0]

Send ==
  /\ sent < Max
  /\ sent' = sent + 1
  /\ waiting' \in {waiting, waiting \cup {sent'}}
  /\ UNCHANGED received

HandOver(batch) ==
  /\ waiting' = waiting \ batch
  /\ received' = [m \in 1..Max |-> IF m \in batch THEN received[m] + 1 ELSE received[m]]
  /\ UNCHANGED sent

Lose(batch) ==
  /\ waiting' = waiting \ batch
  /\ UNCHANGED <<sent, received>>

Next ==
  \/ Send
  \/ \E batch \in SUBSET waiting : HandOver(batch) \/ Lose(batch)

Spec == Init /\ [][Next]_boxVars
===============================================================================
