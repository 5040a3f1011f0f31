------------------------------ MODULE MCEvidence ------------------------------
(***************************************************************************)
(* Two workers whose browsers meet a page that works from Akamai's edge,   *)
(* one that fails, one that cannot be reached and one that is healthy but  *)
(* fronted by Imperva.  The name of the host says nothing, or it contains  *)
(* both "ssl" and "timeout".                                               *)
(***************************************************************************)
EXTENDS Evidence, TLC

MCPages ==
  {[status |-> "200", nav |-> "none", marks |-> {"akamaighost"}],
   [status |-> "404", nav |-> "none", marks |-> {}],
   [status |-> "200", nav |-> "none", marks |-> {"x-iinfo"}],
   [status |-> "none", nav |-> "ERR_CONNECTION_TIMED_OUT", marks |-> {}]}

MCHosts == {{}, {"tls", "timeout"}}

\* Workers are alike, and so are the digests of screenshots.
Alike == Permutations(Nodes) \cup Permutations(Shots)
=============================================================================
