------------------------------- MODULE Report --------------------------------
(***************************************************************************)
(* The final report of a run (control-plane/reporting/final-report.mjs).   *)
(* It is rendered on request, at any moment of the run, from the rows the  *)
(* orchestrator has written so far, and works the arm statuses out again   *)
(* from the results instead of taking them from the comparison: what the   *)
(* orchestrator decided and what the report shows meet only in the reader. *)
(*                                                                         *)
(* The rows are taken to be the orchestrator's records, as they are with   *)
(* the memory and sqlite adapters, whose writes are synchronous; a write   *)
(* that is queued or lost is the subject of StateStore.                    *)
(***************************************************************************)
EXTENDS RunOrchestrator

Arm_Columns == {"azure_direct", "gsa_remotenet", "gsa_client",
                "cloudflare_client", "external_direct"}

\* The columns before column t, from left to right.
Before(t) ==
  CASE t = "azure_direct"      -> {}
    [] t = "gsa_remotenet"     -> {"azure_direct"}
    [] t = "gsa_client"        -> {"azure_direct", "gsa_remotenet"}
    [] t = "cloudflare_client" -> {"azure_direct", "gsa_remotenet", "gsa_client"}
    [] t = "external_direct"   -> Arm_Columns \ {"external_direct"}

GsaColumns == {"gsa_remotenet", "gsa_client"}

\* Wrong on purpose: the probe's answer hides that of the browser.
MutEffectiveFor(u, n) ==
  LET s == [stage \in Stages |-> results[<<u, n, stage>>]]
  IN  IF s["initial_test"] # "missing" THEN s["initial_test"] ELSE s["browser_validation"]

effectiveFor(u, n) ==
  LET s == [stage \in Stages |-> results[<<u, n, stage>>]]
  IN  IF s["browser_validation"] # "missing" THEN s["browser_validation"] ELSE s["initial_test"]

\* The nodes of column t, and the status the column shows.
CellNodes(u, t) == OfType(selected[u], t)

CellStatus(u, t) ==
  armStatus({effectiveFor(u, n) : n \in CellNodes(u, t)} \ {"missing"})

Failing(u, t) == {n \in CellNodes(u, t) : effectiveFor(u, n) = "fail"}

\* The comparison's classification, which finalize writes with the URL's own.
classificationOf(u) == classification[u]

\* The column that primary_reason is taken from, or "none".
primaryArm(u) ==
  IF \A t \in Arm_Columns : Failing(u, t) = {} THEN "none"
  ELSE CHOOSE t \in Arm_Columns :
         Failing(u, t) # {} /\ \A s \in Before(t) : Failing(u, s) = {}

\* The rows of the URL's block in "Failure evidence"; no rows, no block.
evidenceRows(u) ==
  IF classificationOf(u) \in {"healthy", "pending"} THEN {}
  ELSE {row \in Arm_Columns \X Nodes : row[2] \in Failing(u, row[1])}

UrlViews(r) == {u \in Urls : r \in runOf[u]}

\* How many URLs the summary counts under c.
Summary(r, c) == Cardinality({u \in UrlViews(r) : classificationOf(u) = c})

\* The nodes listed: those the URLs selected, or the registry if there is none.
NodeInventory(r, registry) ==
  LET chosen == UNION {selected[u] : u \in UrlViews(r)}
  IN  IF chosen # {} THEN chosen ELSE registry
-----------------------------------------------------------------------------
(* Properties *)

\* The columns a classification accuses.
Accused ==
  [c \in {"likely_gsa_impacting", "likely_cloudflare_impacting",
          "azure_direct_environment_issue", "azure_egress_or_region_issue",
          "common_destination_or_site_issue"} |->
     CASE c = "likely_gsa_impacting"        -> GsaColumns
       [] c = "likely_cloudflare_impacting" -> {"cloudflare_client"}
       [] OTHER                             -> {"azure_direct"}]

\* A report never contradicts itself, whenever it is rendered: a URL whose
\* classification accuses an arm shows that arm as failed, takes its primary
\* reason from it and has evidence rows for it, so that the summary counts
\* no accusation without a block of evidence; a disagreement shows a node of
\* each opinion; and a healthy URL shows every compared column ok or empty.
BlameHasEvidence ==
  \A r \in Runs :
    /\ \A u \in UrlViews(r) :
         /\ classificationOf(u) \in DOMAIN Accused =>
              /\ primaryArm(u) \in Accused[classificationOf(u)]
              /\ CellStatus(u, primaryArm(u)) = "fail"
              /\ \E row \in evidenceRows(u) : row[1] = primaryArm(u)
         /\ classificationOf(u) = "node_group_disagreement" =>
              /\ \E row \in evidenceRows(u) : row[1] \in GsaColumns
              /\ \E t \in GsaColumns : CellStatus(u, t) \in {"ok", "mixed"}
         /\ classificationOf(u) = "healthy" =>
              \A t \in GsaColumns \cup {"azure_direct"} : CellStatus(u, t) \in {"ok", "unavailable"}
         /\ \A row \in evidenceRows(u) : row[2] \in NodeInventory(r, live)
    /\ \A c \in DOMAIN Accused :
         Summary(r, c) = Cardinality({u \in UrlViews(r) :
                                        classificationOf(u) = c /\ evidenceRows(u) # {}})
=============================================================================
