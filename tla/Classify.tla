------------------------------ MODULE Classify ------------------------------
(***************************************************************************)
(* Arm comparison and classification of a URL                              *)
(* (control-plane/comparison/classify.mjs): the answers of the nodes of    *)
(* one network arm are folded into an arm status, the two GSA arms are     *)
(* combined into one, and the arm statuses decide the classification.      *)
(* These are pure operators; nothing here is recursive.                    *)
(***************************************************************************)

NodeTypes == {"azure_direct", "gsa_remotenet", "gsa_client",
              "cloudflare_client", "external_direct"}

ArmStatuses == {"ok", "fail", "mixed", "unavailable"}

Classifications ==
  {"healthy", "likely_gsa_impacting", "likely_cloudflare_impacting",
   "azure_direct_environment_issue", "azure_egress_or_region_issue",
   "common_destination_or_site_issue", "node_group_disagreement",
   "inconclusive", "pending"}

\* What a node answered: the `ok` field of its result.
Outcome == {"ok", "fail"}

(***************************************************************************)
(* The code counts how many usable answers are ok: none usable, all, zero  *)
(* or some.  The set of answers given tells those four cases apart.        *)
(***************************************************************************)
armStatus(answers) ==
  CASE answers = {}                              -> "unavailable"
    [] answers = {"ok"}                          -> "ok"
    [] answers # {} /\ "ok" \notin answers       -> "fail"
    [] "ok" \in answers /\ answers # {"ok"}      -> "mixed"

combineGsa(remotenet, client) ==
  LET arms == {remotenet, client}
  IN  CASE "mixed" \in arms \/ {"ok", "fail"} \subseteq arms -> "mixed"
        [] arms \in {{"ok"}, {"ok", "unavailable"}}          -> "ok"
        [] arms \in {{"fail"}, {"fail", "unavailable"}}      -> "fail"
        [] OTHER                                             -> "unavailable"

\* Wrong on purpose: a GSA arm that did not fail counts as passed.
MutClassify(arms) ==
  LET gsa == combineGsa(arms["gsa_remotenet"], arms["gsa_client"])
  IN  CASE gsa = "mixed" -> "node_group_disagreement"
        [] arms["azure_direct"] = "ok" /\ gsa \in {"ok", "unavailable"} -> "healthy"
        [] OTHER -> "inconclusive"

\* `arms` gives a status to every node type.
classify(arms) ==
  LET azure == arms["azure_direct"]
      gsa   == combineGsa(arms["gsa_remotenet"], arms["gsa_client"])
      cf    == arms["cloudflare_client"]
      ext   == arms["external_direct"]
  IN  IF gsa = "mixed" THEN "node_group_disagreement"
      ELSE CASE azure = "ok" /\ gsa = "ok" ->
                  IF cf = "fail" THEN "likely_cloudflare_impacting" ELSE "healthy"
             [] azure = "ok" /\ gsa = "fail" -> "likely_gsa_impacting"
             [] azure = "fail" /\ "ok" \in {gsa, cf} -> "azure_direct_environment_issue"
             [] azure = "fail" /\ gsa = "fail" /\ cf # "ok" ->
                  IF ext = "ok" THEN "azure_egress_or_region_issue"
                                ELSE "common_destination_or_site_issue"
             [] OTHER -> "inconclusive"
=============================================================================
