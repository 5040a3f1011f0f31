-------------------------- MODULE BrowserValidation --------------------------
(***************************************************************************)
(* What the browser validation makes of a page (agent/browser/             *)
(* browser-validation.mjs, har.mjs).  A page is what page.goto left: the   *)
(* response's status, or none; the error of the navigation, or none; and   *)
(* the marks found in its title, text and headers, one mark for each       *)
(* group of expressions the code tells apart.                              *)
(***************************************************************************)

Statuses == {"none", "200", "403", "429", "404"}

NavErrors == {"none", "timeout", "ERR_NAME_NOT_RESOLVED", "ERR_CERT_DATE_INVALID",
              "ERR_ABORTED", "ERR_CONNECTION_REFUSED", "ERR_CONNECTION_TIMED_OUT"}

Marks == {"cf-mitigated", "interstitial text", "human text",  \* Cloudflare
          "akamaighost", "denied text", "forbidden text",     \* Akamai
          "x-iinfo", "incapsula text",                        \* Imperva
          "px text",                                          \* PerimeterX
          "x-datadome", "datadome text"}                      \* DataDome

Page == [status : Statuses, nav : NavErrors, marks : SUBSET Marks]

BlockingStatuses == {"403", "429"}

Marked(page, marks) == page.marks \cap marks # {}

AkamaiDenies(page) ==
  \/ Marked(page, {"denied text"})
  \/ "akamaighost" \in page.marks /\ (page.status = "403" \/ Marked(page, {"forbidden text"}))

\* The reason of the first vendor that matches, or "none".
detectChallenge(page) ==
  IF Marked(page, {"cf-mitigated", "interstitial text"})
    THEN IF "human text" \in page.marks THEN "CAPTCHA" ELSE "CLOUDFLARE_CHALLENGE"
  ELSE IF AkamaiDenies(page) THEN "AKAMAI_BLOCK"
  ELSE IF Marked(page, {"x-iinfo", "incapsula text"}) THEN "IMPERVA_BLOCK"
  ELSE IF Marked(page, {"px text"}) THEN "PX_BLOCK"
  ELSE IF Marked(page, {"x-datadome", "datadome text"}) THEN "DATADOME_BLOCK"
  ELSE IF page.status \in BlockingStatuses /\ Marked(page, {"forbidden text", "human text"})
    THEN "WAF_BLOCK"
  ELSE "none"

\* ERR_CONNECTION_TIMED_OUT is matched by none of the expressions.
mapNetworkError(nav) ==
  CASE nav = "ERR_NAME_NOT_RESOLVED"    -> "DNS_FAILURE"
    [] nav = "ERR_CERT_DATE_INVALID"    -> "TLS_FAILURE"
    [] nav = "ERR_ABORTED"              -> "TIMEOUT"
    [] nav = "ERR_CONNECTION_REFUSED"   -> "TCP_FAILURE"
    [] OTHER                            -> "NETWORK_FAILURE"

outcome(ok, pageClassification, specificReason) ==
  [ok |-> ok, pageClassification |-> pageClassification, specificReason |-> specificReason]

classifyOutcome(page) ==
  IF page.nav = "timeout" THEN outcome(FALSE, "timeout", "TIMEOUT")
  ELSE IF page.nav # "none" /\ page.status = "none"
       THEN outcome(FALSE, "network_failure", mapNetworkError(page.nav))
  ELSE IF detectChallenge(page) # "none"
       THEN outcome(FALSE, "challenge_or_block", detectChallenge(page))
  ELSE CASE page.status = "none" -> outcome(FALSE, "browser_error", "UNKNOWN")
         [] page.status \in {"403", "429", "404"} -> outcome(FALSE, "http_error", "HTTP_ERROR")
         [] OTHER -> outcome(TRUE, "user_visible_ok", "OK")

\* What is answered when the browser itself failed.
browserError == outcome(FALSE, "browser_error", "UNKNOWN")

\* Wrong on purpose: the archive of a page that worked is kept.
MutShouldKeepHar(validationOk) == validationOk

\* har.mjs: the archive of the network traffic is kept of failures only.
shouldKeepHar(validationOk) == ~validationOk
=============================================================================
