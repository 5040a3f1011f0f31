-------------------------------- MODULE Probe --------------------------------
(***************************************************************************)
(* How the fast probe names a failure (agent/probe/initial-test.mjs).  The *)
(* regular expressions of the code are applied to error texts.  A text is  *)
(* the set of the groups of expressions that find something in it; there   *)
(* is one member of the sets of errors for each that is told apart.        *)
(***************************************************************************)

\* The groups, in the order reasonFromError tries them.
Groups == {"dns", "tls", "timeout", "tcp"}

\* dns.lookup, the socket of timeConnect, its TLS handshake, and fetch.
DnsErrors == {"ENOTFOUND", "EAI_FAIL"}
TcpErrors == {"TIMEOUT", "ECONNREFUSED"}
TlsErrors == {"TIMEOUT", "ECONNRESET", "CERT_HAS_EXPIRED"}
FetchErrors == {"TIMEOUT", "ENOTFOUND", "ECONNRESET", "CERT_HAS_EXPIRED", "ETIMEDOUT"}

\* What is found in an error's name: /TIMEOUT/ does not match ETIMEDOUT, and no
\* expression matches EAI_FAIL or TOO_MANY_REDIRECTS.
ErrorText(e) ==
  CASE e = "ENOTFOUND"                       -> {"dns"}
    [] e = "CERT_HAS_EXPIRED"                -> {"tls"}
    [] e = "TIMEOUT"                         -> {"timeout"}
    [] e \in {"ECONNREFUSED", "ECONNRESET"}  -> {"tcp"}
    [] OTHER                                 -> {}

\* The text of a failed lookup, "getaddrinfo EAI_FAIL www.example.org", also
\* holds the host name and whatever the expressions find in that.
LookupText(e, host) == ErrorText(e) \cup host

Reasons == {"OK", "UNKNOWN", "HTTP_ERROR", "DNS_FAILURE", "TCP_FAILURE",
            "TLS_FAILURE", "TIMEOUT", "NETWORK_FAILURE"}

reasonFromError(text) ==
  CASE "dns" \in text                                        -> "DNS_FAILURE"
    [] "tls" \in text /\ "dns" \notin text                   -> "TLS_FAILURE"
    [] "timeout" \in text /\ text \cap {"dns", "tls"} = {}   -> "TIMEOUT"
    [] text = {"tcp"}                                        -> "TCP_FAILURE"
    [] OTHER                                                 -> "NETWORK_FAILURE"

\* The reason thrown by a layer that failed: only HTTP looks at the error.
layeredReason(layer, text) ==
  CASE layer = "tcp"  -> "TCP_FAILURE"
    [] layer = "tls"  -> "TLS_FAILURE"
    [] layer = "http" -> IF "timeout" \in text THEN "TIMEOUT" ELSE reasonFromError(text)

\* The layer of a failure that no layer was thrown with: dns.lookup's.
failureLayerFromReason(reason) ==
  CASE reason = "DNS_FAILURE" -> "dns"
    [] reason = "TCP_FAILURE" -> "tcp"
    [] reason = "TLS_FAILURE" -> "tls"
    [] reason = "TIMEOUT"     -> "timeout"
    [] OTHER                  -> "none"
=============================================================================
