----------------------------- MODULE MCExposition ---------------------------
(* Small instance of Exposition, and with it of Metrics, for TLC. *)
EXTENDS Exposition

T(n, l, p, e, x) == [name |-> n, labels |-> l, type |-> p, emitCert |-> e, proxy |-> x]

\* Every probe type once, http with and without certificate metrics; "p" is
\* one target name whose proxy and labels change between configurations.
MCTargets == {T("tcp", "l", "tcp", FALSE, None), T("icmp", "l", "icmp", FALSE, None),
              T("mtu", "l", "mtu", FALSE, None), T("dns", "l", "dns", FALSE, None),
              T("tls", "l", "tls_cert", FALSE, None),
              T("body", "l", "http_body", FALSE, None),
              T("con", "l", "proxy_connect", FALSE, "e1"),
              T("p", "l", "http", TRUE, None), T("p", "l1", "http", FALSE, "e1"),
              T("p", "l1", "http", FALSE, "e2")}

\* Nothing observed.
Bare(v) == [val |-> v, phases |-> {}, connect |-> FALSE, http |-> FALSE, trunc |-> FALSE,
            chain |-> {}, replies |-> 0, mtu |-> FALSE, mtuState |-> "error",
            dnsEval |-> FALSE, bodyEval |-> FALSE]

\* Everything the probe type can observe.
Full(p, v) ==
    CASE p = "http" -> [Bare(v) EXCEPT !.phases = {"tcp_connect", "tls_handshake"},
                            !.connect = TRUE, !.http = TRUE, !.trunc = TRUE,
                            !.chain = {"leaf", "root"}]
      [] p = "http_body" -> [Bare(v) EXCEPT !.phases = {"ttfb"}, !.connect = TRUE,
                            !.http = TRUE, !.bodyEval = TRUE]
      [] p = "tls_cert" -> [Bare(v) EXCEPT !.phases = {"tls_handshake"}, !.connect = TRUE,
                            !.chain = {"leaf", "root"}]
      [] p = "proxy_connect" -> [Bare(v) EXCEPT !.phases = {"proxy_dial"}, !.connect = TRUE]
      [] p = "tcp" -> [Bare(v) EXCEPT !.phases = {"dns_resolve", "tcp_connect"}]
      [] p = "icmp" -> [Bare(v) EXCEPT !.phases = {"dns_resolve"}, !.replies = 2]
      [] p = "mtu" -> [Bare(v) EXCEPT !.replies = 2, !.mtu = TRUE, !.mtuState = "ok"]
      [] p = "dns" -> [Bare(v) EXCEPT !.dnsEval = TRUE]

\* Two values, and results that stop halfway.
MCResults(p) ==
    {Full(p, "v2")}
    \union (IF p = "tcp" THEN {} ELSE {Bare("v1")})
    \union (IF p \in {"tcp", "dns"} THEN {} ELSE {Full(p, "v1")})
    \union (IF p = "http"
              THEN {[Full(p, "v2") EXCEPT !.trunc = FALSE, !.chain = {"leaf"}],
                    [Bare("v2") EXCEPT !.phases = {"tcp_connect"}]} ELSE {})
    \union (IF p = "tls_cert" THEN {[Full(p, "v2") EXCEPT !.chain = {"leaf"}]} ELSE {})
    \union (IF p = "http_body" THEN {[Full(p, "v2") EXCEPT !.bodyEval = FALSE]} ELSE {})
    \union (IF p \in {"icmp", "mtu"} THEN {[Full(p, "v2") EXCEPT !.replies = 1]} ELSE {})
    \union (IF p = "mtu" THEN {[Full(p, "v1") EXCEPT !.mtuState = "degraded"]} ELSE {})

MCKeys == {{"region"}, {}}

\* Every target alone, and two small ones that record at the same time.
MCTogether == {{}} \union {{t} : t \in MCTargets}
    \union {{T("tcp", "l", "tcp", FALSE, None), T("dns", "l", "dns", FALSE, None)}}
=============================================================================
