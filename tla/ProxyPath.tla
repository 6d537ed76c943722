----------------------------- MODULE ProxyPath -----------------------------
(***************************************************************************)
(* One probe routed through a proxy: the tunnel of proxy_tunnel.go, the    *)
(* exchange of http_proxy_path.go and the four probers that use them: the  *)
(* redirect loops of http and http_body, tls_cert, and proxy_connect.      *)
(*                                                                         *)
(* A call that waits for the peer has a step in which the peer answers     *)
(* (never fair) and an error step (fair once the call is interrupted): by  *)
(* the context for dials and TLS handshakes, by the connection's deadline  *)
(* for reads and writes.                                                   *)
(***************************************************************************)
EXTENDS ProberOptions, FiniteSets

VARIABLES
    cfg,            \* the target's options and its proxy's scheme
    proxyPC,
    scheme,         \* the scheme of currentURL
    req,            \* currentMethod, currentBody and the Content-Type entries of currentHeaders
    hop,
    proxyOpen,      \* hops whose connection is open
    proxyDeadline,  \* the connection has a deadline
    reply,          \* the last response: its status, its Location, and whether closing it drains
    phases,         \* the phase map of the exchange
    connect,        \* connectResp of the exchange
    cancelled,      \* the probe's context was cancelled
    expired,        \* the probe's timeout has passed
    proxyResult,
    connects,       \* history: CONNECT statuses, in order
    downgraded      \* history: a 301, 302 or 303 was followed

ctxVars == <<cancelled, expired>>
history == <<connects, downgraded>>
proxyVars == <<cfg, proxyPC, scheme, req, hop, proxyOpen, proxyDeadline, reply, phases, connect,
               ctxVars, proxyResult, history>>

HTTPKinds == {"http", "http_body"}
Statuses == {200, 403}
Phases == {"proxy_dial", "proxy_tls", "proxy_connect", "tls_handshake", "request_write",
           "ttfb", "transfer"}

\* What validation leaves: a request body needs probe_type http and method
\* POST, and only the HTTP probers take headers and redirects.
Options ==
    {c \in [kind : Kinds, proxyTLS : BOOLEAN, method : {"GET", "HEAD", "POST"},
            body : BOOLEAN, ctype : ContentTypes, follow : BOOLEAN,
            expected : SUBSET Statuses] :
        /\ c.body => c.kind = "http" /\ c.method = "POST"
        /\ c.kind \notin HTTPKinds => c.method = "GET" /\ c.ctype = "none" /\ ~c.follow
        /\ c.kind # "proxy_connect" => c.expected = {}}

\* The Content-Type entries of the header map.  The default is added unless the
\* map has the key "Content-Type" in that spelling.
initialTypes(c) ==
    {t \in {"custom", "octet-stream"} :
        IF t = "custom" THEN c.ctype # "none" ELSE c.body /\ c.ctype # "canonical"}

NoReply == [status |-> "none", location |-> "none", drain |-> FALSE]

ProxyInit ==
    /\ cfg \in Options
    /\ scheme \in IF cfg.kind \in HTTPKinds THEN {"http", "https"} ELSE {"https"}
    /\ req = [method |-> cfg.method, body |-> cfg.body, types |-> initialTypes(cfg)]
    /\ proxyPC = "dial" /\ hop = 0 /\ proxyOpen = {} /\ proxyDeadline = FALSE
    /\ reply = NoReply /\ phases = {} /\ connect = None
    /\ cancelled = FALSE /\ expired = FALSE
    /\ proxyResult = [outcome |-> "none", connect |-> None, phases |-> {}, truncated |-> FALSE,
                 type |-> "none"]
    /\ connects = <<>> /\ downgraded = FALSE

ProxyCtxDone == cancelled \/ expired

\* The call at pc returns an error whatever the peer does.
Interrupted ==
    IF proxyPC \in {"dial", "proxy_tls", "target_tls"} THEN ProxyCtxDone
                                                       ELSE proxyDeadline /\ expired

\* Where the proxy connection leads once its own TLS, if any, is up.
afterProxy == IF scheme = "https" THEN "connect" ELSE "write"

\* MUTANT: the exchange relies on the context alone
exchangeDeadlineUnset == FALSE

\* executeProxyHTTPExchange applies the context's deadline to the connection.
exchangeDeadline == TRUE

\* dialProxyTunnel does it before CONNECT.
tunnelDeadline == TRUE

deadlineAt(next) ==
    CASE next = "connect" -> tunnelDeadline
      [] next = "write" -> exchangeDeadline
      [] OTHER -> FALSE

\* The first CONNECT status a probe observes is the one it reports.
firstConnect == IF proxyResult.connect = None THEN connect ELSE proxyResult.connect

\* 200 stands for every 2xx status, 403 for every other.  Only proxy_connect
\* has a list of expected statuses.
tunnelVerdict ==
    IF connect \in (IF cfg.expected = {} THEN {200} ELSE cfg.expected)
        THEN "success" ELSE "error"

\* The connection, if there is one, is closed and the probe returns with phases ph.
ReturnProxy(ph, outcome) ==
    /\ proxyOpen' = proxyOpen \ {hop}
    /\ phases' = ph
    /\ proxyResult' = [proxyResult EXCEPT !.outcome = outcome, !.phases = ph,
                                          !.connect = firstConnect]
    /\ proxyPC' = "done"
    /\ UNCHANGED <<cfg, scheme, req, hop, proxyDeadline, reply, connect, history>>

\* MUTANT: the hops share one phase map
sharedPhases == phases

\* Every dial makes a new phase map.
newPhases == {}

Dial ==
    /\ proxyPC = "dial" /\ ~Interrupted
    /\ proxyOpen' = proxyOpen \union {hop}
    /\ phases' = newPhases \union {"proxy_dial"}
    /\ proxyPC' = IF cfg.proxyTLS THEN "proxy_tls" ELSE afterProxy
    /\ proxyDeadline' = deadlineAt(proxyPC')
    /\ UNCHANGED <<cfg, scheme, req, hop, reply, connect, proxyResult, history>>

DialFails == proxyPC = "dial" /\ ReturnProxy(newPhases \union {"proxy_dial"}, "error")

ProxyTLS ==
    /\ proxyPC = "proxy_tls" /\ ~Interrupted
    /\ phases' = phases \union {"proxy_tls"}
    /\ proxyPC' = afterProxy
    /\ proxyDeadline' = deadlineAt(proxyPC')
    /\ UNCHANGED <<cfg, scheme, req, hop, proxyOpen, reply, connect, proxyResult, history>>

ProxyTLSFails == proxyPC = "proxy_tls" /\ ReturnProxy(phases \union {"proxy_tls"}, "error")

\* SetDeadline fails before CONNECT is written.
TunnelDeadlineFails == proxyPC = "connect" /\ ReturnProxy(phases, "error")

\* The CONNECT request is answered with status s; its body is closed next.
Connect(s, drain) ==
    /\ proxyPC = "connect" /\ ~Interrupted
    /\ phases' = phases \union {"proxy_connect"}
    /\ connect' = s
    /\ connects' = Append(connects, s)
    /\ reply' = [NoReply EXCEPT !.drain = drain]
    /\ proxyPC' = "connect_close"
    /\ UNCHANGED <<cfg, scheme, req, hop, proxyOpen, proxyDeadline, proxyResult, downgraded>>

ConnectFails == proxyPC = "connect" /\ ReturnProxy(phases \union {"proxy_connect"}, "error")

\* resp.Body.Close has returned and the proxy refused: dialProxyTunnel closes the connection.
ConnectRefused ==
    /\ proxyPC = "connect_close" /\ connect # 200
    /\ ReturnProxy(phases, tunnelVerdict)

\* proxy_connect has its answer and closes the tunnel.
ProxyConnected ==
    /\ proxyPC = "connect_close" /\ connect = 200 /\ cfg.kind = "proxy_connect"
    /\ ReturnProxy(phases, tunnelVerdict)

\* The HTTP probers clear the tunnel's deadline, tls_cert keeps it.
TunnelUp ==
    /\ proxyPC = "connect_close" /\ connect = 200 /\ cfg.kind # "proxy_connect"
    /\ proxyDeadline' = (cfg.kind = "tls_cert")
    /\ reply' = NoReply
    /\ proxyPC' = "target_tls"
    /\ UNCHANGED <<cfg, scheme, req, hop, proxyOpen, phases, connect, proxyResult, history>>

TargetTLS ==
    /\ proxyPC = "target_tls" /\ ~Interrupted /\ cfg.kind \in HTTPKinds
    /\ phases' = phases \union {"tls_handshake"}
    /\ proxyPC' = "write"
    /\ proxyDeadline' = deadlineAt(proxyPC')
    /\ UNCHANGED <<cfg, scheme, req, hop, proxyOpen, reply, connect, proxyResult, history>>

\* tls_cert reads the certificates, if there are any, and closes the connection.
CertsRead(found) ==
    /\ proxyPC = "target_tls" /\ ~Interrupted /\ cfg.kind = "tls_cert"
    /\ ReturnProxy(phases \union {"tls_handshake"}, IF found THEN "success" ELSE "error")

TargetTLSFails == proxyPC = "target_tls" /\ ReturnProxy(phases \union {"tls_handshake"}, "error")

\* http.NewRequestWithContext fails.
RequestFails == proxyPC = "write" /\ ReturnProxy(phases, "error")

\* Header.Set is called in map order, so any Content-Type entry may be the last.
Write(type) ==
    /\ proxyPC = "write" /\ ~Interrupted
    /\ type \in IF req.types = {} THEN {"none"} ELSE req.types
    /\ phases' = phases \union {"request_write"}
    /\ proxyResult' = [proxyResult EXCEPT !.type = type]
    /\ proxyPC' = "read"
    /\ UNCHANGED <<cfg, scheme, req, hop, proxyOpen, proxyDeadline, reply, connect, history>>

WriteFails == proxyPC = "write" /\ ReturnProxy(phases \union {"request_write"}, "error")

\* The statuses isRedirect accepts: 301, 302 and 303 are "see", 307 and 308 "keep".
isRedirect(status) == status \in {"see", "keep"}

\* The response header is parsed.  Its body is read, or closed to follow the redirect.
Read(r) ==
    /\ proxyPC = "read" /\ ~Interrupted
    /\ req.method = "HEAD" => ~r.drain
    /\ reply' = r
    /\ phases' = phases \union {"ttfb"}
    /\ proxyResult' = [proxyResult EXCEPT !.connect = firstConnect]
    /\ proxyPC' = IF cfg.follow /\ isRedirect(r.status) /\ r.location # "none"
                THEN "hop_close" ELSE "body"
    /\ UNCHANGED <<cfg, scheme, req, hop, proxyOpen, proxyDeadline, connect, history>>

ReadFails(firstByte) ==
    /\ proxyPC = "read"
    /\ ReturnProxy(phases \union (IF firstByte THEN {"ttfb"} ELSE {}), "error")

\* MUTANT: a 307 or 308 always keeps the configured headers
redirectedRequestKeepsHeaders(status) ==
    [method |-> IF status = "see" /\ req.method = "POST" THEN "GET" ELSE req.method,
     body |-> status = "keep" /\ req.method = "POST" /\ cfg.body,
     types |-> IF status = "see" THEN {} ELSE initialTypes(cfg)]

\* The request of the next hop.
redirectedRequest(status) ==
    [method |-> IF status = "see" /\ req.method = "POST" THEN "GET" ELSE req.method,
     body |-> status = "keep" /\ req.method = "POST" /\ cfg.body,
     types |-> IF status = "keep" /\ req.method = "POST" THEN initialTypes(cfg) ELSE {}]

redirectLimitReached == hop >= proxyRedirectLimit - 1

\* MUTANT: only the reader is closed
bodyCloseReaderOnly == proxyOpen

\* connBackedBody.Close closes the connection after the reader.
bodyClose == proxyOpen \ {hop}

\* Location does not parse or has a scheme other than http and https: no phases are reported.
RedirectInvalid ==
    /\ proxyPC = "hop_close" /\ reply.location = "invalid"
    /\ proxyOpen' = bodyClose
    /\ proxyResult' = [proxyResult EXCEPT !.outcome = "error"]
    /\ proxyPC' = "done"
    /\ UNCHANGED <<cfg, scheme, req, hop, proxyDeadline, reply, phases, connect, history>>

RedirectStopped ==
    /\ proxyPC = "hop_close" /\ reply.location # "invalid" /\ redirectLimitReached
    /\ proxyOpen' = bodyClose
    /\ proxyResult' = [proxyResult EXCEPT !.outcome = "error", !.phases = phases]
    /\ proxyPC' = "done"
    /\ UNCHANGED <<cfg, scheme, req, hop, proxyDeadline, reply, phases, connect, history>>

RedirectFollowed ==
    /\ proxyPC = "hop_close" /\ reply.location # "invalid" /\ ~redirectLimitReached
    /\ proxyOpen' = bodyClose
    /\ req' = redirectedRequest(reply.status)
    /\ scheme' = reply.location
    /\ hop' = hop + 1
    /\ proxyDeadline' = FALSE /\ reply' = NoReply /\ connect' = None
    /\ downgraded' = (downgraded \/ reply.status = "see")
    /\ proxyPC' = "dial"
    /\ UNCHANGED <<cfg, phases, proxyResult, connects>>

\* The body is read to its end, or to one byte past the limit; http takes a
\* truncated body, http_body does not.  ok: the status and the match are the expected ones.
ReadBody(truncated, ok) ==
    /\ proxyPC = "body" /\ ~Interrupted
    /\ req.method = "HEAD" => ~truncated
    /\ phases' = phases \union {"transfer"}
    /\ proxyResult' = [proxyResult EXCEPT
            !.outcome = IF ok /\ (truncated => cfg.kind = "http") THEN "success" ELSE "error",
            !.phases = phases', !.truncated = truncated]
    /\ reply' = [reply EXCEPT !.drain = @ /\ truncated]
    /\ proxyPC' = "close"
    /\ UNCHANGED <<cfg, scheme, req, hop, proxyOpen, proxyDeadline, connect, history>>

ReadBodyFails ==
    /\ proxyPC = "body"
    /\ phases' = phases \union {"transfer"}
    /\ proxyResult' = [proxyResult EXCEPT !.outcome = "error", !.phases = phases']
    /\ reply' = [reply EXCEPT !.drain = FALSE]
    /\ proxyPC' = "close"
    /\ UNCHANGED <<cfg, scheme, req, hop, proxyOpen, proxyDeadline, connect, history>>

CloseBody ==
    /\ proxyPC = "close"
    /\ proxyOpen' = bodyClose
    /\ proxyPC' = "done"
    /\ UNCHANGED <<cfg, scheme, req, hop, proxyDeadline, reply, phases, connect, proxyResult,
                   history>>

Replies ==
    {r \in [status : {"final", "see", "keep"}, location : {"none", "invalid", "http", "https"},
            drain : BOOLEAN] : r.status = "final" => r.location = "none"}

\* A step of the probe's goroutine.
ProxyStep ==
    /\ \/ Dial \/ DialFails \/ ProxyTLS \/ ProxyTLSFails
       \/ TunnelDeadlineFails \/ ConnectFails \/ ConnectRefused \/ ProxyConnected \/ TunnelUp
       \/ \E s \in Statuses, drain \in BOOLEAN : Connect(s, drain)
       \/ TargetTLS \/ TargetTLSFails \/ \E found \in BOOLEAN : CertsRead(found)
       \/ RequestFails \/ WriteFails \/ \E type \in {"none", "custom", "octet-stream"} : Write(type)
       \/ \E r \in Replies : Read(r)
       \/ \E firstByte \in BOOLEAN : ReadFails(firstByte)
       \/ RedirectInvalid \/ RedirectStopped \/ RedirectFollowed
       \/ ReadBodyFails \/ CloseBody \/ \E truncated, ok \in BOOLEAN : ReadBody(truncated, ok)
    /\ UNCHANGED ctxVars

\* A reload or the shutdown cancels the context, unless its deadline came first.
ProxyCancel ==
    /\ proxyPC # "done" /\ ~ProxyCtxDone
    /\ cancelled' = TRUE
    /\ UNCHANGED <<cfg, proxyPC, scheme, req, hop, proxyOpen, proxyDeadline, reply, phases,
                   connect, expired, proxyResult, history>>

\* The probe's timeout passes.
Expire ==
    /\ proxyPC # "done" /\ ~expired
    /\ expired' = TRUE
    /\ UNCHANGED <<cfg, proxyPC, scheme, req, hop, proxyOpen, proxyDeadline, reply, phases,
                   connect, cancelled, proxyResult, history>>

Finished == proxyPC = "done" /\ UNCHANGED proxyVars

ProxyNext == ProxyStep \/ ProxyCancel \/ Expire \/ Finished

ProxySpec == ProxyInit /\ [][ProxyNext]_proxyVars

\* Nothing but an interrupted call, or a close that has nothing to drain, is sure to return.
Released ==
    \/ Interrupted
    \/ proxyPC \in {"connect_close", "hop_close", "close"} /\ ~reply.drain

ProxyFairness == WF_proxyVars(Expire) /\ WF_proxyVars(Released /\ ProxyStep)
ProxyFairSpec == ProxySpec /\ ProxyFairness

-----------------------------------------------------------------------------
\* The types, and a hop number within the limit (http.go:338).
ProxyTypeOK ==
    /\ cfg \in Options
    /\ proxyPC \in {"dial", "proxy_tls", "connect", "connect_close", "target_tls", "write", "read",
               "hop_close", "body", "close", "done"}
    /\ scheme \in {"http", "https"}
    /\ req \in [method : {"GET", "HEAD", "POST"}, body : BOOLEAN,
                types : SUBSET {"custom", "octet-stream"}]
    /\ hop \in 0 .. proxyRedirectLimit - 1
    /\ proxyOpen \subseteq 0 .. hop
    /\ proxyDeadline \in BOOLEAN /\ cancelled \in BOOLEAN /\ expired \in BOOLEAN
    /\ reply \in Replies \union {NoReply, [NoReply EXCEPT !.drain = TRUE]}
    /\ phases \subseteq Phases
    /\ connect \in Statuses \union {None}
    /\ proxyResult \in [outcome : {"none", "success", "error"}, connect : Statuses \union {None},
                   phases : SUBSET Phases, truncated : BOOLEAN,
                   type : {"none", "custom", "octet-stream"}]

\* "All connections are closed before returning" (proxy.go:35), on every path
\* of every prober, and a redirect is followed only after the connection of
\* the hop before is closed: at most the current hop's connection is open.
ConnectionsClosed ==
    /\ proxyOpen \subseteq {hop}
    /\ proxyPC = "done" => proxyOpen = {}

\* Once a 301, 302 or 303 was followed no later hop sends a POST or a body,
\* whatever redirects come after it; a redirected GET or HEAD carries no
\* Content-Type; a body is sent by POST only, at every hop with the configured
\* Content-Type or else the default (http.go:285-297, 435-476).
RedirectedRequestClean ==
    /\ downgraded => req.method # "POST" /\ ~req.body
    /\ hop > 0 /\ req.method # "POST" => req.types = {}
    /\ req.body => req.method = "POST"
    /\ proxyPC = "read" /\ req.body /\ cfg.ctype # "other" =>
          proxyResult.type = IF cfg.ctype = "none" THEN "octet-stream" ELSE "custom"

\* The phases of a complete exchange over this scheme.
ExchangePhases ==
    {"proxy_dial", "request_write", "ttfb", "transfer"}
        \union (IF cfg.proxyTLS THEN {"proxy_tls"} ELSE {})
        \union (IF scheme = "https" THEN {"proxy_connect", "tls_handshake"} ELSE {})

\* A result takes its parts from the right hops of a redirect chain.  "Preserve
\* the first observed CONNECT status" (http.go:309): the reported status is the
\* first of the hops' statuses, and none is lost.  "The reported Phases reflect
\* the final hop only" (http.go:264-265): a probe that read its response
\* reports the phases of the last exchange, no fewer and none of an earlier hop
\* with another scheme.
HopsNotMixed ==
    /\ proxyPC = "done" => proxyResult.connect = IF connects = <<>> THEN None ELSE connects[1]
    /\ cfg.kind \in HTTPKinds /\ proxyResult.outcome = "success" =>
         proxyResult.phases = ExchangePhases

\* Every probe returns, however its proxy and target stall: no call waits on a
\* connection that neither the context nor a deadline interrupts.
ProxyReturns == <>(proxyPC = "done")
=============================================================================
