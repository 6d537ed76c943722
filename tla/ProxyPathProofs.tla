-------------------------- MODULE ProxyPathProofs --------------------------
(***************************************************************************)
(* The proxy path for every redirect limit: connection ownership, what a   *)
(* redirected request carries, and which hops a result takes its parts     *)
(* from.                                                                   *)
(***************************************************************************)
EXTENDS ProxyPath, TLAPS

\* ConnectionsClosed is not inductive: a dial must find no connection open, or
\* the hop it opens would be the second one.
OwnershipInv ==
    /\ proxyOpen \subseteq {hop}
    /\ proxyPC \in {"dial", "done"} => proxyOpen = {}

\* A return closes the only connection there can be.
LEMMA ReturnCloses ==
    ASSUME OwnershipInv, NEW ph, NEW outcome, ReturnProxy(ph, outcome)
    PROVE  OwnershipInv'
  BY DEF OwnershipInv, ReturnProxy

\* The steps of the setup and of the exchange that do not return.
LEMMA ExchangeKeeps ==
    ASSUME OwnershipInv,
           \/ Dial \/ ProxyTLS \/ TunnelUp \/ TargetTLS
           \/ \E s \in Statuses, drain \in BOOLEAN : Connect(s, drain)
           \/ \E type \in {"none", "custom", "octet-stream"} : Write(type)
           \/ \E r \in Replies : Read(r)
           \/ ReadBodyFails
           \/ \E truncated, ok \in BOOLEAN : ReadBody(truncated, ok)
    PROVE  OwnershipInv'
<1> USE DEF OwnershipInv
<1>1. CASE Dial
  BY <1>1 DEF Dial, afterProxy
<1>2. CASE ProxyTLS
  BY <1>2 DEF ProxyTLS, afterProxy
<1>3. CASE TunnelUp
  BY <1>3 DEF TunnelUp
<1>4. CASE TargetTLS
  BY <1>4 DEF TargetTLS
<1>5. CASE \E s \in Statuses, drain \in BOOLEAN : Connect(s, drain)
  BY <1>5 DEF Connect
<1>6. CASE \E type \in {"none", "custom", "octet-stream"} : Write(type)
  BY <1>6 DEF Write
<1>7. CASE \E r \in Replies : Read(r)
  BY <1>7 DEF Read
<1>8. CASE ReadBodyFails
  BY <1>8 DEF ReadBodyFails
<1>9. CASE \E truncated, ok \in BOOLEAN : ReadBody(truncated, ok)
  BY <1>9 DEF ReadBody
<1> QED
  BY <1>1, <1>2, <1>3, <1>4, <1>5, <1>6, <1>7, <1>8, <1>9

\* The steps that close a response body, redirects followed included.
LEMMA BodyCloseCloses ==
    ASSUME OwnershipInv,
           RedirectInvalid \/ RedirectStopped \/ RedirectFollowed \/ CloseBody
    PROVE  OwnershipInv'
  BY DEF OwnershipInv, RedirectInvalid, RedirectStopped, RedirectFollowed, CloseBody, bodyClose

\* Whatever the peers do and whenever the context ends, and for any limit on
\* redirects, a probe through a proxy has at most the current hop's connection
\* open and none when it returns (proxy.go:35, http_proxy_path.go:247-249).
THEOREM ProxyConnectionsClosed == ProxySpec => []ConnectionsClosed
<1>1. ProxyInit => OwnershipInv
  BY DEF ProxyInit, OwnershipInv
<1>2. OwnershipInv /\ [ProxyNext]_proxyVars => OwnershipInv'
  <2> SUFFICES ASSUME OwnershipInv, [ProxyNext]_proxyVars
               PROVE  OwnershipInv'
    OBVIOUS
  <2>1. CASE \/ DialFails \/ ProxyTLSFails \/ TunnelDeadlineFails \/ ConnectFails
             \/ ConnectRefused \/ ProxyConnected \/ TargetTLSFails
             \/ \E found \in BOOLEAN : CertsRead(found)
             \/ RequestFails \/ WriteFails
             \/ \E firstByte \in BOOLEAN : ReadFails(firstByte)
    <3>1. PICK ph, outcome : ReturnProxy(ph, outcome)
      BY <2>1 DEF DialFails, ProxyTLSFails, TunnelDeadlineFails, ConnectFails, ConnectRefused,
                  ProxyConnected, TargetTLSFails, CertsRead, RequestFails, WriteFails, ReadFails
    <3> QED
      BY <3>1, ReturnCloses
  <2>2. CASE \/ Dial \/ ProxyTLS \/ TunnelUp \/ TargetTLS
             \/ \E s \in Statuses, drain \in BOOLEAN : Connect(s, drain)
             \/ \E type \in {"none", "custom", "octet-stream"} : Write(type)
             \/ \E r \in Replies : Read(r)
             \/ ReadBodyFails
             \/ \E truncated, ok \in BOOLEAN : ReadBody(truncated, ok)
    BY <2>2, ExchangeKeeps
  <2>3. CASE RedirectInvalid \/ RedirectStopped \/ RedirectFollowed \/ CloseBody
    BY <2>3, BodyCloseCloses
  <2>4. CASE ProxyCancel \/ Expire \/ UNCHANGED proxyVars
    BY <2>4 DEF OwnershipInv, ProxyCancel, Expire, proxyVars
  <2> QED
    BY <2>1, <2>2, <2>3, <2>4 DEF ProxyNext, ProxyStep, Finished
<1>3. OwnershipInv => ConnectionsClosed
  BY DEF OwnershipInv, ConnectionsClosed
<1> QED
  BY <1>1, <1>2, <1>3, PTL DEF ProxySpec

----------------------------------------------------------------------------
(* Requests and results *)

Types == {"custom", "octet-stream"}

\* The records the other invariants speak of.
RecordsInv ==
    /\ cfg \in Options /\ hop \in Nat
    /\ req \in [method : {"GET", "HEAD", "POST"}, body : BOOLEAN, types : SUBSET Types]
    /\ proxyResult \in [outcome : {"none", "success", "error"}, connect : Statuses \union {None},
                   phases : SUBSET Phases, truncated : BOOLEAN, type : Types \union {"none"}]
    /\ phases \subseteq Phases
    /\ connect \in Statuses \union {None} /\ connects \in Seq(Statuses)

\* The steps that return.
Returns ==
    \/ DialFails \/ ProxyTLSFails \/ TunnelDeadlineFails \/ ConnectFails
    \/ ConnectRefused \/ ProxyConnected \/ TargetTLSFails
    \/ \E found \in BOOLEAN : CertsRead(found)
    \/ RequestFails \/ WriteFails
    \/ \E firstByte \in BOOLEAN : ReadFails(firstByte)

\* What a return does to the variables the invariants speak of.
LEMMA ReturnsEffect ==
    ASSUME RecordsInv, Returns
    PROVE  /\ proxyPC' = "done"
           /\ UNCHANGED <<cfg, scheme, req, hop, connect, connects, downgraded>>
           /\ phases' \subseteq Phases
           /\ \E o \in {"success", "error"} :
                 /\ proxyResult' = [proxyResult EXCEPT !.outcome = o, !.phases = phases',
                                             !.connect = firstConnect]
                 /\ cfg.kind \in HTTPKinds => o = "error"
<1> USE DEF ReturnProxy, history, RecordsInv, Phases
<1>1. CASE \/ DialFails \/ ProxyTLSFails \/ TunnelDeadlineFails \/ ConnectFails
           \/ TargetTLSFails \/ RequestFails \/ WriteFails
  BY <1>1 DEF DialFails, ProxyTLSFails, TunnelDeadlineFails, ConnectFails, TargetTLSFails,
              RequestFails, WriteFails, newPhases
<1>2. CASE \E firstByte \in BOOLEAN : ReadFails(firstByte)
  BY <1>2 DEF ReadFails
<1>3. CASE ConnectRefused
  BY <1>3 DEF ConnectRefused, tunnelVerdict, Options, HTTPKinds
<1>4. CASE ProxyConnected
  BY <1>4 DEF ProxyConnected, tunnelVerdict, HTTPKinds
<1>5. CASE \E found \in BOOLEAN : CertsRead(found)
  BY <1>5 DEF CertsRead, HTTPKinds
<1> QED
  BY <1>1, <1>2, <1>3, <1>4, <1>5 DEF Returns

\* What is true of a request at every hop.
RequestInv ==
    /\ downgraded => req.method # "POST" /\ ~req.body
    /\ hop > 0 /\ req.method # "POST" => req.types = {}
    /\ req.body => req.method = "POST" /\ cfg.body /\ req.types = initialTypes(cfg)
    /\ proxyPC = "read" => proxyResult.type \in IF req.types = {} THEN {"none"} ELSE req.types

FirstOf(s) == IF s = <<>> THEN None ELSE s[1]

\* The first status is that of the result or, while none has been reported, of
\* the current exchange, which has none before its CONNECT.
ConnectInv ==
    /\ firstConnect = FirstOf(connects)
    /\ proxyPC \in {"dial", "proxy_tls", "connect"} => connect = None
    /\ proxyPC \in {"hop_close", "body", "close", "done"} => proxyResult.connect = firstConnect

ProxyPhases == {"proxy_dial"} \union (IF cfg.proxyTLS THEN {"proxy_tls"} ELSE {})
TunnelPhases == IF scheme = "https" THEN {"proxy_connect", "tls_handshake"} ELSE {}

\* The phase map of the exchange at every point of it.
PhasesInv ==
    /\ proxyPC \in {"connect", "connect_close", "target_tls"} => scheme = "https"
    /\ proxyPC = "proxy_tls" => phases = {"proxy_dial"} /\ cfg.proxyTLS
    /\ proxyPC = "connect" => phases = ProxyPhases
    /\ proxyPC \in {"connect_close", "target_tls"} => phases = ProxyPhases \union {"proxy_connect"}
    /\ proxyPC = "write" => phases = ProxyPhases \union TunnelPhases
    /\ proxyPC = "read" => phases = ProxyPhases \union TunnelPhases \union {"request_write"}
    /\ proxyPC \in {"hop_close", "body"} =>
         phases = ProxyPhases \union TunnelPhases \union {"request_write", "ttfb"}
    /\ proxyPC \notin {"close", "done"} => proxyResult.outcome = "none"
    /\ proxyPC \in {"close", "done"} /\ cfg.kind \in HTTPKinds /\ proxyResult.outcome = "success" =>
         proxyResult.phases = ExchangePhases

ProxyInv == RecordsInv /\ RequestInv /\ ConnectInv /\ PhasesInv

LEMMA ProxyInitially == ProxyInit => ProxyInv
<1> SUFFICES ASSUME ProxyInit PROVE ProxyInv
  OBVIOUS
<1> USE DEF ProxyInit
<1>1. RecordsInv
  BY DEF RecordsInv, Options, initialTypes, Types, Phases
<1>2. RequestInv
  BY <1>1 DEF RequestInv, RecordsInv, Options
<1>3. ConnectInv /\ PhasesInv
  BY DEF ConnectInv, FirstOf, firstConnect, PhasesInv
<1> QED
  BY <1>1, <1>2, <1>3 DEF ProxyInv

LEMMA ReturnsStep ==
    ASSUME ProxyInv, Returns
    PROVE  ProxyInv'
<1> USE DEF ProxyInv
<1>1. PICK o \in {"success", "error"} :
        /\ proxyResult' = [proxyResult EXCEPT !.outcome = o, !.phases = phases', !.connect = firstConnect]
        /\ cfg.kind \in HTTPKinds => o = "error"
        /\ proxyPC' = "done" /\ phases' \subseteq Phases
        /\ UNCHANGED <<cfg, scheme, req, hop, connect, connects, downgraded>>
  BY ReturnsEffect
<1>2. /\ proxyResult'.connect = firstConnect /\ proxyResult'.outcome = o
      /\ firstConnect \in Statuses \union {None}
  BY <1>1 DEF RecordsInv, firstConnect
<1>3. RecordsInv'
  BY <1>1, <1>2 DEF RecordsInv
<1>4. RequestInv'
  BY <1>1 DEF RequestInv, initialTypes
<1>5. ConnectInv'
  BY <1>1, <1>2 DEF ConnectInv, FirstOf, firstConnect
<1>6. PhasesInv'
  BY <1>1, <1>2 DEF PhasesInv
<1> QED
  BY <1>3, <1>4, <1>5, <1>6

\* Up to the request: dial, handshakes and CONNECT.
LEMMA SetupStep ==
    ASSUME ProxyInv,
           \/ Dial \/ ProxyTLS \/ TunnelUp \/ TargetTLS
           \/ \E s \in Statuses, drain \in BOOLEAN : Connect(s, drain)
    PROVE  ProxyInv'
<1> USE DEF ProxyInv, history
<1>1. CASE Dial \/ ProxyTLS \/ TunnelUp \/ TargetTLS
  <2>1. UNCHANGED <<cfg, scheme, req, hop, connect, connects, downgraded, proxyResult>>
    BY <1>1 DEF Dial, ProxyTLS, TunnelUp, TargetTLS
  <2>2. RecordsInv'
    <3>1. phases \subseteq Phases
      BY DEF RecordsInv
    <3>2. CASE Dial
      BY <2>1, <3>2 DEF RecordsInv, Dial, Phases, newPhases
    <3>3. CASE ProxyTLS
      BY <2>1, <3>1, <3>3 DEF RecordsInv, ProxyTLS, Phases
    <3>4. CASE TunnelUp
      BY <2>1, <3>4 DEF RecordsInv, TunnelUp
    <3>5. CASE TargetTLS
      BY <2>1, <3>1, <3>5 DEF RecordsInv, TargetTLS, Phases
    <3> QED
      BY <1>1, <3>2, <3>3, <3>4, <3>5
  <2>3. RequestInv'
    BY <1>1, <2>1 DEF RequestInv, initialTypes, Dial, ProxyTLS, TunnelUp, TargetTLS, afterProxy
  <2>4. ConnectInv'
    BY <1>1, <2>1 DEF ConnectInv, FirstOf, firstConnect, Dial, ProxyTLS, TunnelUp, TargetTLS,
                      afterProxy
  <2>5. PhasesInv'
    <3>1. CASE Dial
      BY <2>1, <3>1 DEF PhasesInv, Dial, afterProxy, ProxyPhases, TunnelPhases, newPhases
    <3>2. CASE ProxyTLS
      BY <2>1, <3>2 DEF PhasesInv, ProxyTLS, afterProxy, ProxyPhases, TunnelPhases
    <3>3. CASE TunnelUp
      BY <2>1, <3>3 DEF PhasesInv, TunnelUp, ProxyPhases
    <3>4. CASE TargetTLS
      BY <2>1, <3>4 DEF PhasesInv, TargetTLS, ProxyPhases, TunnelPhases
    <3> QED
      BY <1>1, <3>1, <3>2, <3>3, <3>4
  <2> QED
    BY <2>2, <2>3, <2>4, <2>5
<1>2. ASSUME NEW s \in Statuses, NEW drain \in BOOLEAN, Connect(s, drain) PROVE ProxyInv'
  <2>1. /\ proxyPC = "connect" /\ proxyPC' = "connect_close"
        /\ connect' = s /\ connects' = Append(connects, s)
        /\ phases' = phases \union {"proxy_connect"}
        /\ UNCHANGED <<cfg, scheme, req, hop, downgraded, proxyResult>>
    BY <1>2 DEF Connect
  <2>2. RecordsInv'
    BY <2>1 DEF RecordsInv, Phases
  <2>3. RequestInv' /\ PhasesInv'
    BY <2>1 DEF RequestInv, initialTypes, PhasesInv, ProxyPhases
  <2>4. ConnectInv'
    <3>1. connects \in Seq(Statuses) /\ None \notin Statuses
      BY ProxyAssumption DEF RecordsInv, Statuses
    <3>2. FirstOf(connects') = IF connects = <<>> THEN s ELSE connects[1]
      BY <2>1, <3>1 DEF FirstOf
    <3>3. proxyResult.connect = FirstOf(connects)
      BY <2>1 DEF ConnectInv, firstConnect
    <3>4. connects # <<>> => connects[1] \in Statuses
      BY <3>1
    <3> QED
      BY <2>1, <3>1, <3>2, <3>3, <3>4 DEF ConnectInv, firstConnect, FirstOf
  <2> QED
    BY <2>2, <2>3, <2>4
<1> QED
  BY <1>1, <1>2

\* The exchange.
LEMMA ExchangeStep ==
    ASSUME ProxyInv,
           \/ \E type \in {"none", "custom", "octet-stream"} : Write(type)
           \/ \E r \in Replies : Read(r)
           \/ ReadBodyFails
           \/ \E truncated, ok \in BOOLEAN : ReadBody(truncated, ok)
    PROVE  ProxyInv'
<1> USE DEF ProxyInv, history
<1>0. firstConnect \in Statuses \union {None}
  BY DEF firstConnect, RecordsInv
<1>1. ASSUME NEW type \in Types \union {"none"}, Write(type) PROVE ProxyInv'
  <2>1. /\ proxyPC = "write" /\ proxyPC' = "read" /\ proxyResult' = [proxyResult EXCEPT !.type = type]
        /\ type \in IF req.types = {} THEN {"none"} ELSE req.types
        /\ phases' = phases \union {"request_write"}
        /\ UNCHANGED <<cfg, scheme, req, hop, connect, connects, downgraded>>
    BY <1>1 DEF Write
  <2>2. RecordsInv' /\ proxyResult'.type = type /\ proxyResult'.connect = proxyResult.connect
        /\ proxyResult'.outcome = proxyResult.outcome
    BY <2>1 DEF RecordsInv, Phases
  <2>3. RequestInv' /\ ConnectInv'
    BY <2>1, <2>2 DEF RequestInv, initialTypes, ConnectInv, FirstOf, firstConnect
  <2>4. PhasesInv'
    BY <2>1, <2>2 DEF PhasesInv, ProxyPhases, TunnelPhases
  <2> QED
    BY <2>2, <2>3, <2>4
<1>2. ASSUME NEW r \in Replies, Read(r) PROVE ProxyInv'
  <2>1. /\ proxyPC = "read" /\ proxyPC' \in {"hop_close", "body"}
        /\ proxyResult' = [proxyResult EXCEPT !.connect = firstConnect]
        /\ phases' = phases \union {"ttfb"}
        /\ UNCHANGED <<cfg, scheme, req, hop, connect, connects, downgraded>>
    BY <1>2 DEF Read
  <2>2. RecordsInv' /\ proxyResult'.connect = firstConnect /\ proxyResult'.outcome = proxyResult.outcome
    BY <1>0, <2>1 DEF RecordsInv, Phases
  <2>3. RequestInv' /\ ConnectInv'
    BY <2>1, <2>2 DEF RequestInv, initialTypes, ConnectInv, FirstOf, firstConnect
  <2>4. PhasesInv'
    BY <2>1, <2>2 DEF PhasesInv, ProxyPhases, TunnelPhases
  <2> QED
    BY <2>2, <2>3, <2>4
<1>3. CASE ReadBodyFails \/ \E truncated, ok \in BOOLEAN : ReadBody(truncated, ok)
  <2>1. /\ proxyPC = "body" /\ proxyPC' = "close"
        /\ phases' = phases \union {"transfer"}
        /\ UNCHANGED <<cfg, scheme, req, hop, connect, connects, downgraded>>
    BY <1>3 DEF ReadBodyFails, ReadBody
  <2>2. RecordsInv' /\ proxyResult'.connect = proxyResult.connect /\ proxyResult'.phases = phases'
    BY <1>3, <2>1 DEF RecordsInv, Phases, ReadBodyFails, ReadBody
  <2>3. RequestInv' /\ ConnectInv'
    BY <2>1, <2>2 DEF RequestInv, initialTypes, ConnectInv, FirstOf, firstConnect
  <2>4. phases' = ExchangePhases'
    BY <2>1 DEF PhasesInv, ProxyPhases, TunnelPhases, ExchangePhases
  <2>5. PhasesInv'
    BY <2>1, <2>2, <2>4 DEF PhasesInv
  <2> QED
    BY <2>2, <2>3, <2>5
<1> QED
  BY <1>1, <1>2, <1>3 DEF Types

\* The end of a hop: the next one starts, or the probe returns.
LEMMA HopEndStep ==
    ASSUME ProxyInv, RedirectInvalid \/ RedirectStopped \/ RedirectFollowed \/ CloseBody
    PROVE  ProxyInv'
<1> USE DEF ProxyInv, history
<1>1. CASE RedirectInvalid \/ RedirectStopped \/ CloseBody
  <2>1. /\ proxyPC \in {"hop_close", "close"} /\ proxyPC' = "done"
        /\ UNCHANGED <<cfg, scheme, req, hop, phases, connect, connects, downgraded>>
    BY <1>1 DEF RedirectInvalid, RedirectStopped, CloseBody
  <2>2. /\ RecordsInv' /\ proxyResult'.connect = proxyResult.connect
        /\ proxyPC = "hop_close" => proxyResult'.outcome = "error"
        /\ proxyPC = "close" => proxyResult' = proxyResult
    BY <1>1, <2>1 DEF RecordsInv, RedirectInvalid, RedirectStopped, CloseBody
  <2>3. RequestInv' /\ ConnectInv'
    BY <2>1, <2>2 DEF RequestInv, initialTypes, ConnectInv, FirstOf, firstConnect
  <2>4. PhasesInv'
    BY <2>1, <2>2 DEF PhasesInv, ExchangePhases
  <2> QED
    BY <2>2, <2>3, <2>4
<1>2. CASE RedirectFollowed
  <2>1. /\ proxyPC = "hop_close" /\ proxyPC' = "dial" /\ hop' = hop + 1 /\ connect' = None
        /\ req' = redirectedRequest(reply.status)
        /\ downgraded' = (downgraded \/ reply.status = "see")
        /\ UNCHANGED <<cfg, phases, proxyResult, connects>>
    BY <1>2 DEF RedirectFollowed
  <2>2. initialTypes(cfg) \subseteq Types
    BY DEF initialTypes, Types
  <2>3. RecordsInv'
    BY <2>1, <2>2 DEF RecordsInv, redirectedRequest, Options
  <2>4. RequestInv'
    <3>1. initialTypes(cfg)' = initialTypes(cfg)
      BY <2>1 DEF initialTypes
    <3> QED
      BY <2>1, <2>2, <3>1 DEF RequestInv, RecordsInv, redirectedRequest
  <2>5. ConnectInv'
    BY <2>1 DEF ConnectInv, FirstOf, firstConnect
  <2>6. PhasesInv'
    BY <2>1 DEF PhasesInv
  <2> QED
    BY <2>3, <2>4, <2>5, <2>6
<1> QED
  BY <1>1, <1>2

\* ProxyInv is inductive: requests, CONNECT statuses and phases follow the hops
\* of a redirect chain of any length (http.go:258-476, http_proxy_path.go).
THEOREM ProxyInvariant == ProxySpec => []ProxyInv
<1>1. ASSUME ProxyInv, [ProxyNext]_proxyVars PROVE ProxyInv'
  <2>1. CASE ProxyCancel \/ Expire \/ UNCHANGED proxyVars
    <3>1. UNCHANGED <<cfg, proxyPC, scheme, req, hop, phases, connect, proxyResult, connects,
                      downgraded>>
      BY <2>1 DEF ProxyCancel, Expire, proxyVars, history
    <3> QED
      BY <1>1, <3>1 DEF ProxyInv, RecordsInv, RequestInv, initialTypes, ConnectInv, FirstOf,
                        firstConnect, PhasesInv, ProxyPhases, TunnelPhases, ExchangePhases
  <2> QED
    BY <1>1, <2>1, ReturnsStep, SetupStep, ExchangeStep, HopEndStep
       DEF ProxyNext, ProxyStep, Finished, Returns
<1> QED
  BY <1>1, ProxyInitially, PTL DEF ProxySpec

\* Once a 301, 302 or 303 was followed no later hop sends a POST or a body, a
\* redirected GET or HEAD has no Content-Type, and a body is sent with the
\* configured one or the default (http.go:285-297, 435-476).
THEOREM ProxyRequestsClean == ProxySpec => []RedirectedRequestClean
<1>1. ProxyInv => RedirectedRequestClean
  <2> SUFFICES ASSUME ProxyInv PROVE RedirectedRequestClean
    OBVIOUS
  <2>1. cfg.ctype \in {"none", "canonical", "other"}
    BY ProxyAssumption DEF ProxyInv, RecordsInv, Options
  <2> QED
    BY <2>1 DEF ProxyInv, RequestInv, RedirectedRequestClean, initialTypes
<1> QED
  BY <1>1, ProxyInvariant, PTL

\* The reported CONNECT status is the first one of the chain, and a successful
\* HTTP probe reports the phases of the last exchange, no fewer and no others
\* (http.go:264-265, 309).
THEOREM ProxyHopsNotMixed == ProxySpec => []HopsNotMixed
<1>1. ProxyInv => HopsNotMixed
  BY DEF ProxyInv, ConnectInv, FirstOf, PhasesInv, HopsNotMixed
<1> QED
  BY <1>1, ProxyInvariant, PTL
=============================================================================
