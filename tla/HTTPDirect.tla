----------------------------- MODULE HTTPDirect -----------------------------
(***************************************************************************)
(* One direct probe of HTTPProber or HTTPBodyProber (internal/probe/       *)
(* http.go, http_body.go: probeDirect) and the timestamps it collects with *)
(* httptrace (http_trace.go).                                              *)
(*                                                                         *)
(* The callbacks run on goroutines of net/http's transport.  They share    *)
(* one set of timestamps over all hops of a redirect chain, and some come  *)
(* late: the dial that loses a dual-stack race reports ConnectDone after   *)
(* the winner is in use, WroteRequest can follow the first response byte,  *)
(* and when the context ends client.Do returns without waiting for what    *)
(* the transport is doing.  What net/http does is external, modelled from  *)
(* the callbacks the code registers.                                       *)
(***************************************************************************)
EXTENDS Naturals, FiniteSets

CONSTANTS
    RedirectLimit,  \* hops client.Do follows before it gives up
    BodyLimit,      \* response_body_limit_bytes, or maxHTTPBodyBytes
    BodyLengths     \* lengths of response bodies (bound)

ASSUME LimitAssumption ==
    RedirectLimit \in Nat \ {0} /\ BodyLimit \in Nat /\ BodyLengths \subseteq Nat

Modes == {"http", "http_body"}
Schemes == {"http", "https"}

\* A hop: where its request goes.  A literal address has no lookup and no
\* second address family.
Hops == {h \in [scheme : Schemes, lookup : BOOLEAN, dual : BOOLEAN] : h.dual => h.lookup}

\* httpTraceTimings: zero until set, then the time of the latest call and the
\* hop it was made for.
Fields == {"dnsStart", "dnsEnd", "connectStart", "connectEnd", "tlsStart", "tlsEnd",
           "wroteRequest", "gotFirstByte"}
Zero == [at |-> 0, hop |-> 0]

VARIABLES
    mode,      \* which prober
    follow,    \* follow_redirects
    pc,        \* where the probe goroutine is
    hop,       \* number of the current hop, from 1
    dest,      \* the current hop
    tr,        \* where the transport is with it
    late,      \* callbacks still to come: [field, hop, race]
    raced,     \* a callback has come out of order
    clock,     \* a number for every event
    ts,        \* the timestamps
    expired,   \* the context has ended
    body,      \* length of the response body
    transferEnd,
    result

vars == <<mode, follow, pc, hop, dest, tr, late, raced, clock, ts, expired, body,
          transferEnd, result>>
config == <<mode, follow>>

NoResult == [err |-> FALSE, received |-> FALSE, success |-> FALSE, phases |-> {},
             truncEval |-> FALSE, truncated |-> FALSE, bodyEval |-> FALSE, match |-> FALSE]

Init ==
    /\ mode \in Modes
    /\ follow \in BOOLEAN
    /\ pc = "start"
    /\ hop = 1
    /\ dest \in Hops
    /\ tr = "idle"
    /\ late = {} /\ raced = FALSE
    /\ clock = 1
    /\ ts = [f \in Fields |-> Zero]
    /\ expired = FALSE
    /\ body = 0 /\ transferEnd = Zero
    /\ result = NoResult

----------------------------------------------------------------------------
(* Timestamps *)

\* httpTraceTimings.set, from the callbacks of hop h.
set(f, h) ==
    /\ ts' = [ts EXCEPT ![f] = [at |-> clock, hop |-> h]]
    /\ clock' = clock + 1

laterOf(a, b) == IF a.at > b.at THEN a ELSE b

\* Mutant: request_write is measured from the end of the TCP connect.
buildPhasesFromConnect(t, end) ==
    LET ttfbStart == IF t.wroteRequest = Zero THEN t.connectEnd ELSE t.wroteRequest
        spans == {[phase |-> "dns_resolve",   from |-> t.dnsStart,     to |-> t.dnsEnd],
                  [phase |-> "tcp_connect",   from |-> t.connectStart, to |-> t.connectEnd],
                  [phase |-> "tls_handshake", from |-> t.tlsStart,     to |-> t.tlsEnd],
                  [phase |-> "request_write", from |-> t.connectEnd,   to |-> t.wroteRequest],
                  [phase |-> "ttfb",          from |-> ttfbStart,      to |-> t.gotFirstByte],
                  [phase |-> "transfer",      from |-> t.gotFirstByte, to |-> end]}
    IN  {s \in spans : s.from # Zero /\ s.to # Zero}

\* Mutant: without WroteRequest there is no ttfb.
buildPhasesNoFallback(t, end) ==
    LET requestReady == laterOf(t.tlsEnd, t.connectEnd)
        spans == {[phase |-> "dns_resolve",   from |-> t.dnsStart,     to |-> t.dnsEnd],
                  [phase |-> "tcp_connect",   from |-> t.connectStart, to |-> t.connectEnd],
                  [phase |-> "tls_handshake", from |-> t.tlsStart,     to |-> t.tlsEnd],
                  [phase |-> "request_write", from |-> requestReady,   to |-> t.wroteRequest],
                  [phase |-> "ttfb",          from |-> t.wroteRequest, to |-> t.gotFirstByte],
                  [phase |-> "transfer",      from |-> t.gotFirstByte, to |-> end]}
    IN  {s \in spans : s.from # Zero /\ s.to # Zero}

\* buildPhases and addObservedPhase: a phase is reported when both ends are
\* known; safeSub turns an interval that ends before it begins into zero.
buildPhases(t, end) ==
    LET requestReady == laterOf(t.tlsEnd, t.connectEnd)
        ttfbStart == IF t.wroteRequest = Zero THEN requestReady ELSE t.wroteRequest
        spans == {[phase |-> "dns_resolve",   from |-> t.dnsStart,     to |-> t.dnsEnd],
                  [phase |-> "tcp_connect",   from |-> t.connectStart, to |-> t.connectEnd],
                  [phase |-> "tls_handshake", from |-> t.tlsStart,     to |-> t.tlsEnd],
                  [phase |-> "request_write", from |-> requestReady,   to |-> t.wroteRequest],
                  [phase |-> "ttfb",          from |-> ttfbStart,      to |-> t.gotFirstByte],
                  [phase |-> "transfer",      from |-> t.gotFirstByte, to |-> end]}
    IN  {s \in spans : s.from # Zero /\ s.to # Zero}

----------------------------------------------------------------------------
(* The transport *)

\* The transport is at one of the places and the probe waits in client.Do.
At(place) == pc = "do" /\ tr = place

Move(to) ==
    /\ tr' = to
    /\ UNCHANGED <<config, pc, hop, dest, raced, expired, body, transferEnd, result>>

AfterConnect == IF dest.scheme = "https" THEN "tls" ELSE "write"

DNSStart ==
    /\ At("begin") /\ dest.lookup
    /\ set("dnsStart", hop)
    /\ Move("dns") /\ UNCHANGED late

DNSDone ==
    /\ At("dns")
    /\ set("dnsEnd", hop)
    /\ \E ok \in BOOLEAN : Move(IF ok THEN "dial" ELSE "failed")
    /\ UNCHANGED late

\* The first address is dialled.
ConnectStart ==
    /\ At("dial") \/ (At("begin") /\ ~dest.lookup)
    /\ set("connectStart", hop)
    /\ Move(IF dest.dual THEN "connect" ELSE "connectLast")
    /\ UNCHANGED late

\* The fallback address, while the first one is still being dialled or after
\* it has failed.
FallbackStart ==
    /\ At("connect") \/ At("fallback")
    /\ set("connectStart", hop)
    /\ Move(IF tr = "connect" THEN "race" ELSE "connectLast")
    /\ UNCHANGED late

\* A dial ends.  The one that loses the race is cancelled and reports later.
ConnectDone ==
    /\ At("connect") \/ At("connectLast") \/ At("race")
    /\ set("connectEnd", hop)
    /\ \E ok \in BOOLEAN :
         /\ Move(CASE ok                          -> AfterConnect
                   [] ~ok /\ tr = "connect"       -> "fallback"
                   [] ~ok /\ tr = "race"          -> "connectLast"
                   [] ~ok /\ tr = "connectLast"   -> "failed")
         /\ late' = IF ok /\ tr = "race"
                      THEN late \union {[field |-> "connectEnd", hop |-> hop, race |-> TRUE]}
                      ELSE late

TLSHandshakeStart ==
    /\ At("tls")
    /\ set("tlsStart", hop)
    /\ Move("tlsWait") /\ UNCHANGED late

TLSHandshakeDone ==
    /\ At("tlsWait")
    /\ set("tlsEnd", hop)
    /\ \E ok \in BOOLEAN : Move(IF ok THEN "write" ELSE "failed")
    /\ UNCHANGED late

\* The request is written, with success or not, ...
WroteRequest ==
    /\ At("write")
    /\ set("wroteRequest", hop)
    /\ \E ok \in BOOLEAN : Move(IF ok THEN "await" ELSE "failed")
    /\ UNCHANGED late

\* ... and the response begins, perhaps before the write has been reported.
GotFirstResponseByte ==
    /\ At("await") \/ At("write")
    /\ set("gotFirstByte", hop)
    /\ late' = IF tr = "write"
                 THEN late \union {[field |-> "wroteRequest", hop |-> hop, race |-> TRUE]}
                 ELSE late
    /\ raced' = (raced \/ tr = "write")
    /\ tr' = "answered"
    /\ UNCHANGED <<config, pc, hop, dest, expired, body, transferEnd, result>>

\* The connection fails before the response.
ConnectionLost ==
    /\ At("await")
    /\ Move("failed")
    /\ UNCHANGED <<late, ts, clock>>

\* A callback that comes late.
LateCallback(c) ==
    /\ c \in late /\ pc # "done"
    /\ set(c.field, c.hop)
    /\ late' = late \ {c}
    /\ raced' = (raced \/ c.race)
    /\ UNCHANGED <<config, pc, hop, dest, tr, expired, body, transferEnd, result>>

----------------------------------------------------------------------------
(* The probe goroutine *)

\* An address that is no URL, which config.validate lets pass, ends the probe at
\* once.  So would a pattern that does not compile, which it does not let pass.
Begin(isURL) ==
    /\ pc = "start"
    /\ IF ~isURL
         THEN /\ pc' = "done"
              /\ result' = [result EXCEPT !.err = TRUE]
              /\ UNCHANGED tr
         ELSE pc' = "do" /\ tr' = "begin" /\ UNCHANGED result
    /\ UNCHANGED <<config, hop, dest, late, raced, clock, ts, expired, body, transferEnd>>

\* client.Do follows a redirect on a new connection.
FollowRedirect(next) ==
    /\ At("answered") /\ follow
    /\ hop < RedirectLimit
    /\ hop' = hop + 1
    /\ dest' = next
    /\ tr' = "begin"
    /\ UNCHANGED <<config, pc, late, raced, clock, ts, expired, body, transferEnd, result>>

\* client.Do returns an error: the hop failed, or there were too many.
DoFails ==
    /\ At("failed") \/ (At("answered") /\ follow /\ hop = RedirectLimit)
    /\ pc' = "doErr"
    /\ UNCHANGED <<config, hop, dest, tr, late, raced, clock, ts, expired, body, transferEnd,
                   result>>

\* The callback for what the transport is doing when nobody waits any more.
InFlight ==
    CASE tr = "dns"                                -> {"dnsEnd"}
      [] tr \in {"connect", "connectLast", "race"} -> {"connectEnd"}
      [] tr = "tlsWait"                            -> {"tlsEnd"}
      [] tr = "write"                              -> {"wroteRequest"}
      [] OTHER                                     -> {}

\* Mutant: a request without the probe's context.
DoExpiredNoContext ==
    /\ pc = "do" /\ expired /\ tr = "failed"
    /\ pc' = "doErr"
    /\ UNCHANGED <<config, hop, dest, tr, late, raced, clock, ts, expired, body, transferEnd,
                   result>>

\* client.Do returns because the context has ended, without waiting for the
\* transport.
DoExpired ==
    /\ pc = "do" /\ expired
    /\ pc' = "doErr"
    /\ late' = late \union {[field |-> f, hop |-> hop, race |-> FALSE] : f \in InFlight}
    /\ UNCHANGED <<config, hop, dest, tr, raced, clock, ts, expired, body, transferEnd, result>>

\* The error result, with the phases known when the snapshot is taken.
ReturnDoErr ==
    /\ pc = "doErr"
    /\ pc' = "done"
    /\ result' = [result EXCEPT !.err = TRUE, !.phases = buildPhases(ts, Zero)]
    /\ UNCHANGED <<config, hop, dest, tr, late, raced, clock, ts, expired, body, transferEnd>>

\* client.Do returns a response with a body of n bytes.
DoReturns(n) ==
    /\ At("answered")
    /\ pc' = "read"
    /\ body' = n
    /\ result' = [result EXCEPT !.received = TRUE]
    /\ UNCHANGED <<config, hop, dest, tr, late, raced, clock, ts, expired, transferEnd>>

\* The body is read up to one byte more than the limit, or fails to be read.
ReadBody ==
    /\ pc = "read"
    /\ \E ok \in BOOLEAN : pc' = IF ok THEN "verdict" ELSE "readErr"
    /\ transferEnd' = [at |-> clock, hop |-> hop]
    /\ clock' = clock + 1
    /\ UNCHANGED <<config, hop, dest, tr, late, raced, ts, expired, body, result>>

ReturnReadErr ==
    /\ pc = "readErr"
    /\ pc' = "done"
    /\ result' = [result EXCEPT !.err = TRUE, !.phases = buildPhases(ts, transferEnd)]
    /\ UNCHANGED <<config, hop, dest, tr, late, raced, clock, ts, expired, body, transferEnd>>

\* Mutant: only the limit itself is read.
bytesReadShort == IF body < BodyLimit THEN body ELSE BodyLimit

\* LimitReader(resp.Body, limit + 1).
bytesRead == IF body < BodyLimit + 1 THEN body ELSE BodyLimit + 1

\* HTTPProber: note truncation, compare the status.
VerdictHTTP(statusOk) ==
    /\ pc = "verdict" /\ mode = "http"
    /\ pc' = "done"
    /\ result' = [result EXCEPT !.phases = buildPhases(ts, transferEnd),
                                !.truncEval = TRUE, !.truncated = bytesRead > BodyLimit,
                                !.success = statusOk, !.err = ~statusOk]
    /\ UNCHANGED <<config, hop, dest, tr, late, raced, clock, ts, expired, body, transferEnd>>

\* HTTPBodyProber: a body over the limit fails; else the body (matchBody) and the
\* status decide.
VerdictBody(statusOk, found) ==
    /\ pc = "verdict" /\ mode = "http_body"
    /\ pc' = "done"
    /\ result' = IF bytesRead > BodyLimit
                   THEN [result EXCEPT !.err = TRUE, !.phases = buildPhases(ts, transferEnd)]
                   ELSE LET ok == found /\ statusOk
                        IN  [result EXCEPT !.phases = buildPhases(ts, transferEnd),
                                           !.bodyEval = TRUE, !.match = found,
                                           !.success = ok, !.err = ~ok]
    /\ UNCHANGED <<config, hop, dest, tr, late, raced, clock, ts, expired, body, transferEnd>>

\* The probe's timeout.
Expire ==
    /\ pc # "done" /\ ~expired
    /\ expired' = TRUE
    /\ UNCHANGED <<config, pc, hop, dest, tr, late, raced, clock, ts, body, transferEnd, result>>

Done == pc = "done" /\ UNCHANGED vars

----------------------------------------------------------------------------
Transport ==
    \/ DNSStart \/ DNSDone \/ ConnectStart \/ FallbackStart \/ ConnectDone
    \/ TLSHandshakeStart \/ TLSHandshakeDone \/ WroteRequest \/ GotFirstResponseByte
    \/ ConnectionLost
    \/ \E c \in late : LateCallback(c)

\* What depends on the peer: a redirect, a response, its body.
Peer ==
    \/ \E next \in Hops : FollowRedirect(next)
    \/ \E n \in BodyLengths : DoReturns(n)
    \/ DoFails

Prober ==
    \/ \E isURL \in BOOLEAN : Begin(isURL)
    \/ ReturnDoErr \/ ReturnReadErr
    \/ \E statusOk \in BOOLEAN : VerdictHTTP(statusOk)
    \/ \E statusOk, found \in BOOLEAN : VerdictBody(statusOk, found)

Next == Transport \/ Peer \/ Prober \/ DoExpired \/ ReadBody \/ Expire \/ Done

Spec == Init /\ [][Next]_vars

\* The probe goroutine runs, the context ends, and an ended context ends
\* client.Do and a read.  The transport and the peer owe nothing.
Fairness ==
    /\ WF_vars(Prober)
    /\ WF_vars(Expire)
    /\ WF_vars(DoExpired)
    /\ WF_vars(expired /\ ReadBody)

FairSpec == Spec /\ Fairness

----------------------------------------------------------------------------
(* Properties *)

\* The types of a probe's state.
TypeOK ==
    /\ pc \in {"start", "do", "doErr", "read", "readErr", "verdict", "done"}
    /\ hop \in 1..RedirectLimit
    /\ dest \in Hops
    /\ ts \in [Fields -> [at : Nat, hop : 0..RedirectLimit]]
    /\ late \subseteq [field : Fields, hop : 1..RedirectLimit, race : BOOLEAN]
    /\ \A p \in result.phases : p.from # Zero /\ p.to # Zero

Phases == {p.phase : p \in result.phases}

\* "Phases are non-overlapping" (http.go:485, docs/metrics.md:250): although
\* the timestamps of all hops of a redirect chain are kept in one place and a
\* failed or expired hop leaves those of earlier hops beside its own, no two
\* reported phases cover the same time, unless a callback came out of order.
PhasesDisjoint ==
    ~raced => \A p, q \in result.phases :
        \/ p = q
        \/ p.from.at >= p.to.at \/ q.from.at >= q.to.at
        \/ p.to.at <= q.from.at \/ q.to.at <= p.from.at

\* The phases the last hop goes through itself.
OwnPhases ==
    {"tcp_connect", "request_write", "ttfb", "transfer"}
        \union (IF dest.lookup THEN {"dns_resolve"} ELSE {})
        \union (IF dest.scheme = "https" THEN {"tls_handshake"} ELSE {})

\* A probe that got a response reports how it came about, whatever callbacks
\* are late: the lookup of a name, connect, the handshake of an https hop, first
\* byte and transfer, and a request_write unless the write has not been reported
\* yet.  In a redirect chain, whose hops share one set of timestamps
\* (http_trace.go:46), each of these is a time of the last hop, unless a
\* callback came out of order.
PhasesComplete ==
    pc = "done" /\ result.received =>
        /\ OwnPhases \ {"request_write"} \subseteq Phases
        /\ (\A c \in late : c.field # "wroteRequest") => "request_write" \in Phases
        /\ ~raced => \A p \in result.phases :
             p.phase \in OwnPhases => p.from.hop = hop /\ p.to.hop = hop

\* "The reported Phases reflect the final hop only, matching the direct path
\* where httptrace fires on every hop and the last hop wins" (http.go:264-266,
\* docs/metrics-validation.md:162-163): a probe that got its response reports no
\* time of an earlier hop, unless a callback came out of order.
LastHopOnly ==
    pc = "done" /\ result.received /\ ~raced =>
        \A p \in result.phases : p.from.hop = hop /\ p.to.hop = hop

\* The verdict is about the whole body: a pattern is never matched against the
\* beginning of a longer one (http_body.go:200-208), and truncation is reported
\* exactly for bodies longer than the limit (http.go:225-236).
BodyVerdict ==
    /\ result.bodyEval => body <= BodyLimit
    /\ result.truncEval => (result.truncated <=> body > BodyLimit)
    /\ result.success => result.truncEval \/ result.bodyEval

\* Every probe returns although transport and peer may stall (its context ends).
Terminates == <>(pc = "done")
=============================================================================
