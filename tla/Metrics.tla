------------------------------ MODULE Metrics ------------------------------
(***************************************************************************)
(* The metrics exporter (internal/metrics/metrics.go): which series exist  *)
(* for a target, and from which probe result their values come, through    *)
(* any sequence of EnsureTarget, Record, IncrSkippedOverlap and            *)
(* DeleteTarget.  A value is abstracted to the result it was computed      *)
(* from; a result to the observations that decide what is exported.        *)
(***************************************************************************)
EXTENDS Naturals, FiniteSets

CONSTANTS
    Targets,     \* [name, labels, type, emitCert, proxy]: proxy = None or an endpoint
    Results(_),  \* the results a probe of a given type can produce
    TagKeySets,  \* tag key sets that config.CollectTagKeys can return
    ReservedLabels,  \* label names that begin with "__"
    MaxActive,   \* bound on targets registered at the same time
    MaxOverlap,  \* bound on the overlap counter
    None

\* The value of a label that a vector does not have.
NoLabel == ""

ProbeTypes == {"tcp", "http", "icmp", "mtu", "dns", "tls_cert", "http_body", "proxy_connect"}

AllPhases == {"dns_resolve", "tcp_connect", "tls_handshake", "request_write", "ttfb",
              "transfer", "proxy_dial", "proxy_tls", "proxy_connect"}

\* The empty label key is the one of netsonar_target_proxy_info.
ASSUME TargetsAssumption ==
    /\ None \notin Targets
    /\ \A t \in Targets : /\ t.type \in ProbeTypes
                          /\ t.emitCert \in BOOLEAN
                          /\ t.labels # NoLabel
ASSUME ResultsAssumption ==
    \A p \in ProbeTypes : \A r \in Results(p) :
        /\ r # None
        /\ r.phases \subseteq AllPhases
        /\ r.chain \subseteq {"leaf", "intermediate", "root"}
        /\ r.replies \in Nat
        /\ {r.connect, r.http, r.trunc, r.mtu, r.dnsEval, r.bodyEval} \subseteq BOOLEAN

\* Labels every per-target vector has, and the ones some vectors add.
baseLabels == {"target", "target_name", "probe_type", "proxy_name"}
extraLabels == [phase |-> {"phase"}, chain |-> {"cert_index", "cert_role"},
                mtuState |-> {"state", "detail"}]

\* The tag keys config.validateLabelName refuses.
FixedLabels == baseLabels \union {"proxy_endpoint"}

VARIABLES
    registry,  \* "none", "ok", or "panic" when MustRegister failed
    series,    \* the exported series: [fam, key, sub, val]
    active,    \* targets ensured and not deleted
    last,      \* [active -> latest recorded result, or None]
    skipped    \* [active -> IncrSkippedOverlap calls since EnsureTarget]

exporterVars == <<registry, series, active, last, skipped>>

----------------------------------------------------------------------------
(* Vector operations *)

\* Where a value comes from: a result, the configuration, an info metric's 1
\* or a counter.
Val(r)    == <<"result", r.val>>
ConfigVal == <<"config", NoLabel>>
One       == <<"one", NoLabel>>
Count(n)  == <<"count", n>>

buildLabels(t) == <<t.name, t.labels>>

\* vec.With(labels).Set(v), with further labels in sub.
With(S, fam, t, sub, v) ==
    {s \in S : ~(s.fam = fam /\ s.key = buildLabels(t) /\ s.sub = sub)}
        \union {[fam |-> fam, key |-> buildLabels(t), sub |-> sub, val |-> v]}

\* vec.Delete(labels) of a vector without further labels, and
\* vec.DeletePartialMatch(labels) of one that has some.
Delete(S, fam, t) == {s \in S : ~(s.fam = fam /\ s.key = buildLabels(t))}

\* The pattern of every conditional metric: set it if the latest result
\* observed it, delete it otherwise.
SetOrDelete(S, fam, t, observed, v) ==
    IF observed THEN With(S, fam, t, NoLabel, v) ELSE Delete(S, fam, t)

----------------------------------------------------------------------------
(* Record *)

\* success, duration and timed_out.
recordCommon(S, t, r) ==
    With(With(With(S, "success", t, NoLabel, Val(r)), "duration", t, NoLabel, Val(r)),
         "timedOut", t, NoLabel, Val(r))

recordProxyConnect(S, t, r) ==
    IF t.type \in {"proxy_connect", "http", "http_body", "tls_cert"}
      THEN SetOrDelete(S, "connectStatus", t, r.connect, Val(r))
      ELSE S

\* All known phases are deleted, then the observed ones set.
recordPhases(S, t, r) ==
    {s \in S : ~(s.fam = "phase" /\ s.key = buildLabels(t) /\ s.sub \in AllPhases)}
        \union {[fam |-> "phase", key |-> buildLabels(t), sub |-> p, val |-> Val(r)]
                   : p \in r.phases}

clearTLSResult(S, t) == Delete(Delete(S, "certExpiry", t), "chain", t)

\* r.chain: the certificates of the observed peer chain (empty: none seen).
recordTLSResult(S, t, r) ==
    LET C == clearTLSResult(S, t)
    IN  IF r.chain = {} THEN C
        ELSE With(C, "certExpiry", t, NoLabel, Val(r))
               \union {[fam |-> "chain", key |-> buildLabels(t), sub |-> c, val |-> Val(r)]
                          : c \in r.chain}

recordMTUResult(S, t, r) ==
    With(SetOrDelete(Delete(S, "mtuState", t), "mtuBytes", t, r.mtu, Val(r)),
         "mtuState", t, r.mtuState, One)

recordICMPAvgRTT(S, t, r) == SetOrDelete(S, "avgRTT", t, r.replies >= 1, Val(r))
recordICMPStddevRTT(S, t, r) == SetOrDelete(S, "stddevRTT", t, r.replies >= 2, Val(r))

recordByType(S, t, r) ==
    CASE t.type = "http" ->
           LET A == SetOrDelete(S, "httpStatus", t, r.http, Val(r))
               B == IF t.emitCert THEN recordTLSResult(A, t, r) ELSE clearTLSResult(A, t)
           IN  SetOrDelete(B, "truncated", t, r.trunc, Val(r))
      [] t.type = "icmp" ->
           recordICMPStddevRTT(
               recordICMPAvgRTT(With(S, "packetLoss", t, NoLabel, Val(r)), t, r), t, r)
      [] t.type = "mtu" -> recordICMPAvgRTT(recordMTUResult(S, t, r), t, r)
      [] t.type = "dns" ->
           SetOrDelete(With(S, "dnsTime", t, NoLabel, Val(r)), "dnsMatch", t, r.dnsEval, Val(r))
      [] t.type = "tls_cert" -> recordTLSResult(S, t, r)
      [] t.type = "http_body" ->
           SetOrDelete(SetOrDelete(S, "bodyMatch", t, r.bodyEval, Val(r)),
                       "httpStatus", t, r.http, Val(r))
      [] t.type \in {"tcp", "proxy_connect"} -> S

Record(t, r) ==
    /\ t \in active
    /\ r \in Results(t.type)
    /\ series' = recordByType(
                   recordPhases(recordProxyConnect(recordCommon(series, t, r), t, r), t, r),
                   t, r)
    /\ last' = [last EXCEPT ![t] = r]
    /\ UNCHANGED <<registry, active, skipped>>

----------------------------------------------------------------------------
(* Life of a target *)

\* netsonar_target_proxy_info carries the target name and the proxy endpoint
\* instead of the common labels.
proxyInfo(t) == [fam |-> "proxyInfo", key |-> <<t.name, NoLabel>>, sub |-> t.proxy, val |-> One]

\* With() creates the counter at zero and leaves an existing one alone.
ensureCounter(S, t) ==
    IF \E s \in S : s.fam = "overlap" /\ s.key = buildLabels(t)
      THEN S
      ELSE With(S, "overlap", t, NoLabel, Count(0))

EnsureTarget(t) ==
    /\ registry = "ok"
    /\ t \notin active /\ \A u \in active : u.name # t.name
    /\ Cardinality(active) < MaxActive
    /\ series' = ensureCounter(With(With(series, "timeout", t, NoLabel, ConfigVal),
                                    "interval", t, NoLabel, ConfigVal), t)
                   \union (IF t.proxy # None THEN {proxyInfo(t)} ELSE {})
    /\ active' = active \union {t}
    /\ last' = [u \in active' |-> IF u = t THEN None ELSE last[u]]
    /\ skipped' = [u \in active' |-> IF u = t THEN 0 ELSE skipped[u]]
    /\ UNCHANGED registry

IncrSkippedOverlap(t) ==
    /\ t \in active
    /\ skipped[t] < MaxOverlap
    /\ \E s \in series :
          /\ s.fam = "overlap" /\ s.key = buildLabels(t)
          /\ series' = With(series, "overlap", t, NoLabel, Count(s.val[2] + 1))
    /\ skipped' = [skipped EXCEPT ![t] = @ + 1]
    /\ UNCHANGED <<registry, active, last>>

\* A target without a proxy clears by name, one with a proxy by its endpoint.
deleteTargetProxyInfo(S, t) ==
    IF t.proxy = None
      THEN {s \in S : ~(s.fam = "proxyInfo" /\ s.key = <<t.name, NoLabel>>)}
      ELSE S \ {proxyInfo(t)}

\* The vectors DeleteTarget deletes from.
deletedFamilies ==
    {"success", "duration", "timeout", "interval", "timedOut", "connectStatus", "httpStatus",
     "certExpiry", "chain", "packetLoss", "avgRTT", "stddevRTT", "mtuBytes", "mtuState",
     "overlap", "dnsTime", "dnsMatch", "bodyMatch", "truncated", "phase"}

DeleteTarget(t) ==
    /\ t \in active
    /\ series' = deleteTargetProxyInfo(
                   {s \in series : ~(s.fam \in deletedFamilies /\ s.key = buildLabels(t))}, t)
    /\ active' = active \ {t}
    /\ last' = [u \in active' |-> last[u]]
    /\ skipped' = [u \in active' |-> skipped[u]]
    /\ UNCHANGED registry

\* NewMetricsExporter: MustRegister panics on a vector with a label twice or with
\* a reserved one.
NewMetricsExporter(keys) ==
    /\ registry = "none"
    /\ keys \intersect FixedLabels = {}      \* passed config.validate
    /\ registry' = IF \/ keys \intersect ReservedLabels # {}
                      \/ \E v \in DOMAIN extraLabels : keys \intersect extraLabels[v] # {}
                     THEN "panic" ELSE "ok"
    /\ UNCHANGED <<series, active, last, skipped>>

----------------------------------------------------------------------------
ExporterInit ==
    /\ registry = "none"
    /\ series = {}
    /\ active = {}
    /\ last = [t \in {} |-> None]
    /\ skipped = [t \in {} |-> 0]

ExporterNext ==
    \/ \E keys \in TagKeySets : NewMetricsExporter(keys)
    \/ \E t \in Targets : \/ EnsureTarget(t)
                          \/ IncrSkippedOverlap(t)
                          \/ DeleteTarget(t)
                          \/ \E r \in Results(t.type) : Record(t, r)

ExporterSpec == ExporterInit /\ [][ExporterNext]_exporterVars

----------------------------------------------------------------------------
(* Properties *)

\* The emission summary of docs/metrics.md, as the set of <<family, sub>>
\* that a target with latest result r exports.
Emitted(t, r) ==
    {<<f, NoLabel>> : f \in {"success", "duration", "timedOut"}}
    \union {<<"phase", p>> : p \in r.phases}
    \union (IF r.connect /\ t.type \in {"proxy_connect", "http", "http_body", "tls_cert"}
              THEN {<<"connectStatus", NoLabel>>} ELSE {})
    \union (IF r.http /\ t.type \in {"http", "http_body"} THEN {<<"httpStatus", NoLabel>>} ELSE {})
    \union (IF r.trunc /\ t.type = "http" THEN {<<"truncated", NoLabel>>} ELSE {})
    \union (IF r.bodyEval /\ t.type = "http_body" THEN {<<"bodyMatch", NoLabel>>} ELSE {})
    \union (IF r.chain # {} /\ (t.type = "tls_cert" \/ (t.type = "http" /\ t.emitCert))
              THEN {<<"certExpiry", NoLabel>>} \union {<<"chain", c>> : c \in r.chain} ELSE {})
    \union (IF t.type = "icmp" THEN {<<"packetLoss", NoLabel>>} ELSE {})
    \union (IF t.type \in {"icmp", "mtu"} /\ r.replies >= 1 THEN {<<"avgRTT", NoLabel>>} ELSE {})
    \union (IF t.type = "icmp" /\ r.replies >= 2 THEN {<<"stddevRTT", NoLabel>>} ELSE {})
    \union (IF t.type = "mtu" THEN {<<"mtuState", r.mtuState>>} ELSE {})
    \union (IF t.type = "mtu" /\ r.mtu THEN {<<"mtuBytes", NoLabel>>} ELSE {})
    \union (IF t.type = "dns" THEN {<<"dnsTime", NoLabel>>} ELSE {})
    \union (IF t.type = "dns" /\ r.dnsEval THEN {<<"dnsMatch", NoLabel>>} ELSE {})

\* The series scheduling alone creates for a target.
ConfigSeries(t) ==
    {<<f, NoLabel>> : f \in {"timeout", "interval", "overlap"}}

\* Current-observation semantics (docs/metrics.md:292): whatever was recorded
\* before, each active target exports exactly what its latest result observed,
\* every result series has that result's value, the overlap counter counts the
\* skipped ticks since the target was started, and nothing else is exported
\* (so a deleted target leaves nothing and touches no other target).
ExactExposition ==
    /\ \A t \in active :
          {<<s.fam, s.sub>> : s \in {x \in series : x.key = buildLabels(t)}}
              = ConfigSeries(t) \union (IF last[t] = None THEN {} ELSE Emitted(t, last[t]))
    /\ \A s \in series :
          IF s.fam = "proxyInfo"
            THEN \E t \in active : t.proxy # None /\ s = proxyInfo(t)
            ELSE \E t \in active :
                    /\ s.key = buildLabels(t)
                    /\ s.fam \in {"timeout", "interval"} => s.val = ConfigVal
                    /\ s.fam = "overlap" => s.val = Count(skipped[t])
                    /\ s.fam \notin {"timeout", "interval", "overlap", "mtuState"}
                         => s.val = Val(last[t])
    /\ \A t \in active : t.proxy # None => proxyInfo(t) \in series
=============================================================================
