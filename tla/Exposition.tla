----------------------------- MODULE Exposition -----------------------------
(***************************************************************************)
(* Metrics one vector operation at a time.  Record, EnsureTarget and       *)
(* DeleteTarget (internal/metrics/metrics.go) are sequences of With().Set  *)
(* and Delete calls; each locks its own vector only.  The calls of         *)
(* different goroutines interleave, and a scrape, which collects one       *)
(* vector after the other, can read any of them between two operations.    *)
(*                                                                         *)
(* The series of Metrics are here the contents of the vectors; the calls   *)
(* still under way are sequences of operations.  Metrics itself, where     *)
(* every call is one step, is the specification this module implements.    *)
(***************************************************************************)
EXTENDS Metrics, Sequences, SequencesExt

CONSTANTS
    Together,      \* bound: the sets of targets that are active at the same time
    MaxRecording   \* bound on Record calls under way at the same time

ASSUME TogetherAssumption ==
    \A A \in Together : IsFiniteSet(A) /\ Cardinality(A) <= MaxActive
ASSUME ActiveAssumption == MaxActive \in Nat

VARIABLES
    recOps,   \* [Targets -> what is left of the Record of its goroutine]
    mainOps,  \* what is left of the main goroutine's EnsureTarget or DeleteTarget
    ensuring, \* the target of that EnsureTarget, or None
    prev      \* [active -> result exported before the Record under way]

stepVars == <<exporterVars, recOps, mainOps, ensuring, prev>>

----------------------------------------------------------------------------
(* Vector operations *)

Op(o, fam, key, sub, v) == [op |-> o, fam |-> fam, key |-> key, sub |-> sub, val |-> v]

SetOp(t, fam, sub, v) == <<Op("set", fam, buildLabels(t), sub, v)>>
DeleteOp(t, fam, sub) == <<Op("delete", fam, buildLabels(t), sub, None)>>
DeletePartialMatchOp(t, fam) == <<Op("deleteAll", fam, buildLabels(t), NoLabel, None)>>
SetOrDeleteOp(t, fam, observed, v) ==
    IF observed THEN SetOp(t, fam, NoLabel, v) ELSE DeleteOp(t, fam, NoLabel)

Written(o) == [fam |-> o.fam, key |-> o.key, sub |-> o.sub, val |-> o.val]

\* The operation replaces or removes series s.
Touches(o, s) ==
    /\ s.fam = o.fam /\ s.key = o.key
    /\ \/ o.op = "deleteAll"
       \/ o.op \in {"set", "delete"} /\ s.sub = o.sub

\* "ensure" is With() alone: it creates the series at its zero value.
Perform(S, o) ==
    LET rest == {s \in S : ~Touches(o, s)}
    IN  CASE o.op = "set" -> rest \union {Written(o)}
          [] o.op \in {"delete", "deleteAll"} -> rest
          [] o.op = "ensure" ->
               IF \E s \in S : s.fam = o.fam /\ s.key = o.key THEN S ELSE S \union {Written(o)}

----------------------------------------------------------------------------
(* The calls *)

knownPhases == <<"dns_resolve", "tcp_connect", "tls_handshake", "request_write", "ttfb",
                 "transfer", "proxy_dial", "proxy_tls", "proxy_connect">>

deletePhaseOps(t) ==
    [i \in DOMAIN knownPhases |-> Op("delete", "phase", buildLabels(t), knownPhases[i], None)]

\* Mutant: each phase is set or deleted in turn.
phaseOpsInPlace(t, r, order) ==
    [i \in DOMAIN knownPhases |->
        IF knownPhases[i] \in r.phases
          THEN Op("set", "phase", buildLabels(t), knownPhases[i], Val(r))
          ELSE Op("delete", "phase", buildLabels(t), knownPhases[i], None)]

\* All known phases are deleted first, then the observed ones set in the
\* order in which the map of phases is iterated.
phaseOps(t, r, order) ==
    deletePhaseOps(t)
        \o [i \in DOMAIN order |-> Op("set", "phase", buildLabels(t), order[i], Val(r))]

clearTLSOps(t) == DeleteOp(t, "certExpiry", NoLabel) \o DeletePartialMatchOp(t, "chain")

chainOp(t, r, c) == IF c \in r.chain THEN SetOp(t, "chain", c, Val(r)) ELSE <<>>

\* The certificates in the order of the chain, leaf first.
tlsOps(t, r) ==
    clearTLSOps(t)
        \o (IF r.chain # {} THEN SetOp(t, "certExpiry", NoLabel, Val(r)) ELSE <<>>)
        \o chainOp(t, r, "leaf") \o chainOp(t, r, "intermediate") \o chainOp(t, r, "root")

\* Mutant: the new state is set before the old ones are deleted.
mtuOpsSetFirst(t, r) ==
    SetOp(t, "mtuState", r.mtuState, One)
        \o DeletePartialMatchOp(t, "mtuState")
        \o SetOrDeleteOp(t, "mtuBytes", r.mtu, Val(r))

mtuOps(t, r) ==
    DeletePartialMatchOp(t, "mtuState")
        \o SetOrDeleteOp(t, "mtuBytes", r.mtu, Val(r))
        \o SetOp(t, "mtuState", r.mtuState, One)

avgOps(t, r) == SetOrDeleteOp(t, "avgRTT", r.replies >= 1, Val(r))

typeOps(t, r) ==
    CASE t.type = "http" ->
           SetOrDeleteOp(t, "httpStatus", r.http, Val(r))
             \o (IF t.emitCert THEN tlsOps(t, r) ELSE clearTLSOps(t))
             \o SetOrDeleteOp(t, "truncated", r.trunc, Val(r))
      [] t.type = "icmp" ->
           SetOp(t, "packetLoss", NoLabel, Val(r)) \o avgOps(t, r)
             \o SetOrDeleteOp(t, "stddevRTT", r.replies >= 2, Val(r))
      [] t.type = "mtu" -> mtuOps(t, r) \o avgOps(t, r)
      [] t.type = "dns" ->
           SetOp(t, "dnsTime", NoLabel, Val(r)) \o SetOrDeleteOp(t, "dnsMatch", r.dnsEval, Val(r))
      [] t.type = "tls_cert" -> tlsOps(t, r)
      [] t.type = "http_body" ->
           SetOrDeleteOp(t, "bodyMatch", r.bodyEval, Val(r))
             \o SetOrDeleteOp(t, "httpStatus", r.http, Val(r))
      [] t.type \in {"tcp", "proxy_connect"} -> <<>>

\* Mutant: the common metrics are deleted before they are set.
commonOpsCleared(t, r) ==
    DeleteOp(t, "success", NoLabel) \o SetOp(t, "success", NoLabel, Val(r))
        \o SetOp(t, "duration", NoLabel, Val(r)) \o SetOp(t, "timedOut", NoLabel, Val(r))

commonOps(t, r) ==
    SetOp(t, "success", NoLabel, Val(r)) \o SetOp(t, "duration", NoLabel, Val(r))
        \o SetOp(t, "timedOut", NoLabel, Val(r))

connectOps(t, r) ==
    IF t.type \in {"proxy_connect", "http", "http_body", "tls_cert"}
      THEN SetOrDeleteOp(t, "connectStatus", r.connect, Val(r))
      ELSE <<>>

recordOps(t, r, order) ==
    commonOps(t, r) \o connectOps(t, r) \o phaseOps(t, r, order) \o typeOps(t, r)

proxyInfoOp(t, o) == <<Op(o, "proxyInfo", <<t.name, NoLabel>>, t.proxy, One)>>

ensureOps(t) ==
    SetOp(t, "timeout", NoLabel, ConfigVal) \o SetOp(t, "interval", NoLabel, ConfigVal)
        \o <<Op("ensure", "overlap", buildLabels(t), NoLabel, Count(0))>>
        \o (IF t.proxy # None THEN proxyInfoOp(t, "set") ELSE <<>>)

\* DeleteTarget's vectors in the order of the code.  On a vector without labels
\* of its own, Delete is the same as a partial match.
deleteOrder == <<"success", "duration", "timeout", "interval", "timedOut", "connectStatus",
                 "httpStatus", "certExpiry", "chain", "packetLoss", "avgRTT", "stddevRTT",
                 "mtuBytes", "mtuState", "overlap", "dnsTime", "dnsMatch", "bodyMatch",
                 "truncated">>

deleteFamily(t, fam) == Op("deleteAll", fam, buildLabels(t), NoLabel, None)

\* Mutant: the truncation gauge is left out.
deleteOpsForgetful(t) ==
    [i \in 1..(Len(deleteOrder) - 1) |-> deleteFamily(t, deleteOrder[i])]
        \o proxyInfoOp(t, IF t.proxy = None THEN "deleteAll" ELSE "delete")
        \o deletePhaseOps(t)

deleteOps(t) ==
    [i \in DOMAIN deleteOrder |-> deleteFamily(t, deleteOrder[i])]
        \o proxyInfoOp(t, IF t.proxy = None THEN "deleteAll" ELSE "delete")
        \o deletePhaseOps(t)

----------------------------------------------------------------------------
(* Steps *)

Recording == {t \in Targets : recOps[t] # <<>>}

\* The main goroutine enters EnsureTarget (startTarget, before the goroutine
\* of the target exists).
EnsureBegin(t) ==
    /\ registry = "ok"
    /\ mainOps = <<>>
    /\ \A u \in active : u.name # t.name
    /\ active \union {t} \in Together
    /\ mainOps' = ensureOps(t)
    /\ ensuring' = t
    /\ active' = active \union {t}
    /\ last' = [u \in active' |-> IF u = t THEN None ELSE last[u]]
    /\ prev' = [u \in active' |-> IF u = t THEN None ELSE prev[u]]
    /\ skipped' = [u \in active' |-> IF u = t THEN 0 ELSE skipped[u]]
    /\ UNCHANGED <<registry, series, recOps>>

\* The main goroutine enters DeleteTarget.
DeleteBegin(t) ==
    /\ mainOps = <<>>
    /\ t \in active
    /\ mainOps' = deleteOps(t)
    /\ active' = active \ {t}
    /\ last' = [u \in active' |-> last[u]]
    /\ prev' = [u \in active' |-> prev[u]]
    /\ skipped' = [u \in active' |-> skipped[u]]
    /\ UNCHANGED <<registry, series, recOps, ensuring>>

MainStep ==
    /\ mainOps # <<>>
    /\ series' = Perform(series, Head(mainOps))
    /\ mainOps' = Tail(mainOps)
    /\ ensuring' = IF Tail(mainOps) = <<>> THEN None ELSE ensuring
    /\ UNCHANGED <<registry, active, last, skipped, recOps, prev>>

\* The goroutine of t enters Record.
RecordBegin(t, r) ==
    /\ t \in active
    /\ ensuring # t
    /\ recOps[t] = <<>>
    /\ Cardinality(Recording) < MaxRecording
    /\ \E order \in SetToSeqs(r.phases) :
          recOps' = [recOps EXCEPT ![t] = recordOps(t, r, order)]
    /\ last' = [last EXCEPT ![t] = r]
    /\ UNCHANGED <<registry, series, active, skipped, mainOps, ensuring, prev>>

RecordStep(t) ==
    /\ recOps[t] # <<>>
    /\ series' = Perform(series, Head(recOps[t]))
    /\ recOps' = [recOps EXCEPT ![t] = Tail(@)]
    /\ prev' = IF Tail(recOps[t]) = <<>> THEN [prev EXCEPT ![t] = last[t]] ELSE prev
    /\ UNCHANGED <<registry, active, last, skipped, mainOps, ensuring>>

\* IncrSkippedOverlap is one operation of the goroutine of t.
OverlapStep(t) ==
    /\ t \in active
    /\ ensuring # t
    /\ recOps[t] = <<>>
    /\ IncrSkippedOverlap(t)
    /\ UNCHANGED <<recOps, mainOps, ensuring, prev>>

\* What this module assumes of its caller: no Record of the target is under way
\* when DeleteTarget is entered.  scheduler.go:130-134 does not wait for one; that
\* case is NoStaleSeries of module Scheduler.
DeleteUndisturbed(t) == recOps[t] = <<>> /\ DeleteBegin(t)

StepInit ==
    /\ ExporterInit
    /\ recOps = [t \in Targets |-> <<>>]
    /\ mainOps = <<>>
    /\ ensuring = None
    /\ prev = [t \in {} |-> None]

StepNext ==
    \/ \E keys \in TagKeySets :
          NewMetricsExporter(keys) /\ UNCHANGED <<recOps, mainOps, ensuring, prev>>
    \/ MainStep
    \/ \E t \in Targets : \/ EnsureBegin(t) \/ DeleteUndisturbed(t)
                          \/ RecordStep(t) \/ OverlapStep(t)
                          \/ \E r \in Results(t.type) : RecordBegin(t, r)

StepSpec == StepInit /\ [][StepNext]_stepVars

----------------------------------------------------------------------------
(* Properties *)

\* Of a sequence of operations: what they replace or remove, what they leave,
\* and the series that With() creates where the vectors S have none.
TouchedBy(q, s) == \E i \in DOMAIN q : Touches(q[i], s)

Final(q) ==
    {Written(q[k]) : k \in {i \in DOMAIN q :
        q[i].op = "set" /\ \A j \in (i + 1)..Len(q) : ~Touches(q[j], Written(q[i]))}}

Ensured(S, q) ==
    {Written(q[k]) : k \in {i \in DOMAIN q :
        q[i].op = "ensure" /\ ~ \E s \in S : s.fam = q[i].fam /\ s.key = q[i].key}}

\* The vectors once the calls under way have ended.
Completed ==
    LET Q == {mainOps} \union {recOps[t] : t \in Targets}
    IN  {s \in series : \A q \in Q : ~TouchedBy(q, s)}
          \union Ensured(series, mainOps) \union UNION {Final(q) : q \in Q}

Atomic == INSTANCE Metrics WITH series <- Completed

\* The calls take effect as a whole: the interleaved vector operations of
\* Record, EnsureTarget and DeleteTarget (metrics.go:295-542) implement
\* Metrics, in which every call is one step, as long as no target is deleted
\* during its Record (DeleteUndisturbed).
ImplementsMetrics == Atomic!ExporterSpec

\* However calls interleave, except a DeleteTarget with a Record of its own
\* target (DeleteUndisturbed), once those under way have ended /metrics is exactly
\* what the latest results observed (docs/metrics.md:292).
ExactWhenDone == Atomic!ExactExposition

\* The series one result makes a target export.
Exported(t, r) ==
    IF r = None THEN {}
    ELSE {<<e[1], e[2], IF e[1] = "mtuState" THEN One ELSE Val(r)>> : e \in Emitted(t, r)}

\* A scrape never reads a vector in which two results of a target are mixed:
\* at any moment a family's series are some of those of the latest result or
\* some of those of the one before it, never of both (metrics.go:328-337,
\* 407-454: delete first, then set).
NoMixedFamily ==
    \A t \in active :
        LET new == Exported(t, last[t])
            old == Exported(t, prev[t])
            now == {<<s.fam, s.sub, s.val>> : s \in {x \in series :
                       /\ x.key = buildLabels(t)
                       /\ x.fam \notin {"timeout", "interval", "overlap"}}}
        IN  \A f \in {x[1] : x \in now} :
                {x \in now : x[1] = f} \subseteq new \/ {x \in now : x[1] = f} \subseteq old

\* The families that are deleted before they are set again.
Cleared == {"phase", "certExpiry", "chain", "mtuState"}

\* Apart from these a scrape never misses a series that both the latest result
\* and the one before it observed: probe_success of a target never disappears.
NoGap ==
    \A t \in active : last[t] # None /\ prev[t] # None =>
        \A e \in Emitted(t, last[t]) \intersect Emitted(t, prev[t]) :
            e[1] \notin Cleared =>
                \E s \in series : s.fam = e[1] /\ s.key = buildLabels(t) /\ s.sub = e[2]
=============================================================================
