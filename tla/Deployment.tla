----------------------------- MODULE Deployment -----------------------------
(***************************************************************************)
(* A configuration file on a host over time: diagnosed, loaded at startup, *)
(* reloaded after edits of the file or of the secrets it refers to, and    *)
(* probed.  Composes Config, Doctor and DNS with what cmd/agent/main.go,   *)
(* the scheduler and the exporter do with an accepted configuration.       *)
(* Module Agent has the steps of a reload and Scheduler its goroutines;    *)
(* here a load is one step and the configuration is in full.               *)
(***************************************************************************)
EXTENDS DNS, Doctor

CONSTANTS
    Files,    \* parsed files: [agent, proxies, targets]
    Hosts,    \* hosts: [secrets, busy, groups, pingRange, pingSocket, pmtu, nameservers]
    Answers,  \* answers to a DNS query: [err, records]
    ReservedLabels,  \* the well formed labels that begin with "__"
    Unescape(_)      \* a path without its percent escapes (ServeMux)

ASSUME FilesAssumption ==
    \A f \in Files : /\ DOMAIN f = {"agent", "proxies", "targets"}
                     /\ f.agent \in AgentConfig
                     /\ \A n \in DOMAIN f.proxies : f.proxies[n] \in ProxyConfig
                     /\ f.targets \in Seq(TargetConfig)

ASSUME HostsAssumption == \A h \in Hosts : h.secrets \in [{"env", "file"} -> STRING]

ASSUME AnswersAssumption ==
    \A a \in Answers : a.err \in BOOLEAN /\ a.records \in Seq([val : Nat, form : STRING])

\* Paths that newHTTPMux registers itself.
HealthPaths == {"/healthz", "/readyz"}

ASSUME UnescapeAssumption == \A p \in HealthPaths : Unescape(p) = p

VARIABLES
    agent,     \* "down", "refused", "panicked", "unbound" or "up"
    file,      \* the file of the latest start or accepted reload
    host,      \* the host it was loaded on
    startup,   \* what the latest start fixed (StartupOnly)
    running,   \* target name -> the configuration its loop was started with
    dns        \* the latest DNS probe: [opts, answer, result], or Nil

vars == <<agent, file, host, startup, running, dns>>

Init ==
    /\ agent = "down" /\ file \in Files /\ host \in Hosts
    /\ startup = Nil /\ running = [n \in {} |-> Nil]
    /\ dns = Nil

Names(c) == {t.name : t \in c.targets}
TargetOf(c, n) == CHOOSE t \in c.targets : t.name = n

\* Labels of the exporter's vectors (metrics.go:86-212).
vectorLabels == FixedLabels \union {"phase", "cert_index", "cert_role", "state", "detail"}

\* The probe types newProber knows.
proberTypes == {"tcp", "http", "icmp", "mtu", "dns", "tls_cert", "http_body", "proxy_connect"}

\* What makes the start of a loop panic: time.NewTicker on an interval that is
\* not positive, newProber on a type it does not know and mustProxyEndpoint on
\* an endpoint that does not parse.
TargetPanics(t) ==
    \/ t.interval <= 0
    \/ t.type \notin proberTypes
    \/ t.proxy # Nil /\ ~Parse(t.proxy.endpoint)

\* Calls of the startup path that panic: MustRegister on a vector with a label
\* twice or with a reserved one, ServeMux.Handle on a malformed path or on one
\* that without its escapes is registered already, and the start of a loop.
Panics(c) ==
    \/ c.tagKeys \intersect (vectorLabels \union ReservedLabels) # {}
    \/ c.agent.path \notin WellFormed \/ Unescape(c.agent.path) \in HealthPaths
    \/ \E t \in c.targets : TargetPanics(t)

\* The fields handleReload compares with their startup values;
\* enable_runtime_metrics, which nothing here depends on, is left to Agent.
StartupOnly(c) == <<c.tagKeys, c.agent.format, c.agent.listen, c.agent.path>>

\* run(): load, register, start the targets, listen.
Start ==
    /\ agent = "down"
    /\ LET c == LoadConfig(file, host) IN
       IF ~Accepted(file, host)
         THEN agent' = "refused" /\ UNCHANGED <<startup, running>>
         ELSE /\ agent' = CASE Panics(c)                   -> "panicked"
                            [] c.agent.listen \in host.busy -> "unbound"
                            [] OTHER                        -> "up"
              /\ startup' = StartupOnly(c)
              /\ running' = [n \in Names(c) |-> TargetOf(c, n)]
    /\ UNCHANGED <<file, host, dns>>

\* SIGHUP, between two probes, after the file became f and the host h: refused,
\* or diffTargets decides which loops are replaced, and those are started.
Reload(f, h) ==
    /\ agent = "up" /\ dns = Nil
    /\ LET c == LoadConfig(f, h)
           kept(n) == n \in DOMAIN running /\ Equal(running[n], TargetOf(c, n))
       IN  IF Accepted(f, h) /\ StartupOnly(c) = startup
             THEN /\ file' = f /\ host' = h
                  /\ agent' = IF \E n \in Names(c) : ~kept(n) /\ TargetPanics(TargetOf(c, n))
                                THEN "panicked" ELSE "up"
                  /\ running' = [n \in Names(c) |-> IF kept(n) THEN running[n]
                                                              ELSE TargetOf(c, n)]
             ELSE UNCHANGED <<agent, file, host, running>>
    /\ UNCHANGED <<startup, dns>>

\* One probe of a DNS target.
ProbeDNS(n, answer) ==
    /\ agent = "up" /\ dns = Nil
    /\ running[n].type = "dns" /\ Fits(answer, running[n].opts)
    /\ dns' = [opts |-> running[n].opts, answer |-> answer,
               result |-> probeDNS(running[n].opts, answer)]
    /\ UNCHANGED <<agent, file, host, startup, running>>

\* The scheduler has recorded the result.
RecordDNS ==
    /\ dns # Nil
    /\ dns' = Nil
    /\ UNCHANGED <<agent, file, host, startup, running>>

\* The process has ended.
Ended == agent \in {"refused", "panicked", "unbound"} /\ UNCHANGED vars

Next ==
    \/ Start \/ RecordDNS \/ Ended
    \/ \E f \in Files, h \in Hosts : Reload(f, h)
    \/ \E n \in DOMAIN running, a \in Answers : ProbeDNS(n, a)

Spec == Init /\ [][Next]_vars

----------------------------------------------------------------------------
(* Properties *)

\* An accepted configuration does not make the agent panic: tag keys must not
\* collide with the labels of the agent (config.go:98-100) and are valid label
\* names (config.go:692-697), and the metrics path not with the health endpoints
\* (config.go:641-643).
StartupSafe == agent # "panicked"

\* No reload takes down a running agent, whatever defaults and proxies its
\* targets inherit: the loops that handleReload starts (main.go:197) come from
\* the file as validated, and the rest of the process keeps what it started with.
ReloadSurvives == [][agent = "up" => agent' = "up"]_vars

\* What a target of the file means: itself, the agent defaults it inherits and
\* the registry entry it names.
Meaning(f, n) ==
    LET t == TargetOf([targets |-> Values(f.targets)], n)
        p == IF t.proxyName \in DOMAIN f.proxies THEN f.proxies[t.proxyName] ELSE Nil
    IN  [interval |-> IF t.interval = 0 THEN f.agent.interval ELSE t.interval,
         timeout  |-> IF t.timeout = 0 THEN f.agent.timeout ELSE t.timeout,
         resolver |-> IF t.resolver = Nil THEN f.agent.resolver ELSE t.resolver,
         sizes    |-> IF t.type # "mtu" THEN <<>>
                      ELSE OrElse(t.opts.sizes, <<>>,
                                  OrElse(f.agent.sizes, <<>>, DefaultICMPPayloadSizes)),
         endpoint |-> IF p = Nil THEN Nil ELSE <<p.url.scheme, p.url.host, p.skipVerify>>,
         auth     |-> IF p = Nil THEN Nil ELSE <<p.user, p.pass>>]

Probed(t) ==
    [interval |-> t.interval, timeout |-> t.timeout, resolver |-> t.resolver,
     sizes    |-> IF t.type # "mtu" THEN <<>> ELSE t.opts.sizes,
     endpoint |-> IF t.proxy = Nil THEN Nil
                  ELSE <<t.proxy.endpoint.scheme, t.proxy.endpoint.host, t.proxy.skipVerify>>,
     auth     |-> IF t.proxy = Nil THEN Nil ELSE <<t.proxy.user, t.proxy.pass>>]

\* However many reloads ago a loop was started, it probes with what the file
\* says now: a changed agent default (payload sizes included), resolver or proxy entry
\* (its address, sources of credentials, tls_skip_verify) reaches every
\* target that inherits or names it (docs/probe-types.md:113-122).
ProbesFollowFile ==
    agent = "up" =>
        /\ DOMAIN running = {t.name : t \in Values(file.targets)}
        /\ \A n \in DOMAIN running : Probed(running[n]) = Meaning(file, n)

\* A reload restarts no loop whose target means the same and has the same
\* options: neither a default written out, nor a default or proxy of others,
\* nor a rotated secret restarts it (docs/configuration.md:144-146).
UnaffectedKeepRunning ==
    [][\A n \in DOMAIN running \intersect DOMAIN running' :
         LET old == running[n]
             new == running'[n]
         IN  old # new =>
               \/ Meaning(file, n) # Meaning(file', n)
               \/ <<old.type, old.address, old.tags, old.proxyName, old.opts>>
                    # <<new.type, new.address, new.tags, new.proxyName, new.opts>>]_vars

\* When doctor is content with a file, the agent neither refuses it nor fails to
\* listen, and its ICMP, MTU and DNS targets find what they need on the host.
\* (Doctor does not start the agent: the panics of StartupSafe escape it.)
DoctorSound ==
    doctorOK(file, host) =>
        /\ agent \notin {"refused", "unbound"}
        /\ agent = "up" => \A n \in DOMAIN running : LET t == running[n] IN
             /\ t.type \in {"icmp", "mtu"} => host.pingSocket
             /\ t.type = "mtu" => host.pmtu
             /\ t.type = "dns" => host.nameservers \/ t.opts.server # NoAddress

Occurrences(v, s) == Cardinality({i \in DOMAIN s : s[i].val = v})

\* A DNS probe of an accepted target looks up nothing before its query, a server
\* given by name being refused (config.go:1063-1066); it succeeds only on records, and matches exactly when answer and
\* dns_expected hold the same values equally often in any order and writing.
DNSVerdict ==
    dns # Nil => LET r == dns.result
                     got == dns.answer.records
                     want == dns.opts.expected
                     named == {x \in Values(got) : x.val # 0} IN
        /\ r.lookups = 1
        /\ r.success <=> ~r.err
        /\ r.success => named # {} /\ (want = <<>> \/ r.matched)
        /\ r.matched <=> /\ want # <<>> /\ named # {} /\ ~dns.answer.err
                         /\ \A x \in named \union Values(want) :
                              x.val # 0 /\ Occurrences(x.val, got) = Occurrences(x.val, want)
=============================================================================
