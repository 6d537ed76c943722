------------------------------- MODULE Config -------------------------------
(***************************************************************************)
(* Loading a configuration (internal/config/config.go, hash.go and         *)
(* internal/proxyurl): defaults, validation, resolution of proxies and     *)
(* their credentials, and the comparison a reload uses.  LoadConfig keeps  *)
(* no state: everything here is an operator on a parsed file f and on the  *)
(* host h it is loaded on.  A file is rejected whichever check fails, so   *)
(* the order of the checks, which only picks the message, is left out.     *)
(*                                                                         *)
(* A text that only has to match a pattern is well formed or not           *)
(* (WellFormed).  An address is a record of what net.SplitHostPort and     *)
(* net.ParseIP find in it: host "", "name", "v4" or "v6", port "none",     *)
(* "ok" or "bad", form "plain", "bracket" or "url".                        *)
(***************************************************************************)
EXTENDS Integers, Sequences, FiniteSets

CONSTANTS
    WellFormed,        \* texts that match proxyNameRe, prometheusLabelRe or
                       \* are a plain absolute path
    MaxTagsPerTarget,
    MaxGlobalTagKeys,
    MaxProxies,
    MaxHTTPRequestBodyBytes,
    Nil

ASSUME BoundsAssumption ==
    {MaxTagsPerTarget, MaxGlobalTagKeys, MaxProxies, MaxHTTPRequestBodyBytes} \subseteq Nat

\* Every pattern asks for at least one character.
ASSUME WellFormedAssumption == "" \notin WellFormed

ProbeTypes == {"tcp", "http", "icmp", "mtu", "dns", "tls_cert", "http_body", "proxy_connect"}
HTTPTypes == {"http", "http_body"}

NoAddress == [host |-> "", port |-> "none", form |-> "plain"]
IPs == {"v4", "v6"}

\* The probe options, omitted, and the probe types that support each.
Omitted ==
    [limit |-> 0, bodyBytes |-> 0, proxyCodes |-> {}, emitCerts |-> FALSE, method |-> "",
     headers |-> {}, follow |-> FALSE, skipVerify |-> FALSE, codes |-> {}, regex |-> "",
     bodyString |-> "", ping |-> 0, sizes |-> <<>>, minMTU |-> 0, retries |-> 0,
     attempt |-> 0, query |-> "", qtype |-> "", server |-> NoAddress, expected |-> <<>>]

SupportedBy ==
    [limit |-> {"http"}, bodyBytes |-> {"http"}, proxyCodes |-> {"proxy_connect"},
     emitCerts |-> {"http"}, method |-> HTTPTypes, headers |-> HTTPTypes,
     follow |-> HTTPTypes, skipVerify |-> HTTPTypes \union {"tls_cert"},
     codes |-> HTTPTypes, regex |-> {"http_body"}, bodyString |-> {"http_body"},
     ping |-> {"icmp"}, sizes |-> {"mtu"}, minMTU |-> {"mtu"}, retries |-> {"mtu"},
     attempt |-> {"mtu"}, query |-> {"dns"}, qtype |-> {"dns"}, server |-> {"dns"},
     expected |-> {"dns"}]

----------------------------------------------------------------------------
(* The parsed file, and what resolution adds to a target *)

Address == [host : {"", "name", "v4", "v6"}, port : {"none", "ok", "bad"},
            form : {"plain", "bracket", "url"}]

AgentConfig ==
    [listen : STRING, path : STRING, interval : Int, timeout : Int, jitter : Int,
     sizes : Seq(Int), level : STRING, format : STRING, allowed : Seq(STRING),
     resolver : Address]

\* A URL can have one of these flaws apart from a wrong scheme or no host.
ProxyURL ==
    [scheme : STRING, host : STRING, case : {"lower", "mixed"},
     flaw : {"", "syntax", "opaque", "userinfo", "path", "query", "fragment", "port"}]
Sources == {"inline", "env", "file", "relFile"}

ProxyConfig ==
    [url : ProxyURL, skipVerify : BOOLEAN, user : SUBSET Sources, pass : SUBSET Sources]

ProbeOptions ==
    [limit : Int, bodyBytes : Int, proxyCodes : SUBSET Int, emitCerts : BOOLEAN,
     method : STRING, headers : SUBSET STRING, follow : BOOLEAN, skipVerify : BOOLEAN,
     codes : SUBSET Int, regex : STRING, bodyString : STRING, ping : Int,
     sizes : Seq(Int), minMTU : Int, retries : Int, attempt : Int, query : STRING,
     qtype : STRING, server : Address, expected : Seq([val : Nat, form : STRING])]

TargetConfig ==
    [name : STRING, type : STRING, address : Address, interval : Int, timeout : Int,
     tags : SUBSET STRING, proxyName : STRING, resolver : Address \union {Nil},
     opts : ProbeOptions]

\* The secrets are Nil in the form that is hashed.
ResolvedProxyConfig ==
    [endpoint : ProxyURL, skipVerify : BOOLEAN, user : SUBSET Sources,
     pass : SUBSET Sources,
     secrets : {Nil} \union UNION {[S -> STRING] : S \in SUBSET {"env", "file"}}]

\* A nil pointer is no proxy.
ASSUME NilAssumption == Nil \notin ProxyConfig \union ResolvedProxyConfig

----------------------------------------------------------------------------
(* Defaults *)

DefaultICMPPayloadSizes == <<1472, 1392, 1372, 1272, 1172, 1072>>
DefaultMTURetries == 3
DefaultMTUPerAttemptTimeout == 2

OrElse(value, zero, default) == IF value = zero THEN default ELSE value

\* The options of an MTU target.  expected_min_mtu follows from the sizes.
mtuDefaults(agent, o) ==
    LET sizes == OrElse(o.sizes, <<>>, OrElse(agent.sizes, <<>>, DefaultICMPPayloadSizes))
    IN  [o EXCEPT !.sizes   = sizes,
                  !.retries = OrElse(o.retries, 0, DefaultMTURetries),
                  !.attempt = OrElse(o.attempt, 0, DefaultMTUPerAttemptTimeout),
                  !.minMTU  = OrElse(o.minMTU, 0, sizes[1] + 28)]

\* An omitted dns_resolver (Nil) inherits the agent's, an empty one does not.
targetDefaults(agent, t) ==
    [t EXCEPT !.interval = OrElse(@, 0, agent.interval),
              !.timeout  = OrElse(@, 0, agent.timeout),
              !.resolver = OrElse(@, Nil, agent.resolver),
              !.opts     = IF t.type = "mtu" THEN mtuDefaults(agent, @) ELSE @]

applyDefaults(f) ==
    [f EXCEPT !.agent.listen = OrElse(@, "", ":9275"),
              !.agent.path   = OrElse(@, "", "/metrics"),
              !.agent.level  = OrElse(@, "", "info"),
              !.agent.format = OrElse(@, "", "text"),
              !.targets      = [i \in DOMAIN @ |-> targetDefaults(f.agent, @[i])]]

----------------------------------------------------------------------------
(* Addresses *)

SplitHostPort(a) == a.port # "none"

validateHostPort(a) == a.form # "url" /\ a.host # "" /\ a.port = "ok"

validateIPv4OnlyAddress(a) == ~SplitHostPort(a) /\ a.form # "bracket" /\ a.host # "v6"

validateDNSResolver(a) == a = NoAddress \/ (a.host \in IPs /\ a.port = "ok")

\* Without a port, ":53" is added first, which a bracketed IPv6 address does
\* not survive.  The port is not checked.
validateDNSServer(a) ==
    \/ a = NoAddress
    \/ a.host \in IPs /\ (SplitHostPort(a) \/ a.form # "bracket" \/ a.host = "v4")

----------------------------------------------------------------------------
(* Proxies *)

\* proxyurl.Parse: an absolute http or https URL that is nothing but scheme,
\* host and port; flaw is whatever else it has.
Parse(u) == u.scheme \in {"http", "https"} /\ u.host # "" /\ u.flaw = ""

\* proxyurl.Endpoint: the canonical form, without the case of the text.
Endpoint(u) == [scheme |-> u.scheme, host |-> u.host, flaw |-> "", case |-> "lower"]

\* A credential source: "inline", "env", "file", or "relFile", whose path is
\* not absolute.  A source that is unset or empty after trimming fails.
readSource(s, h) == s = "inline" \/ (s \in {"env", "file"} /\ h.secrets[s] # "")

credentialsValid(p, h) ==
    /\ Cardinality(p.user) <= 1 /\ Cardinality(p.pass) <= 1
    /\ p.user = {} <=> p.pass = {}
    /\ \A s \in p.user \union p.pass : readSource(s, h)

resolveProxyCredentials(p, h) ==
    [s \in (p.user \union p.pass) \ {"inline"} |-> h.secrets[s]]

validateProxies(f, h) ==
    /\ Cardinality(DOMAIN f.proxies) <= MaxProxies
    /\ DOMAIN f.proxies \subseteq WellFormed
    /\ \A n \in DOMAIN f.proxies : LET p == f.proxies[n] IN
         /\ Parse(p.url)
         /\ p.skipVerify => p.url.scheme = "https"
         /\ credentialsValid(p, h)
         /\ \A o \in DOMAIN f.proxies \ {n} : Endpoint(f.proxies[o].url) # Endpoint(p.url)

\* resolveTargetProxy: refused without a registry entry of that name.
proxyKnown(t, f) == t.proxyName \in WellFormed /\ t.proxyName \in DOMAIN f.proxies

resolvedProxy(t, f, h) ==
    IF t.proxyName = "" THEN Nil
    ELSE LET p == f.proxies[t.proxyName] IN
         [endpoint |-> Endpoint(p.url), skipVerify |-> p.skipVerify,
          user |-> p.user, pass |-> p.pass, secrets |-> resolveProxyCredentials(p, h)]

----------------------------------------------------------------------------
(* Tags *)

FixedLabels == {"target", "target_name", "probe_type", "proxy_name", "proxy_endpoint"}

Values(s) == {s[i] : i \in DOMAIN s}
StrictlyDescending(s) == \A i \in DOMAIN s : i > 1 => s[i] < s[i - 1]

validateLabelName(k) == k \in WellFormed /\ k \notin FixedLabels

validateAllowedTagKeys(keys) ==
    /\ Len(keys) <= MaxGlobalTagKeys
    /\ Cardinality(Values(keys)) = Len(keys)
    /\ \A k \in Values(keys) : validateLabelName(k)

\* Against the allowlist if there is one.
validateTagKeys(t, allowed) ==
    IF allowed # <<>> THEN t.tags \subseteq Values(allowed)
                      ELSE \A k \in t.tags : validateLabelName(k)

collectDynamicTagKeys(f) == UNION {t.tags : t \in Values(f.targets)}

CollectTagKeys(f) ==
    IF f.agent.allowed # <<>> THEN Values(f.agent.allowed) ELSE collectDynamicTagKeys(f)

----------------------------------------------------------------------------
(* Targets *)

validateStatusCodes(codes) == codes \subseteq 100..599

validateICMPPayloadSizes(t) == LET o == t.opts IN
    /\ o.sizes # <<>>
    /\ StrictlyDescending(o.sizes) /\ \A v \in Values(o.sizes) : v > 0
    /\ o.minMTU > 0 /\ o.minMTU <= o.sizes[1] + 28
    /\ o.retries >= 1
    /\ o.attempt > 0 /\ o.attempt <= t.timeout

\* What each probe type asks of its own options.
validateByType(t, f) == LET o == t.opts IN
    /\ t.type \in {"tcp", "icmp", "mtu", "dns"} => t.proxyName = ""
    /\ t.proxyName # "" => proxyKnown(t, f)
    /\ t.type \in {"tcp", "proxy_connect"} => validateHostPort(t.address)
    /\ t.type \in {"icmp", "mtu"} => validateIPv4OnlyAddress(t.address)
    /\ t.type \in HTTPTypes =>
         /\ o.method \in {"", "GET", "HEAD", "POST"}
         /\ o.bodyBytes # 0 => o.method = "POST"
         /\ validateStatusCodes(o.codes)
    /\ t.type = "http_body" => (o.regex # "" \/ o.bodyString # "") /\ o.regex # "bad"
    /\ t.type = "mtu" => validateICMPPayloadSizes(t)
    /\ t.type = "dns" => o.qtype \in {"", "A", "AAAA", "CNAME"} /\ validateDNSServer(o.server)
    /\ t.type = "proxy_connect" => t.proxyName # "" /\ validateStatusCodes(o.proxyCodes)

validateProbeOpts(t, f) ==
    /\ t.opts.limit >= 0
    /\ t.opts.bodyBytes \in 0..MaxHTTPRequestBodyBytes
    /\ \A o \in DOMAIN Omitted : t.opts[o] # Omitted[o] => t.type \in SupportedBy[o]
    /\ validateByType(t, f)

validateTiming(t) == t.interval > 0 /\ t.timeout > 0 /\ t.timeout <= t.interval

\* Mutant: an unknown type is no error.
validateTargetAnyType(t, f) ==
    /\ t.name # "" /\ t.address # NoAddress
    /\ validateTiming(t)
    /\ Cardinality(t.tags) <= MaxTagsPerTarget
    /\ validateTagKeys(t, f.agent.allowed)
    /\ validateDNSResolver(t.resolver)
    /\ validateProbeOpts(t, f)

validateTarget(t, f) ==
    /\ t.name # "" /\ t.address # NoAddress
    /\ t.type \in ProbeTypes
    /\ validateTiming(t)
    /\ Cardinality(t.tags) <= MaxTagsPerTarget
    /\ validateTagKeys(t, f.agent.allowed)
    /\ validateDNSResolver(t.resolver)
    /\ validateProbeOpts(t, f)

validateMetricsPath(p) == p \in WellFormed \ {"/healthz", "/readyz"}

validateAgent(a) ==
    /\ a.level \in {"debug", "info", "warn", "error"} /\ a.format \in {"text", "json"}
    /\ validateMetricsPath(a.path)
    /\ a.jitter >= 0
    /\ validateDNSResolver(a.resolver)
    /\ StrictlyDescending(a.sizes) /\ \A v \in Values(a.sizes) : v > 0
    /\ validateAllowedTagKeys(a.allowed)

validate(f, h) ==
    /\ validateAgent(f.agent)
    /\ validateProxies(f, h)
    /\ \A i \in DOMAIN f.targets :
         /\ validateTarget(f.targets[i], f)
         /\ \A j \in DOMAIN f.targets \ {i} : f.targets[i].name # f.targets[j].name
         /\ f.agent.jitter <= f.targets[i].interval
    /\ f.agent.allowed = <<>> => Cardinality(collectDynamicTagKeys(f)) <= MaxGlobalTagKeys

\* LoadConfig: whether the file is accepted, and the configuration it gives,
\* its targets with their resolved proxies as a set.
Accepted(f, h) == validate(applyDefaults(f), h)

LoadConfig(f, h) == LET d == applyDefaults(f) IN
    [agent |-> d.agent, tagKeys |-> CollectTagKeys(d),
     targets |-> {[name |-> t.name, type |-> t.type, address |-> t.address,
                   interval |-> t.interval, timeout |-> t.timeout, tags |-> t.tags,
                   proxyName |-> t.proxyName, resolver |-> t.resolver, opts |-> t.opts,
                   proxy |-> resolvedProxy(t, d, h)] : t \in Values(d.targets)}]

----------------------------------------------------------------------------
(* Comparison *)

\* Mutants: the hash covers the secrets, or not the resolved proxy.
HashTargetSecrets(t) == t
HashTargetNoProxy(t) == [t EXCEPT !.proxy = Nil]

\* HashTarget: the JSON form leaves the resolved secrets out.
HashTarget(t) == [t EXCEPT !.proxy = IF @ = Nil THEN Nil ELSE [@ EXCEPT !.secrets = Nil]]
Equal(s, t) == HashTarget(s) = HashTarget(t)
=============================================================================
