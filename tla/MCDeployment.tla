---------------------------- MODULE MCDeployment ----------------------------
(* Small instances of Deployment for TLC: files that differ from a valid one
   in one field, of every probe type, hosts that lack one thing. *)
EXTENDS Deployment

At(h, p, f) == [host |-> h, port |-> p, form |-> f]
V4         == At("v4", "none", "plain")
V4Port     == At("v4", "ok", "plain")
NamePort   == At("name", "ok", "plain")
Name       == At("name", "none", "plain")
URL        == At("name", "bad", "url")
Addresses  == {NoAddress, V4, V4Port, NamePort, Name, URL, At("v6", "none", "plain"),
               At("v6", "none", "bracket"), At("v6", "ok", "bracket"), At("v4", "none", "bracket"),
               At("v4", "bad", "plain"), At("", "ok", "plain")}

Rec(v, f) == [val |-> v, form |-> f]
MCAnswers == {[err |-> TRUE, records |-> <<>>]} \union
    [err : {FALSE}, records : {<<>>, <<Rec(0, "dotted")>>, <<Rec(1, "dotted")>>} \union
        {<<Rec(i, "plain")>> : i \in 1..2} \union
        {<<Rec(i, "plain"), Rec(j, "plain")>> : i, j \in 1..2} \union
        {<<Rec(2, "plain"), Rec(1, "upper"), Rec(j, "plain")>> : j \in 1..2}]

BaseAgent == [listen |-> "", path |-> "", interval |-> 5, timeout |-> 3, jitter |-> 0,
              sizes |-> <<>>, level |-> "", format |-> "", allowed |-> <<>>,
              resolver |-> NoAddress]

Proxy(s, h, user, pass) ==
    [url |-> [scheme |-> s, host |-> h, flaw |-> "", case |-> "mixed"], skipVerify |-> FALSE,
     user |-> user, pass |-> pass]
BaseProxies == [n \in {"p1", "p2"} |->
    IF n = "p1" THEN Proxy("https", "a", {"inline"}, {"env"}) ELSE Proxy("http", "b", {}, {})]

BaseTarget(type) ==
    [name |-> "t1", type |-> type,
     address |-> CASE type \in {"icmp", "mtu", "dns"} -> Name
                   [] type \in HTTPTypes              -> URL
                   [] OTHER                           -> NamePort,
     interval |-> 0, timeout |-> 0, tags |-> {},
     proxyName |-> IF type = "proxy_connect" THEN "p1" ELSE "", resolver |-> Nil,
     opts |-> IF type = "http_body" THEN [Omitted EXCEPT !.bodyString = "ok"] ELSE Omitted]

\* The other target: a DNS server of its own, the system resolver for the rest.
Other == [BaseTarget("dns") EXCEPT !.name = "t2", !.resolver = NoAddress,
            !.opts = [Omitted EXCEPT !.server = V4Port, !.qtype = "CNAME",
                                     !.expected = <<Rec(1, "spaced")>>]]

OptionValues ==
    [limit |-> {-1, 1}, bodyBytes |-> {-1, 1, 3}, proxyCodes |-> {{200}, {600}},
     emitCerts |-> {TRUE}, method |-> {"POST", "PUT"}, headers |-> {{"h"}},
     follow |-> {TRUE}, skipVerify |-> {TRUE}, codes |-> {{99, 200}, {200}},
     regex |-> {"ok", "bad"}, bodyString |-> {"ok"}, ping |-> {1},
     sizes |-> {<<1472>>, <<100, 100>>, <<100, 0>>}, minMTU |-> {1500, 1501, -1},
     retries |-> {-1, 3}, attempt |-> {2, 4, -1}, query |-> {"q"},
     qtype |-> {"AAAA", "CNAME", "MX"}, server |-> Addresses \ {NoAddress},
     expected |-> {<<Rec(1, "upper"), Rec(2, "plain")>>,
                   <<Rec(1, "dotted"), Rec(2, "spaced"), Rec(1, "plain")>>,
                   <<Rec(0, "dotted")>>}]

TargetVariants(t) ==
    {t} \union
    {[t EXCEPT !.interval = v] : v \in {-1, 2, 5}} \union
    {[t EXCEPT !.timeout = v] : v \in {-1, 1, 3, 6}} \union
    {[t EXCEPT !.tags = v] : v \in {{"env"}, {"phase"}, {"__x"}, {"target"}, {"0bad"}, {"a", "b", "env"}}} \union
    {[t EXCEPT !.proxyName = v] : v \in {"", "p1", "p2", "P_1", "p3"}} \union
    {[t EXCEPT !.resolver = v] :
        v \in IF t.type = "tcp" THEN Addresses ELSE {NoAddress, V4Port, NamePort}} \union
    {[t EXCEPT !.address = v] :
        v \in IF t.type \in {"tcp", "icmp"} THEN Addresses ELSE {NoAddress, V4, V4Port}} \union
    {[t EXCEPT !.name = v] : v \in {"", "t2"}} \union
    UNION {{[t EXCEPT !.opts[o] = v] :
              v \in IF t.type \in SupportedBy[o] THEN OptionValues[o]
                    ELSE {CHOOSE x \in OptionValues[o] : TRUE}} : o \in DOMAIN Omitted} \union
    {[t EXCEPT !.opts.bodyBytes = 1, !.opts.method = "POST"]}

AgentVariants ==
    {[BaseAgent EXCEPT !.listen = ":1"], [BaseAgent EXCEPT !.listen = ":9275"],
     [BaseAgent EXCEPT !.interval = 0], [BaseAgent EXCEPT !.interval = 6],
     [BaseAgent EXCEPT !.timeout = 4], [BaseAgent EXCEPT !.level = "DEBUG"],
     [BaseAgent EXCEPT !.format = "json"], [BaseAgent EXCEPT !.path = "/healthz"],
     [BaseAgent EXCEPT !.path = "/health%7A"], [BaseAgent EXCEPT !.path = "m"], [BaseAgent EXCEPT !.jitter = -1],
     [BaseAgent EXCEPT !.jitter = 6], [BaseAgent EXCEPT !.jitter = 5],
     [BaseAgent EXCEPT !.sizes = <<1472>>], [BaseAgent EXCEPT !.sizes = <<1, 1>>],
     [BaseAgent EXCEPT !.allowed = <<"env">>], [BaseAgent EXCEPT !.allowed = <<"a", "a">>],
     [BaseAgent EXCEPT !.allowed = <<"state">>], [BaseAgent EXCEPT !.allowed = <<"__x">>],
     [BaseAgent EXCEPT !.resolver = V4Port], [BaseAgent EXCEPT !.resolver = NamePort]}

ProxyVariants ==
    {[BaseProxies EXCEPT !["p1"] = p] : p \in
        {[BaseProxies["p1"] EXCEPT !.skipVerify = TRUE], [BaseProxies["p1"] EXCEPT !.url.case = "lower"],
         [BaseProxies["p1"] EXCEPT !.url.flaw = "userinfo"], [BaseProxies["p1"] EXCEPT !.url.host = ""],
         [BaseProxies["p1"] EXCEPT !.url.scheme = "ftp"], [BaseProxies["p1"] EXCEPT !.url.host = "c"],
         Proxy("http", "b", {}, {}), Proxy("https", "a", {}, {"env"}),
         Proxy("https", "a", {"inline", "env"}, {"env"}), Proxy("https", "a", {"inline"}, {"file"}),
         Proxy("https", "a", {"inline"}, {"relFile"})}}
    \union {[BaseProxies EXCEPT !["p2"].skipVerify = TRUE], [n \in {"p1", "P_1"} |-> BaseProxies["p1"]],
            [n \in {"p1", "p2", "p4"} |-> Proxy("http", n, {}, {})]}

MCUnescape(p) == IF p = "/health%7A" THEN "/healthz" ELSE p

File(a, p, t) == [agent |-> a, proxies |-> p, targets |-> <<t, Other>>]

MCFiles ==
    UNION {{File(BaseAgent, BaseProxies, t) : t \in TargetVariants(BaseTarget(type))} :
             type \in ProbeTypes \union {"smtp"}}
    \union {File(a, BaseProxies, BaseTarget(type)) : a \in AgentVariants, type \in {"tcp", "mtu"}}
    \union {File(BaseAgent, p, BaseTarget("proxy_connect")) : p \in ProxyVariants}

Sound == [secrets |-> [env |-> "s1", file |-> "s2"], busy |-> {}, groups |-> TRUE,
          pingRange |-> "primary", pingSocket |-> TRUE, pmtu |-> TRUE, nameservers |-> TRUE]
MCHosts ==
    {Sound, [Sound EXCEPT !.secrets.env = "s3"],
     [Sound EXCEPT !.secrets.env = "", !.pmtu = FALSE], [Sound EXCEPT !.busy = {":9275"}],
     [Sound EXCEPT !.pingRange = "unreadable", !.pingSocket = FALSE, !.nameservers = FALSE],
     [Sound EXCEPT !.groups = FALSE, !.pingRange = "supplementary"]}
=============================================================================
