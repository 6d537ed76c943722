-------------------------- MODULE DeploymentProofs --------------------------
(***************************************************************************)
(* Proofs about Deployment for every set of well-typed files and hosts.    *)
(* The argument: RunningInv is inductive.  While the agent is up, the file *)
(* is an accepted one, the loops are those of its targets, and each runs   *)
(* with a configuration that has the hash of its target's.  The lemmas say *)
(* what loading makes of a file, what validation leaves of it and when two *)
(* loaded targets have the same hash.  The verdict of a DNS probe rests on *)
(* what sorting does: ascending sequences with the same numbers, each      *)
(* equally often, are the same.                                            *)
(***************************************************************************)
EXTENDS Deployment, WellFoundedInduction, FiniteSetTheorems, TLAPS

----------------------------------------------------------------------------
(* What the defaults make of a file *)

\* The payload sizes of an MTU target t of an agent section a.
MTUSizes(a, t) ==
    OrElse(t.opts.sizes, <<>>, OrElse(a.sizes, <<>>, DefaultICMPPayloadSizes))

\* A target with its defaults filled in: what applyDefaults (config.go:287-
\* 343) does not mention it leaves alone.
LEMMA TargetDefaults ==
    ASSUME NEW a, NEW t \in TargetConfig
    PROVE  LET d == targetDefaults(a, t) IN
           /\ d.name = t.name /\ d.type = t.type /\ d.address = t.address
           /\ d.tags = t.tags /\ d.proxyName = t.proxyName
           /\ d.interval = IF t.interval = 0 THEN a.interval ELSE t.interval
           /\ d.timeout = IF t.timeout = 0 THEN a.timeout ELSE t.timeout
           /\ d.resolver = IF t.resolver = Nil THEN a.resolver ELSE t.resolver
           /\ t.type = "mtu" => d.opts.sizes = MTUSizes(a, t)
<1>1. /\ t.opts \in ProbeOptions
      /\ t = [name |-> t.name, type |-> t.type, address |-> t.address,
              interval |-> t.interval, timeout |-> t.timeout, tags |-> t.tags,
              proxyName |-> t.proxyName, resolver |-> t.resolver, opts |-> t.opts]
  BY DEF TargetConfig
<1>2. ASSUME t.type = "mtu" PROVE targetDefaults(a, t).opts = mtuDefaults(a, t.opts)
  BY <1>1, <1>2 DEF targetDefaults
<1>3. mtuDefaults(a, t.opts).sizes = MTUSizes(a, t)
  <2> DEFINE o == t.opts
             sizes == OrElse(o.sizes, <<>>, OrElse(a.sizes, <<>>, DefaultICMPPayloadSizes))
             retries == OrElse(o.retries, 0, DefaultMTURetries)
             attempt == OrElse(o.attempt, 0, DefaultMTUPerAttemptTimeout)
             minMTU == OrElse(o.minMTU, 0, sizes[1] + 28)
  <2>1. mtuDefaults(a, o) = [o EXCEPT !.sizes = sizes, !.retries = retries,
                                      !.attempt = attempt, !.minMTU = minMTU]
    BY DEF mtuDefaults
  <2>2. sizes = MTUSizes(a, t)
    BY DEF MTUSizes
  <2> HIDE DEF sizes, retries, attempt, minMTU
  <2>3. [o EXCEPT !.sizes = sizes, !.retries = retries,
                  !.attempt = attempt, !.minMTU = minMTU].sizes = sizes
    BY <1>1 DEF ProbeOptions
  <2> QED
    BY <2>1, <2>2, <2>3
<1>4. LET d == targetDefaults(a, t) IN
      /\ d.name = t.name /\ d.type = t.type /\ d.address = t.address
      /\ d.tags = t.tags /\ d.proxyName = t.proxyName
      /\ d.interval = IF t.interval = 0 THEN a.interval ELSE t.interval
      /\ d.timeout = IF t.timeout = 0 THEN a.timeout ELSE t.timeout
      /\ d.resolver = IF t.resolver = Nil THEN a.resolver ELSE t.resolver
  BY DEF TargetConfig, targetDefaults, OrElse
<1> QED
  BY <1>2, <1>3, <1>4

LEMMA AgentDefaults ==
    ASSUME NEW f \in Files
    PROVE  LET d == applyDefaults(f) IN
           /\ d.proxies = f.proxies
           /\ d.targets = [i \in DOMAIN f.targets |-> targetDefaults(f.agent, f.targets[i])]
           /\ d.agent.allowed = f.agent.allowed
BY FilesAssumption DEF AgentConfig, applyDefaults

----------------------------------------------------------------------------
(* What loading makes of a file *)

\* The configuration of the file's target number i, and the targets' names.
Loaded(f, h, i) ==
    LET t == targetDefaults(f.agent, f.targets[i]) IN
    [name |-> t.name, type |-> t.type, address |-> t.address,
     interval |-> t.interval, timeout |-> t.timeout, tags |-> t.tags,
     proxyName |-> t.proxyName, resolver |-> t.resolver, opts |-> t.opts,
     proxy |-> resolvedProxy(t, applyDefaults(f), h)]

FileNames(f) == {t.name : t \in Values(f.targets)}

LEMMA FileTargets ==
    ASSUME NEW f \in Files
    PROVE  /\ \A i \in DOMAIN f.targets : f.targets[i] \in TargetConfig
           /\ FileNames(f) = {f.targets[i].name : i \in DOMAIN f.targets}
           /\ f.agent \in AgentConfig
BY FilesAssumption DEF FileNames, Values

\* LoadConfig (config.go:266-283) gives one configuration per target.
LEMMA LoadedTargets ==
    ASSUME NEW f \in Files, NEW h \in Hosts
    PROVE  LET c == LoadConfig(f, h) IN
           /\ c.targets = {Loaded(f, h, i) : i \in DOMAIN f.targets}
           /\ c.agent = applyDefaults(f).agent
           /\ c.tagKeys = CollectTagKeys(applyDefaults(f))
<1> DEFINE d == applyDefaults(f)
           L(t) == [name |-> t.name, type |-> t.type, address |-> t.address,
                    interval |-> t.interval, timeout |-> t.timeout, tags |-> t.tags,
                    proxyName |-> t.proxyName, resolver |-> t.resolver, opts |-> t.opts,
                    proxy |-> resolvedProxy(t, d, h)]
<1>1. LoadConfig(f, h) = [agent |-> d.agent, tagKeys |-> CollectTagKeys(d),
                          targets |-> {L(t) : t \in Values(d.targets)}]
  BY DEF LoadConfig
<1>2. \A i \in DOMAIN f.targets : L(targetDefaults(f.agent, f.targets[i])) = Loaded(f, h, i)
  BY DEF Loaded
<1>3. /\ DOMAIN d.targets = DOMAIN f.targets
      /\ \A i \in DOMAIN f.targets : d.targets[i] = targetDefaults(f.agent, f.targets[i])
  BY AgentDefaults
<1> HIDE DEF L, d
<1>4. {L(t) : t \in Values(d.targets)} = {Loaded(f, h, i) : i \in DOMAIN f.targets}
  BY <1>2, <1>3 DEF Values
<1> QED
  BY <1>1, <1>4 DEF d

LEMMA LoadedFields ==
    ASSUME NEW f \in Files, NEW h \in Hosts, NEW i \in DOMAIN f.targets
    PROVE  LET t == Loaded(f, h, i)
               s == f.targets[i] IN
           /\ t.name = s.name /\ t.type = s.type /\ t.address = s.address
           /\ t.tags = s.tags /\ t.proxyName = s.proxyName
           /\ t.interval = IF s.interval = 0 THEN f.agent.interval ELSE s.interval
           /\ t.timeout = IF s.timeout = 0 THEN f.agent.timeout ELSE s.timeout
           /\ t.resolver = IF s.resolver = Nil THEN f.agent.resolver ELSE s.resolver
           /\ t.proxy = resolvedProxy(s, f, h)
           /\ t.type = "mtu" => t.opts.sizes = MTUSizes(f.agent, s)
<1> DEFINE s == f.targets[i]
           d == targetDefaults(f.agent, s)
<1>1. s \in TargetConfig
  BY FileTargets
<1>2. /\ d.name = s.name /\ d.type = s.type /\ d.address = s.address
      /\ d.tags = s.tags /\ d.proxyName = s.proxyName
      /\ d.interval = IF s.interval = 0 THEN f.agent.interval ELSE s.interval
      /\ d.timeout = IF s.timeout = 0 THEN f.agent.timeout ELSE s.timeout
      /\ d.resolver = IF s.resolver = Nil THEN f.agent.resolver ELSE s.resolver
      /\ s.type = "mtu" => d.opts.sizes = MTUSizes(f.agent, s)
  BY <1>1, TargetDefaults
<1>3. resolvedProxy(d, applyDefaults(f), h) = resolvedProxy(s, f, h)
  BY <1>2, AgentDefaults DEF resolvedProxy
<1> HIDE DEF s, d
<1>4. Loaded(f, h, i) =
        [name |-> d.name, type |-> d.type, address |-> d.address,
         interval |-> d.interval, timeout |-> d.timeout, tags |-> d.tags,
         proxyName |-> d.proxyName, resolver |-> d.resolver, opts |-> d.opts,
         proxy |-> resolvedProxy(d, applyDefaults(f), h)]
  BY DEF Loaded, d, s
<1> QED
  BY <1>2, <1>3, <1>4 DEF s

----------------------------------------------------------------------------
(* What validation leaves of a file *)

\* validateProxies (config.go:485-526): a registered proxy has a name, its URL
\* parses and its secrets, if any, were read.
LEMMA ValidProxies ==
    ASSUME NEW f \in Files, NEW h \in Hosts, Accepted(f, h), NEW n \in DOMAIN f.proxies
    PROVE  LET p == f.proxies[n] IN
           /\ n # ""
           /\ p \in ProxyConfig
           /\ Parse(p.url)
           /\ p.user \union p.pass \subseteq {"inline", "env", "file"}
<1>1. validateProxies(applyDefaults(f), h)
  BY DEF Accepted, validate
<1>2. applyDefaults(f).proxies = f.proxies
  BY AgentDefaults
<1>3. n \in WellFormed /\ Parse(f.proxies[n].url) /\ credentialsValid(f.proxies[n], h)
  BY <1>1, <1>2 DEF validateProxies
<1>4. \A s \in f.proxies[n].user \union f.proxies[n].pass : s \in {"inline", "env", "file"}
  BY <1>3 DEF credentialsValid, readSource
<1> QED
  BY <1>3, <1>4, FilesAssumption, WellFormedAssumption

\* What validate and validateTarget ask of a target with its defaults.
LEMMA ValidTargets ==
    ASSUME NEW f \in Files, NEW h \in Hosts, Accepted(f, h), NEW i \in DOMAIN f.targets
    PROVE  LET t == Loaded(f, h, i) IN
           /\ t.interval > 0
           /\ t.type \in ProbeTypes
           /\ t.proxyName # "" => t.proxyName \in DOMAIN f.proxies
           /\ f.agent.allowed = <<>> => \A k \in t.tags : validateLabelName(k)
           /\ \A j \in DOMAIN f.targets \ {i} : f.targets[i].name # f.targets[j].name
<1> DEFINE d == applyDefaults(f)
           t == targetDefaults(f.agent, f.targets[i])
<1>1. /\ DOMAIN d.targets = DOMAIN f.targets
      /\ \A j \in DOMAIN f.targets : d.targets[j] = targetDefaults(f.agent, f.targets[j])
      /\ d.proxies = f.proxies
      /\ d.agent.allowed = f.agent.allowed
  BY AgentDefaults
<1>2. \A j \in DOMAIN f.targets : d.targets[j].name = f.targets[j].name
  BY <1>1, FileTargets, TargetDefaults
<1>3. /\ validateTarget(t, d)
      /\ \A j \in DOMAIN f.targets \ {i} : d.targets[i].name # d.targets[j].name
  BY <1>1 DEF Accepted, validate
<1>4. Loaded(f, h, i).interval = t.interval /\ Loaded(f, h, i).type = t.type
  BY DEF Loaded
<1>5. Loaded(f, h, i).proxyName = t.proxyName /\ Loaded(f, h, i).tags = t.tags
  BY DEF Loaded
<1> HIDE DEF t, d
<1>6. t.interval > 0 /\ t.type \in ProbeTypes /\ validateTagKeys(t, d.agent.allowed)
  BY <1>3 DEF validateTarget, validateTiming
<1>7. t.proxyName # "" => t.proxyName \in DOMAIN d.proxies
  BY <1>3 DEF validateTarget, validateProbeOpts, validateByType, proxyKnown
<1>8. f.agent.allowed = <<>> => \A k \in t.tags : validateLabelName(k)
  BY <1>6, <1>1 DEF validateTagKeys
<1> QED
  BY <1>1, <1>2, <1>3, <1>4, <1>5, <1>6, <1>7, <1>8

\* A resolved proxy, and that a target has one exactly when it names one.
LEMMA ResolvedProxies ==
    ASSUME NEW f \in Files, NEW h \in Hosts, Accepted(f, h), NEW i \in DOMAIN f.targets
    PROVE  LET t == Loaded(f, h, i)
               p == f.proxies[t.proxyName] IN
           IF t.proxyName \in DOMAIN f.proxies
             THEN /\ t.proxyName # ""
                  /\ p \in ProxyConfig
                  /\ Parse(p.url)
                  /\ t.proxy \in ResolvedProxyConfig
                  /\ t.proxy.endpoint = Endpoint(p.url)
                  /\ t.proxy.skipVerify = p.skipVerify
                  /\ t.proxy.user = p.user /\ t.proxy.pass = p.pass
             ELSE t.proxyName = "" /\ t.proxy = Nil
<1> DEFINE t == Loaded(f, h, i)
           p == f.proxies[t.proxyName]
<1>1. t.proxyName = f.targets[i].proxyName /\ t.proxy = resolvedProxy(f.targets[i], f, h)
  BY LoadedFields
<1>2. t.proxyName # "" => t.proxyName \in DOMAIN f.proxies
  BY ValidTargets
<1> HIDE DEF t, p
<1>3. ASSUME t.proxyName \in DOMAIN f.proxies
      PROVE  /\ t.proxyName # "" /\ p \in ProxyConfig /\ Parse(p.url)
             /\ t.proxy \in ResolvedProxyConfig
             /\ t.proxy.endpoint = Endpoint(p.url)
             /\ t.proxy.skipVerify = p.skipVerify
             /\ t.proxy.user = p.user /\ t.proxy.pass = p.pass
  <2>1. /\ t.proxyName # "" /\ p \in ProxyConfig /\ Parse(p.url)
        /\ p.user \union p.pass \subseteq {"inline", "env", "file"}
    BY <1>3, ValidProxies DEF p
  <2>2. Endpoint(p.url) \in ProxyURL
    <3>1. p.url \in ProxyURL
      BY <2>1 DEF ProxyConfig
    <3>2. p.url.scheme \in STRING /\ p.url.host \in STRING
      BY <3>1 DEF ProxyURL
    <3> QED
      BY <3>2 DEF ProxyURL, Endpoint
  <2>3. resolveProxyCredentials(p, h) \in UNION {[S -> STRING] : S \in SUBSET {"env", "file"}}
    <3> DEFINE S == (p.user \union p.pass) \ {"inline"}
    <3>1. S \in SUBSET {"env", "file"}
      BY <2>1
    <3>2. resolveProxyCredentials(p, h) \in [S -> STRING]
      BY <3>1, HostsAssumption DEF resolveProxyCredentials
    <3> QED
      BY <3>1, <3>2
  <2>4. t.proxy = [endpoint |-> Endpoint(p.url), skipVerify |-> p.skipVerify,
                   user |-> p.user, pass |-> p.pass,
                   secrets |-> resolveProxyCredentials(p, h)]
    BY <1>1, <2>1 DEF resolvedProxy, p
  <2>5. p.skipVerify \in BOOLEAN /\ p.user \in SUBSET Sources /\ p.pass \in SUBSET Sources
    BY <2>1 DEF ProxyConfig
  <2> QED
    <3>1. /\ t.proxy.endpoint = Endpoint(p.url)
          /\ t.proxy.skipVerify = p.skipVerify
          /\ t.proxy.user = p.user /\ t.proxy.pass = p.pass
      BY <2>4
    <3>2. t.proxy \in ResolvedProxyConfig
      BY <2>2, <2>3, <2>4, <2>5 DEF ResolvedProxyConfig
    <3> QED
      BY <2>1, <3>1, <3>2
<1>4. t.proxyName \notin DOMAIN f.proxies => t.proxyName = "" /\ t.proxy = Nil
  BY <1>1, <1>2 DEF resolvedProxy
<1> QED
  BY <1>3, <1>4 DEF t, p

----------------------------------------------------------------------------
(* When two loaded targets have the same hash *)

\* The form of a loaded target.
LoadedForm(t) ==
    /\ t = [name |-> t.name, type |-> t.type, address |-> t.address,
            interval |-> t.interval, timeout |-> t.timeout, tags |-> t.tags,
            proxyName |-> t.proxyName, resolver |-> t.resolver, opts |-> t.opts,
            proxy |-> t.proxy]
    /\ t.proxy \in ResolvedProxyConfig \union {Nil}
    /\ t.proxy # Nil => t.proxy.endpoint = Endpoint(t.proxy.endpoint)
    /\ t.proxy = Nil <=> t.proxyName = ""

\* Everything but the secrets agrees.
SameProxy(p, q) ==
    /\ p.endpoint = q.endpoint /\ p.skipVerify = q.skipVerify
    /\ p.user = q.user /\ p.pass = q.pass

SameTarget(s, t) ==
    /\ s.name = t.name /\ s.type = t.type /\ s.address = t.address
    /\ s.interval = t.interval /\ s.timeout = t.timeout /\ s.tags = t.tags
    /\ s.proxyName = t.proxyName /\ s.resolver = t.resolver /\ s.opts = t.opts
    /\ s.proxy = Nil <=> t.proxy = Nil
    /\ s.proxy # Nil => SameProxy(s.proxy, t.proxy)

LEMMA LoadedHasForm ==
    ASSUME NEW f \in Files, NEW h \in Hosts, Accepted(f, h), NEW i \in DOMAIN f.targets
    PROVE  LoadedForm(Loaded(f, h, i))
<1> DEFINE t == Loaded(f, h, i)
<1>1. t = [name |-> t.name, type |-> t.type, address |-> t.address,
           interval |-> t.interval, timeout |-> t.timeout, tags |-> t.tags,
           proxyName |-> t.proxyName, resolver |-> t.resolver, opts |-> t.opts,
           proxy |-> t.proxy]
  BY DEF Loaded
<1> HIDE DEF t
<1>2. CASE t.proxyName \in DOMAIN f.proxies
  <2> DEFINE p == f.proxies[t.proxyName]
  <2>1. t.proxyName # "" /\ t.proxy \in ResolvedProxyConfig
    BY <1>2, ResolvedProxies DEF t
  <2>2. t.proxy.endpoint = Endpoint(p.url)
    BY <1>2, ResolvedProxies DEF t
  <2>3. Endpoint(Endpoint(p.url)) = Endpoint(p.url)
    BY DEF Endpoint
  <2> QED
    BY <1>1, <2>1, <2>2, <2>3, NilAssumption DEF LoadedForm, t
<1>3. CASE t.proxyName \notin DOMAIN f.proxies
  <2>1. t.proxyName = "" /\ t.proxy = Nil
    BY <1>3, ResolvedProxies DEF t
  <2> QED
    BY <1>1, <2>1 DEF LoadedForm, t
<1> QED
  BY <1>2, <1>3

\* The resolved proxy without its secrets.
LEMMA HashedProxy ==
    ASSUME NEW p \in ResolvedProxyConfig
    PROVE  LET q == [p EXCEPT !.secrets = Nil] IN
           /\ q = [endpoint |-> p.endpoint, skipVerify |-> p.skipVerify, user |-> p.user,
                   pass |-> p.pass, secrets |-> Nil]
           /\ q \in ResolvedProxyConfig
           /\ SameProxy(p, q)
BY DEF ResolvedProxyConfig, SameProxy

\* HashTarget (hash.go:60-76) keeps every field but the proxy.
LEMMA HashedTarget ==
    ASSUME NEW t, LoadedForm(t)
    PROVE  HashTarget(t) =
             [name |-> t.name, type |-> t.type, address |-> t.address,
              interval |-> t.interval, timeout |-> t.timeout, tags |-> t.tags,
              proxyName |-> t.proxyName, resolver |-> t.resolver, opts |-> t.opts,
              proxy |-> IF t.proxy = Nil THEN Nil ELSE [t.proxy EXCEPT !.secrets = Nil]]
<1> DEFINE p == IF t.proxy = Nil THEN Nil ELSE [t.proxy EXCEPT !.secrets = Nil]
<1>1. HashTarget(t) = [t EXCEPT !.proxy = p]
  BY DEF HashTarget
<1> HIDE DEF p
<1>2. t = [name |-> t.name, type |-> t.type, address |-> t.address,
           interval |-> t.interval, timeout |-> t.timeout, tags |-> t.tags,
           proxyName |-> t.proxyName, resolver |-> t.resolver, opts |-> t.opts,
           proxy |-> t.proxy]
  BY DEF LoadedForm
<1>3. [t EXCEPT !.proxy = p] =
        [name |-> t.name, type |-> t.type, address |-> t.address,
         interval |-> t.interval, timeout |-> t.timeout, tags |-> t.tags,
         proxyName |-> t.proxyName, resolver |-> t.resolver, opts |-> t.opts, proxy |-> p]
  BY <1>2
<1> QED
  BY <1>1, <1>3 DEF p

\* Two loaded targets have the same hash exactly when they agree on all but
\* the secrets.
LEMMA EqualTargets ==
    ASSUME NEW s, NEW t, LoadedForm(s), LoadedForm(t)
    PROVE  Equal(s, t) <=> SameTarget(s, t)
<1> DEFINE H(p) == IF p = Nil THEN Nil ELSE [p EXCEPT !.secrets = Nil]
<1>1. s.proxy \in ResolvedProxyConfig \union {Nil} /\ t.proxy \in ResolvedProxyConfig \union {Nil}
  BY DEF LoadedForm
<1>2. H(s.proxy) = H(t.proxy) <=> /\ s.proxy = Nil <=> t.proxy = Nil
                                  /\ s.proxy # Nil => SameProxy(s.proxy, t.proxy)
  <2>1. CASE s.proxy = Nil /\ t.proxy = Nil
    BY <2>1
  <2>2. CASE s.proxy # Nil /\ t.proxy = Nil
    BY <1>1, <2>2, HashedProxy, NilAssumption
  <2>3. CASE s.proxy = Nil /\ t.proxy # Nil
    BY <1>1, <2>3, HashedProxy, NilAssumption
  <2>4. CASE s.proxy # Nil /\ t.proxy # Nil
    <3>1. s.proxy \in ResolvedProxyConfig /\ t.proxy \in ResolvedProxyConfig
      BY <1>1, <2>4
    <3>2. /\ H(s.proxy) = [endpoint |-> s.proxy.endpoint, skipVerify |-> s.proxy.skipVerify,
                            user |-> s.proxy.user, pass |-> s.proxy.pass, secrets |-> Nil]
          /\ H(t.proxy) = [endpoint |-> t.proxy.endpoint, skipVerify |-> t.proxy.skipVerify,
                            user |-> t.proxy.user, pass |-> t.proxy.pass, secrets |-> Nil]
      BY <2>4, <3>1, HashedProxy
    <3> HIDE DEF H
    <3>3. H(s.proxy) = H(t.proxy) <=> SameProxy(s.proxy, t.proxy)
      BY <3>2 DEF SameProxy
    <3> QED
      BY <2>4, <3>3
  <2> QED
    BY <2>1, <2>2, <2>3, <2>4
<1>3. /\ HashTarget(s) = [name |-> s.name, type |-> s.type, address |-> s.address,
              interval |-> s.interval, timeout |-> s.timeout, tags |-> s.tags,
              proxyName |-> s.proxyName, resolver |-> s.resolver, opts |-> s.opts,
              proxy |-> H(s.proxy)]
      /\ HashTarget(t) = [name |-> t.name, type |-> t.type, address |-> t.address,
              interval |-> t.interval, timeout |-> t.timeout, tags |-> t.tags,
              proxyName |-> t.proxyName, resolver |-> t.resolver, opts |-> t.opts,
              proxy |-> H(t.proxy)]
  BY HashedTarget
<1> HIDE DEF H
<1>4. HashTarget(s) = HashTarget(t) <=>
        /\ s.name = t.name /\ s.type = t.type /\ s.address = t.address
        /\ s.interval = t.interval /\ s.timeout = t.timeout /\ s.tags = t.tags
        /\ s.proxyName = t.proxyName /\ s.resolver = t.resolver /\ s.opts = t.opts
        /\ H(s.proxy) = H(t.proxy)
  BY <1>3
<1> QED
  BY <1>2, <1>4 DEF Equal, SameTarget

----------------------------------------------------------------------------
(* An accepted file: its targets by name, what they mean, and that it is safe *)

LEMMA TargetsByName ==
    ASSUME NEW f \in Files, NEW h \in Hosts, Accepted(f, h)
    PROVE  /\ Names(LoadConfig(f, h)) = FileNames(f)
           /\ \A n \in FileNames(f) : \E i \in DOMAIN f.targets : n = f.targets[i].name
           /\ \A i \in DOMAIN f.targets :
                /\ TargetOf(LoadConfig(f, h), f.targets[i].name) = Loaded(f, h, i)
                /\ TargetOf([targets |-> Values(f.targets)], f.targets[i].name) = f.targets[i]
<1> DEFINE c == LoadConfig(f, h)
<1>1. c.targets = {Loaded(f, h, i) : i \in DOMAIN f.targets}
  BY LoadedTargets
<1>2. \A i \in DOMAIN f.targets : Loaded(f, h, i).name = f.targets[i].name
  BY LoadedFields
<1>3. \A i, j \in DOMAIN f.targets : f.targets[i].name = f.targets[j].name => i = j
  BY ValidTargets
<1>4. FileNames(f) = {f.targets[i].name : i \in DOMAIN f.targets}
  BY FileTargets
<1> HIDE DEF c
<1>5. Names(c) = FileNames(f)
  BY <1>1, <1>2, <1>4 DEF Names
<1>6. ASSUME NEW i \in DOMAIN f.targets
      PROVE  TargetOf(c, f.targets[i].name) = Loaded(f, h, i)
  <2>1. Loaded(f, h, i) \in c.targets /\ Loaded(f, h, i).name = f.targets[i].name
    BY <1>1, <1>2
  <2>2. \A t \in c.targets : t.name = f.targets[i].name => t = Loaded(f, h, i)
    BY <1>1, <1>2, <1>3
  <2> QED
    BY <2>1, <2>2 DEF TargetOf
<1>7. ASSUME NEW i \in DOMAIN f.targets
      PROVE  TargetOf([targets |-> Values(f.targets)], f.targets[i].name) = f.targets[i]
  <2>1. f.targets[i] \in Values(f.targets)
    BY DEF Values
  <2>2. \A t \in Values(f.targets) : t.name = f.targets[i].name => t = f.targets[i]
    BY <1>3 DEF Values
  <2>3. [targets |-> Values(f.targets)].targets = Values(f.targets)
    OBVIOUS
  <2> QED
    BY <2>1, <2>2, <2>3 DEF TargetOf
<1> QED
  BY <1>4, <1>5, <1>6, <1>7 DEF c

\* A loaded target is probed with what the file says of it.
LEMMA LoadedMeaning ==
    ASSUME NEW f \in Files, NEW h \in Hosts, Accepted(f, h), NEW i \in DOMAIN f.targets
    PROVE  Probed(Loaded(f, h, i)) = Meaning(f, f.targets[i].name)
<1> DEFINE t == Loaded(f, h, i)
           s == f.targets[i]
           p == IF s.proxyName \in DOMAIN f.proxies THEN f.proxies[s.proxyName] ELSE Nil
<1>1. TargetOf([targets |-> Values(f.targets)], s.name) = s
  BY TargetsByName
<1>2. Meaning(f, s.name) =
        [interval |-> IF s.interval = 0 THEN f.agent.interval ELSE s.interval,
         timeout  |-> IF s.timeout = 0 THEN f.agent.timeout ELSE s.timeout,
         resolver |-> IF s.resolver = Nil THEN f.agent.resolver ELSE s.resolver,
         sizes    |-> IF s.type # "mtu" THEN <<>> ELSE MTUSizes(f.agent, s),
         endpoint |-> IF p = Nil THEN Nil ELSE <<p.url.scheme, p.url.host, p.skipVerify>>,
         auth     |-> IF p = Nil THEN Nil ELSE <<p.user, p.pass>>]
  BY <1>1 DEF Meaning, MTUSizes
<1>3. /\ t.proxyName = s.proxyName /\ t.type = s.type
      /\ t.interval = IF s.interval = 0 THEN f.agent.interval ELSE s.interval
      /\ t.timeout = IF s.timeout = 0 THEN f.agent.timeout ELSE s.timeout
      /\ t.resolver = IF s.resolver = Nil THEN f.agent.resolver ELSE s.resolver
      /\ t.type = "mtu" => t.opts.sizes = MTUSizes(f.agent, s)
  BY LoadedFields
<1>4. /\ t.proxy = Nil <=> p = Nil
      /\ p # Nil => /\ t.proxy.endpoint.scheme = p.url.scheme
                    /\ t.proxy.endpoint.host = p.url.host
                    /\ t.proxy.skipVerify = p.skipVerify
                    /\ t.proxy.user = p.user /\ t.proxy.pass = p.pass
  <2>1. CASE s.proxyName \in DOMAIN f.proxies
    <3>1. /\ p \in ProxyConfig /\ t.proxy \in ResolvedProxyConfig
          /\ t.proxy.endpoint = Endpoint(p.url) /\ t.proxy.skipVerify = p.skipVerify
          /\ t.proxy.user = p.user /\ t.proxy.pass = p.pass
      BY <1>3, <2>1, ResolvedProxies
    <3>2. Endpoint(p.url).scheme = p.url.scheme /\ Endpoint(p.url).host = p.url.host
      BY DEF Endpoint
    <3> HIDE DEF p, t
    <3> QED
      BY <3>1, <3>2, NilAssumption
  <2>2. CASE s.proxyName \notin DOMAIN f.proxies
    BY <1>3, <2>2, ResolvedProxies
  <2> QED
    BY <2>1, <2>2
<1> HIDE DEF t, s, p
<1>5. Probed(t) = Meaning(f, s.name)
  BY <1>2, <1>3, <1>4 DEF Probed
<1> QED
  BY <1>5 DEF t, s

\* validate (config.go:396-483) and resolveTargetProxy (config.go:955-989) see to
\* it that no loop panics when it starts.
LEMMA AcceptedTargetsSafe ==
    ASSUME NEW f \in Files, NEW h \in Hosts, Accepted(f, h),
           NEW t \in LoadConfig(f, h).targets
    PROVE  ~TargetPanics(t)
<1>1. PICK i \in DOMAIN f.targets : t = Loaded(f, h, i)
  BY LoadedTargets
<1> DEFINE p == f.proxies[t.proxyName]
<1>2. t.interval > 0 /\ t.type \in ProbeTypes
  BY <1>1, ValidTargets
<1>3. t.interval \in Int
  <2>1. f.targets[i] \in TargetConfig /\ f.agent \in AgentConfig
    BY FileTargets
  <2>2. f.targets[i].interval \in Int /\ f.agent.interval \in Int
    BY <2>1 DEF TargetConfig, AgentConfig
  <2>3. t.interval = IF f.targets[i].interval = 0 THEN f.agent.interval ELSE f.targets[i].interval
    BY <1>1, LoadedFields
  <2> QED
    BY <2>2, <2>3
<1>4. t.proxy # Nil => Parse(p.url) /\ t.proxy.endpoint = Endpoint(p.url)
  BY <1>1, ResolvedProxies
<1>5. Parse(p.url) => Parse(Endpoint(p.url))
  BY DEF Parse, Endpoint
<1> HIDE DEF p
<1>6. ~(t.interval <= 0)
  BY <1>2, <1>3
<1>7. t.type \in proberTypes
  BY <1>2 DEF ProbeTypes, proberTypes
<1>8. t.proxy # Nil => Parse(t.proxy.endpoint)
  BY <1>4, <1>5
<1> QED
  BY <1>6, <1>7, <1>8, Zenon DEF TargetPanics

\* The labels of the exporter's vectors, and those the client library reserves,
\* that validateLabelName (config.go:692-701) lets a tag key have.
UnreservedLabels == (vectorLabels \union ReservedLabels) \ FixedLabels

\* What an accepted file that makes the startup path panic has: such a tag key, or
\* a metrics path that only without its escapes is one of a health endpoint.
PanicCause(f) ==
    \/ CollectTagKeys(f) \intersect UnreservedLabels # {}
    \/ LET path == OrElse(f.agent.path, "", "/metrics")
       IN  path \notin HealthPaths /\ Unescape(path) \in HealthPaths

LEMMA AcceptedPanics ==
    ASSUME NEW f \in Files, NEW h \in Hosts, Accepted(f, h), Panics(LoadConfig(f, h))
    PROVE  PanicCause(f)
<1> DEFINE c == LoadConfig(f, h)
           d == applyDefaults(f)
<1>1. c.agent = d.agent /\ c.tagKeys = CollectTagKeys(d)
  BY LoadedTargets
<1>2. /\ c.agent.path = OrElse(f.agent.path, "", "/metrics")
      /\ c.agent.path \in WellFormed \ HealthPaths
  <2>1. d.agent.path = OrElse(f.agent.path, "", "/metrics")
    BY FilesAssumption DEF AgentConfig, applyDefaults
  <2>2. validateMetricsPath(d.agent.path)
    BY DEF Accepted, validate, validateAgent
  <2> QED
    BY <1>1, <2>1, <2>2 DEF validateMetricsPath, HealthPaths
<1>3. \A t \in c.targets : ~TargetPanics(t)
  BY AcceptedTargetsSafe
<1>4. \/ CollectTagKeys(d) \intersect (vectorLabels \union ReservedLabels) # {}
      \/ Unescape(c.agent.path) \in HealthPaths
  <2> HIDE DEF c, d
  <2>1. \/ c.tagKeys \intersect (vectorLabels \union ReservedLabels) # {}
        \/ Unescape(c.agent.path) \in HealthPaths
    BY <1>2, <1>3 DEF Panics, c
  <2> QED
    BY <1>1, <2>1
<1>5. CollectTagKeys(d) = CollectTagKeys(f)
  <2>1. /\ d.agent.allowed = f.agent.allowed
        /\ d.targets = [i \in DOMAIN f.targets |-> targetDefaults(f.agent, f.targets[i])]
    BY AgentDefaults
  <2>2. \A i \in DOMAIN f.targets : targetDefaults(f.agent, f.targets[i]).tags = f.targets[i].tags
    BY FileTargets, TargetDefaults
  <2>3. /\ DOMAIN d.targets = DOMAIN f.targets
        /\ \A i \in DOMAIN f.targets : d.targets[i].tags = f.targets[i].tags
    BY <2>1, <2>2
  <2> HIDE DEF d
  <2>4. {t.tags : t \in Values(d.targets)} = {t.tags : t \in Values(f.targets)}
    BY <2>3 DEF Values
  <2> QED
    BY <2>1, <2>4 DEF CollectTagKeys, collectDynamicTagKeys
<1>6. \A k \in CollectTagKeys(f) : k \notin FixedLabels
  <2>1. CASE f.agent.allowed # <<>>
    <3>1. validateAllowedTagKeys(d.agent.allowed) /\ d.agent.allowed = f.agent.allowed
      BY AgentDefaults DEF Accepted, validate, validateAgent
    <3> HIDE DEF d
    <3> QED
      BY <2>1, <3>1 DEF CollectTagKeys, validateAllowedTagKeys, validateLabelName
  <2>2. CASE f.agent.allowed = <<>>
    <3>1. \A i \in DOMAIN f.targets : \A k \in f.targets[i].tags : validateLabelName(k)
      <4> TAKE i \in DOMAIN f.targets
      <4>1. Loaded(f, h, i).tags = f.targets[i].tags
        BY LoadedFields
      <4>2. \A k \in Loaded(f, h, i).tags : validateLabelName(k)
        BY <2>2, ValidTargets
      <4> QED
        BY <4>1, <4>2
    <3> QED
      BY <2>2, <3>1 DEF CollectTagKeys, collectDynamicTagKeys, Values, validateLabelName
  <2> QED
    BY <2>1, <2>2
<1> QED
  BY <1>2, <1>4, <1>5, <1>6 DEF PanicCause, UnreservedLabels

----------------------------------------------------------------------------
(* The invariant *)

TypeInv == file \in Files /\ host \in Hosts

\* While the agent is up, its loops run what the accepted file says, except
\* for secrets that were rotated without a restart.
RunningInv ==
    agent = "up" =>
        /\ Accepted(file, host)
        /\ DOMAIN running = FileNames(file)
        /\ \A i \in DOMAIN file.targets : LET t == running[file.targets[i].name] IN
             /\ LoadedForm(t)
             /\ SameTarget(t, Loaded(file, host, i))

\* Before the start nothing runs, and a process that ended had a reason to.
EndedInv ==
    /\ agent = "down" => DOMAIN running = {}
    /\ agent = "refused" => ~Accepted(file, host)
    /\ agent = "panicked" => Accepted(file, host) /\ Panics(LoadConfig(file, host))
    /\ agent = "unbound" => LoadConfig(file, host).agent.listen \in host.busy

DeploymentInv == TypeInv /\ RunningInv /\ EndedInv

\* What an accepted start or reload leaves running, whichever loops it keeps.
LEMMA LoadedRunning ==
    ASSUME NEW f \in Files, NEW h \in Hosts, Accepted(f, h), NEW old,
           \A n \in DOMAIN old : LoadedForm(old[n]),
           NEW new,
           new = [n \in Names(LoadConfig(f, h)) |->
                    IF n \in DOMAIN old /\ Equal(old[n], TargetOf(LoadConfig(f, h), n))
                      THEN old[n] ELSE TargetOf(LoadConfig(f, h), n)]
    PROVE  /\ DOMAIN new = FileNames(f)
           /\ \A i \in DOMAIN f.targets : LET n == f.targets[i].name IN
                /\ n \in DOMAIN new
                /\ LoadedForm(new[n])
                /\ SameTarget(new[n], Loaded(f, h, i))
                /\ new[n] = Loaded(f, h, i) \/ (n \in DOMAIN old /\ new[n] = old[n])
                /\ n \in DOMAIN old /\ SameTarget(old[n], Loaded(f, h, i)) => new[n] = old[n]
<1>1. DOMAIN new = FileNames(f)
  BY TargetsByName
<1>2. ASSUME NEW i \in DOMAIN f.targets
      PROVE  LET n == f.targets[i].name IN
             /\ n \in DOMAIN new
             /\ LoadedForm(new[n])
             /\ SameTarget(new[n], Loaded(f, h, i))
             /\ new[n] = Loaded(f, h, i) \/ (n \in DOMAIN old /\ new[n] = old[n])
             /\ n \in DOMAIN old /\ SameTarget(old[n], Loaded(f, h, i)) => new[n] = old[n]
  <2> DEFINE n == f.targets[i].name
             t == Loaded(f, h, i)
  <2>1. LoadedForm(t) /\ TargetOf(LoadConfig(f, h), n) = t
    BY LoadedHasForm, TargetsByName
  <2>2. n \in DOMAIN new
    BY <1>1, FileTargets
  <2> HIDE DEF n, t
  <2>3. new[n] = IF n \in DOMAIN old /\ Equal(old[n], t) THEN old[n] ELSE t
    BY <2>1, <2>2
  <2>4. SameTarget(t, t)
    BY DEF SameTarget, SameProxy
  <2>5. n \in DOMAIN old => (Equal(old[n], t) <=> SameTarget(old[n], t))
    BY <2>1, EqualTargets
  <2> QED
    BY <2>1, <2>2, <2>3, <2>4, <2>5 DEF n, t
<1> QED
  BY <1>1, <1>2

\* run (main.go) establishes the invariant.
LEMMA StartKeeps ==
    ASSUME DeploymentInv, Start
    PROVE  DeploymentInv'
<1> DEFINE c == LoadConfig(file, host)
<1>1. agent = "down" /\ file' = file /\ host' = host /\ TypeInv
  BY DEF Start, DeploymentInv
<1>2. CASE ~Accepted(file, host)
  <2>1. agent' = "refused"
    BY <1>2 DEF Start
  <2> QED
    BY <1>1, <1>2, <2>1 DEF DeploymentInv, TypeInv, RunningInv, EndedInv
<1>3. CASE Accepted(file, host)
  <2>1. /\ agent' = CASE Panics(c)                   -> "panicked"
                      [] c.agent.listen \in host.busy -> "unbound"
                      [] OTHER                        -> "up"
        /\ running' = [n \in Names(c) |-> TargetOf(c, n)]
    BY <1>3 DEF Start
  <2>2. EndedInv'
    <3>1. /\ agent' \in {"panicked", "unbound", "up"}
          /\ agent' = "panicked" => Panics(c)
          /\ agent' = "unbound" => c.agent.listen \in host.busy
      BY <2>1
    <3> QED
      BY <1>1, <1>3, <3>1 DEF EndedInv
  <2>3. /\ DOMAIN running' = FileNames(file)
        /\ \A i \in DOMAIN file.targets : LET t == running'[file.targets[i].name] IN
             LoadedForm(t) /\ SameTarget(t, Loaded(file, host, i))
    <3> DEFINE none == [n \in {} |-> Nil]
    <3>1. DOMAIN none = {}
      OBVIOUS
    <3> HIDE DEF none
    <3>2. running' = [n \in Names(c) |->
                        IF n \in DOMAIN none /\ Equal(none[n], TargetOf(c, n))
                          THEN none[n] ELSE TargetOf(c, n)]
      BY <2>1, <3>1
    <3> QED
      BY <1>1, <1>3, <3>1, <3>2, LoadedRunning DEF TypeInv
  <2> QED
    BY <1>1, <1>3, <2>2, <2>3 DEF DeploymentInv, TypeInv, RunningInv
<1> QED
  BY <1>2, <1>3

\* A loop that an accepted reload finds has the form of a loaded target.
LEMMA RunningHasForm ==
    ASSUME DeploymentInv, agent = "up"
    PROVE  \A n \in DOMAIN running : LoadedForm(running[n])
<1>1. file \in Files /\ host \in Hosts /\ Accepted(file, host)
  BY DEF DeploymentInv, TypeInv, RunningInv
<1>2. DOMAIN running = FileNames(file)
  BY DEF DeploymentInv, RunningInv
<1>3. FileNames(file) = {file.targets[i].name : i \in DOMAIN file.targets}
  BY <1>1, FileTargets
<1> QED
  BY <1>2, <1>3 DEF DeploymentInv, RunningInv

\* A reload leaves the agent up: the loops it starts are of an accepted file.
LEMMA ReloadStays ==
    ASSUME NEW f \in Files, NEW h \in Hosts, Reload(f, h)
    PROVE  agent = "up" /\ agent' = "up"
<1> DEFINE c == LoadConfig(f, h)
           kept(n) == n \in DOMAIN running /\ Equal(running[n], TargetOf(c, n))
<1>1. agent = "up"
  BY DEF Reload
<1>2. CASE Accepted(f, h) /\ StartupOnly(c) = startup
  <2>1. agent' = IF \E n \in Names(c) : ~kept(n) /\ TargetPanics(TargetOf(c, n))
                   THEN "panicked" ELSE "up"
    BY <1>2 DEF Reload
  <2>2. \A n \in Names(c) : ~TargetPanics(TargetOf(c, n))
    <3> TAKE n \in Names(c)
    <3>1. TargetOf(c, n) \in c.targets
      <4> HIDE DEF c
      <4> QED
        BY DEF Names, TargetOf
    <3> QED
      BY <1>2, <3>1, AcceptedTargetsSafe
  <2> HIDE DEF c, kept
  <2> QED
    BY <1>1, <2>1, <2>2
<1>3. CASE ~(Accepted(f, h) /\ StartupOnly(c) = startup)
  BY <1>1, <1>3 DEF Reload
<1> QED
  BY <1>1, <1>2, <1>3

\* handleReload keeps it, whether it refuses the file or not.
LEMMA ReloadKeeps ==
    ASSUME DeploymentInv, NEW f \in Files, NEW h \in Hosts, Reload(f, h)
    PROVE  DeploymentInv'
<1> DEFINE c == LoadConfig(f, h)
<1>1. agent = "up" /\ agent' = "up"
  BY ReloadStays DEF Reload
<1>2. CASE Accepted(f, h) /\ StartupOnly(c) = startup
  <2>1. /\ file' = f /\ host' = h
        /\ running' = [n \in Names(c) |->
                         IF n \in DOMAIN running /\ Equal(running[n], TargetOf(c, n))
                           THEN running[n] ELSE TargetOf(c, n)]
    BY <1>2 DEF Reload
  <2>2. \A n \in DOMAIN running : LoadedForm(running[n])
    BY <1>1, RunningHasForm
  <2>3. /\ DOMAIN running' = FileNames(f)
        /\ \A i \in DOMAIN f.targets : LET t == running'[f.targets[i].name] IN
             LoadedForm(t) /\ SameTarget(t, Loaded(f, h, i))
    BY <1>2, <2>1, <2>2, LoadedRunning
  <2> QED
    BY <1>1, <1>2, <2>1, <2>3 DEF DeploymentInv, TypeInv, RunningInv, EndedInv
<1>3. CASE ~(Accepted(f, h) /\ StartupOnly(c) = startup)
  <2>1. UNCHANGED <<agent, file, host, running>>
    BY <1>3 DEF Reload
  <2> QED
    BY <2>1 DEF DeploymentInv, TypeInv, RunningInv, EndedInv
<1> QED
  BY <1>2, <1>3

\* While it is up, the agent runs the targets of the latest accepted file with
\* the hash each has there (main.go: run, handleReload; scheduler.go:
\* diffTargets), and every ended process was refused, panicked or found its
\* address taken by the configuration it was started with.
THEOREM DeploymentInvariant == Spec => []DeploymentInv
<1>1. Init => DeploymentInv
  <2> SUFFICES ASSUME Init PROVE DeploymentInv
    OBVIOUS
  <2>1. DOMAIN running = {}
    BY DEF Init
  <2> QED
    BY <2>1 DEF Init, DeploymentInv, TypeInv, RunningInv, EndedInv
<1>2. DeploymentInv /\ [Next]_vars => DeploymentInv'
  <2> SUFFICES ASSUME DeploymentInv, [Next]_vars PROVE DeploymentInv'
    OBVIOUS
  <2>1. CASE Start
    BY <2>1, StartKeeps
  <2>2. CASE \E f \in Files, h \in Hosts : Reload(f, h)
    BY <2>2, ReloadKeeps
  <2>3. ASSUME UNCHANGED <<agent, file, host, startup, running>>
        PROVE  DeploymentInv'
    BY <2>3 DEF DeploymentInv, TypeInv, RunningInv, EndedInv
  <2>4. CASE \E n \in DOMAIN running, a \in Answers : ProbeDNS(n, a)
    BY <2>3, <2>4 DEF ProbeDNS
  <2>5. CASE RecordDNS \/ Ended \/ UNCHANGED vars
    BY <2>3, <2>5 DEF RecordDNS, Ended, vars
  <2> QED
    BY <2>1, <2>2, <2>4, <2>5 DEF Next
<1> QED
  BY <1>1, <1>2, PTL DEF Spec

----------------------------------------------------------------------------
(* The properties *)

\* A running loop, the target of the file it is the loop of, and that they
\* agree.
LEMMA RunningTarget ==
    ASSUME DeploymentInv, agent = "up", NEW n \in DOMAIN running
    PROVE  \E i \in DOMAIN file.targets :
             /\ n = file.targets[i].name
             /\ LoadedForm(running[n])
             /\ SameTarget(running[n], Loaded(file, host, i))
             /\ Probed(running[n]) = Meaning(file, n)
<1>1. /\ file \in Files /\ host \in Hosts /\ Accepted(file, host)
      /\ DOMAIN running = FileNames(file)
  BY DEF DeploymentInv, TypeInv, RunningInv
<1>2. FileNames(file) = {file.targets[i].name : i \in DOMAIN file.targets}
  BY <1>1, FileTargets
<1>3. PICK i \in DOMAIN file.targets : n = file.targets[i].name
  BY <1>1, <1>2
<1>4. LoadedForm(running[n]) /\ SameTarget(running[n], Loaded(file, host, i))
  BY <1>3 DEF DeploymentInv, RunningInv
<1>5. Probed(Loaded(file, host, i)) = Meaning(file, n)
  BY <1>1, <1>3, LoadedMeaning
<1>6. Probed(running[n]) = Probed(Loaded(file, host, i))
  BY <1>4 DEF SameTarget, SameProxy, Probed
<1> QED
  BY <1>3, <1>4, <1>5, <1>6

\* The startup path panics (main.go:83-106, metrics.go:222, main.go:242-250) only
\* because of a tag key or a metrics path that validation lets through, never
\* because of a target, a proxy or a default.
THEOREM DeploymentPanicCause == Spec => [](agent = "panicked" => PanicCause(file))
<1>1. DeploymentInv => (agent = "panicked" => PanicCause(file))
  BY AcceptedPanics DEF DeploymentInv, TypeInv, EndedInv
<1> QED
  BY <1>1, DeploymentInvariant, PTL

\* No reload takes a running agent down: validation and defaults leave no target
\* whose loop panics when handleReload (main.go:197) starts it.
THEOREM DeploymentReloadSurvives == Spec => ReloadSurvives
<1> DEFINE Survives == agent = "up" => agent' = "up"
<1>1. [Next]_vars => [Survives]_vars
  <2> SUFFICES ASSUME [Next]_vars PROVE [Survives]_vars
    OBVIOUS
  <2>1. CASE \E f \in Files, h \in Hosts : Reload(f, h)
    BY <2>1, ReloadStays
  <2>2. CASE Start
    BY <2>2 DEF Start
  <2>3. CASE RecordDNS \/ Ended \/ UNCHANGED vars
    BY <2>3 DEF RecordDNS, Ended, vars
  <2>4. CASE \E n \in DOMAIN running, a \in Answers : ProbeDNS(n, a)
    BY <2>4 DEF ProbeDNS
  <2> QED
    BY <2>1, <2>2, <2>3, <2>4 DEF Next
<1> QED
  BY <1>1, PTL DEF Spec, ReloadSurvives

\* After any number of reloads every loop probes with what the file says now:
\* the hash that Equal compares (hash.go:72-79) covers all that the agent's
\* defaults and the proxy registry put into a target.
THEOREM DeploymentFollowsFile == Spec => []ProbesFollowFile
<1>1. DeploymentInv => ProbesFollowFile
  <2> SUFFICES ASSUME DeploymentInv, agent = "up"
               PROVE  /\ DOMAIN running = {t.name : t \in Values(file.targets)}
                      /\ \A n \in DOMAIN running : Probed(running[n]) = Meaning(file, n)
    BY DEF ProbesFollowFile
  <2>1. DOMAIN running = {t.name : t \in Values(file.targets)}
    BY DEF DeploymentInv, RunningInv, FileNames
  <2> QED
    BY <2>1, RunningTarget
<1> QED
  BY <1>1, DeploymentInvariant, PTL

\* What doctor finds nothing wrong with comes up, and its ICMP, MTU and DNS
\* targets have on the host what they need (doctor.go: RunWithOptions).
THEOREM DeploymentDoctorSound == Spec => []DoctorSound
<1>1. DeploymentInv => DoctorSound
  <2> SUFFICES ASSUME DeploymentInv, doctorOK(file, host)
               PROVE  /\ agent \notin {"refused", "unbound"}
                      /\ agent = "up" => \A n \in DOMAIN running : LET t == running[n] IN
                           /\ t.type \in {"icmp", "mtu"} => host.pingSocket
                           /\ t.type = "mtu" => host.pmtu
                           /\ t.type = "dns" => host.nameservers \/ t.opts.server # NoAddress
    BY DEF DoctorSound
  <2> DEFINE c == LoadConfig(file, host)
  <2>1. /\ Accepted(file, host)
        /\ checkListenAddr(c.agent.listen, host) # "FAIL"
        /\ checkDNS(c, host) # "FAIL"
        /\ "FAIL" \notin checkICMP(c, host) /\ "FAIL" \notin checkMTU(c, host)
    BY DEF doctorOK
  <2>2. agent \notin {"refused", "unbound"}
    BY <2>1 DEF DeploymentInv, EndedInv, checkListenAddr
  <2>3. ASSUME agent = "up", NEW n \in DOMAIN running
        PROVE  LET t == running[n] IN
               /\ t.type \in {"icmp", "mtu"} => host.pingSocket
               /\ t.type = "mtu" => host.pmtu
               /\ t.type = "dns" => host.nameservers \/ t.opts.server # NoAddress
    <3>1. PICK i \in DOMAIN file.targets : SameTarget(running[n], Loaded(file, host, i))
      BY <2>3, RunningTarget
    <3> DEFINE t == Loaded(file, host, i)
    <3>2. running[n].type = t.type /\ running[n].opts = t.opts
      BY <3>1 DEF SameTarget
    <3>3. t \in c.targets
      BY LoadedTargets DEF DeploymentInv, TypeInv
    <3> HIDE DEF t, c
    <3>4. t \in targetsOf(c, t.type)
      BY <3>3 DEF targetsOf
    <3>5. t.type = "icmp" => host.pingSocket
      BY <2>1, <3>4 DEF checkICMP
    <3>6. t.type = "mtu" => host.pingSocket /\ host.pmtu
      BY <2>1, <3>4 DEF checkMTU
    <3>7. t.type = "dns" => host.nameservers \/ t.opts.server # NoAddress
      BY <2>1, <3>4 DEF checkDNS
    <3> QED
      BY <3>2, <3>5, <3>6, <3>7
  <2> QED
    BY <2>2, <2>3
<1> QED
  BY <1>1, DeploymentInvariant, PTL

\* Two loaded targets that mean the same and agree on what Meaning leaves out
\* have the same hash.
LEMMA SameMeaning ==
    ASSUME NEW s, NEW t, LoadedForm(s), LoadedForm(t), s.name = t.name,
           Probed(s) = Probed(t), s.type = t.type, s.address = t.address, s.tags = t.tags,
           s.proxyName = t.proxyName, s.opts = t.opts
    PROVE  SameTarget(s, t)
<1>1. s.proxy = Nil <=> t.proxy = Nil
  BY DEF LoadedForm
<1>2. s.interval = t.interval /\ s.timeout = t.timeout /\ s.resolver = t.resolver
  BY DEF Probed
<1>3. ASSUME s.proxy # Nil PROVE SameProxy(s.proxy, t.proxy)
  <2>1. /\ <<s.proxy.endpoint.scheme, s.proxy.endpoint.host, s.proxy.skipVerify>>
              = <<t.proxy.endpoint.scheme, t.proxy.endpoint.host, t.proxy.skipVerify>>
        /\ <<s.proxy.user, s.proxy.pass>> = <<t.proxy.user, t.proxy.pass>>
    BY <1>1, <1>3 DEF Probed
  <2>2. Endpoint(s.proxy.endpoint) = Endpoint(t.proxy.endpoint)
    BY <2>1 DEF Endpoint
  <2>3. s.proxy.endpoint = t.proxy.endpoint
    BY <1>1, <1>3, <2>2 DEF LoadedForm
  <2> QED
    BY <1>3, <2>1, <2>3 DEF SameProxy
<1> QED
  BY <1>1, <1>2, <1>3 DEF SameTarget

\* A reload replaces no loop whose target means the same and has the same
\* options (scheduler.go: diffTargets), whatever else of the file, of the host
\* or of its secrets changed.
THEOREM DeploymentKeepsUnaffected == Spec => UnaffectedKeepRunning
<1> DEFINE Replaced(n) ==
             LET old == running[n]
                 new == running'[n]
             IN  old # new =>
                   \/ Meaning(file, n) # Meaning(file', n)
                   \/ <<old.type, old.address, old.tags, old.proxyName, old.opts>>
                        # <<new.type, new.address, new.tags, new.proxyName, new.opts>>
           Unaffected == \A n \in DOMAIN running \intersect DOMAIN running' : Replaced(n)
<1>1. DeploymentInv /\ DeploymentInv' /\ [Next]_vars => [Unaffected]_vars
  <2> SUFFICES ASSUME DeploymentInv, DeploymentInv', [Next]_vars PROVE Unaffected
    OBVIOUS
  <2>1. CASE Start
    <3>1. DOMAIN running = {}
      BY <2>1 DEF Start, DeploymentInv, EndedInv
    <3> QED
      BY <3>1
  <2>2. ASSUME NEW f \in Files, NEW h \in Hosts, Reload(f, h)
        PROVE  Unaffected
    <3> DEFINE c == LoadConfig(f, h)
    <3>1. agent = "up" /\ agent' = "up"
      BY <2>2, ReloadStays
    <3>2. CASE Accepted(f, h) /\ StartupOnly(c) = startup
      <4> SUFFICES ASSUME NEW n \in DOMAIN running \intersect DOMAIN running',
                          running[n] # running'[n],
                          Meaning(file, n) = Meaning(file', n),
                          <<running[n].type, running[n].address, running[n].tags,
                            running[n].proxyName, running[n].opts>>
                            = <<running'[n].type, running'[n].address, running'[n].tags,
                                running'[n].proxyName, running'[n].opts>>
                   PROVE  FALSE
        OBVIOUS
      <4>1. /\ file' = f /\ host' = h
            /\ running' = [m \in Names(c) |->
                             IF m \in DOMAIN running /\ Equal(running[m], TargetOf(c, m))
                               THEN running[m] ELSE TargetOf(c, m)]
        BY <2>2, <3>2 DEF Reload
      <4>2. \A m \in DOMAIN running : LoadedForm(running[m])
        BY <3>1, RunningHasForm
      <4>3. PICK j \in DOMAIN file.targets :
              /\ n = file.targets[j].name
              /\ SameTarget(running[n], Loaded(file, host, j))
              /\ Probed(running[n]) = Meaning(file, n)
        BY <3>1, RunningTarget
      <4>4. DOMAIN running' = FileNames(f)
        BY <2>2, <3>2, <4>1, <4>2, LoadedRunning
      <4>5. PICK i \in DOMAIN f.targets : n = f.targets[i].name
        <5>1. FileNames(f) = {f.targets[k].name : k \in DOMAIN f.targets}
          BY <2>2, FileTargets
        <5> QED
          BY <4>4, <5>1
      <4> DEFINE t == Loaded(f, h, i)
      <4>6. LoadedForm(t) /\ Probed(t) = Meaning(f, n) /\ t.name = n
        BY <2>2, <3>2, <4>5, LoadedHasForm, LoadedMeaning, LoadedFields
      <4>7. running'[n] = t /\ (SameTarget(running[n], t) => running'[n] = running[n])
        <5>1. LET m == f.targets[i].name IN
              /\ running'[m] = Loaded(f, h, i) \/ (m \in DOMAIN running /\ running'[m] = running[m])
              /\ m \in DOMAIN running /\ SameTarget(running[m], Loaded(f, h, i))
                   => running'[m] = running[m]
          BY <2>2, <3>2, <4>1, <4>2, LoadedRunning
        <5> QED
          BY <4>5, <5>1
      <4>8. running[n].name = n
        <5>1. Loaded(file, host, j).name = n
          BY <4>3, LoadedFields DEF DeploymentInv, TypeInv
        <5> QED
          BY <4>3, <5>1 DEF SameTarget
      <4> HIDE DEF t
      <4>9. SameTarget(running[n], t)
        <5> DEFINE s == running[n]
        <5>1. LoadedForm(s) /\ s.name = t.name
          BY <4>2, <4>6, <4>8
        <5>2. Probed(s) = Probed(t)
          BY <4>1, <4>3, <4>6
        <5>3. running'[n] = t
          BY <4>7
        <5>4. /\ s.type = t.type /\ s.address = t.address /\ s.tags = t.tags
              /\ s.proxyName = t.proxyName /\ s.opts = t.opts
          BY <5>3
        <5> HIDE DEF s
        <5>5. SameTarget(s, t)
          BY <4>6, <5>1, <5>2, <5>4, SameMeaning
        <5> QED
          BY <5>5 DEF s
      <4> QED
        BY <4>7, <4>9
    <3>3. CASE ~(Accepted(f, h) /\ StartupOnly(c) = startup)
      BY <2>2, <3>3 DEF Reload
    <3> QED
      BY <3>2, <3>3
  <2>3. CASE \E n \in DOMAIN running, a \in Answers : ProbeDNS(n, a)
    BY <2>3 DEF ProbeDNS
  <2>4. CASE RecordDNS \/ Ended \/ UNCHANGED vars
    BY <2>4 DEF RecordDNS, Ended, vars
  <2> QED
    BY <2>1, <2>2, <2>3, <2>4 DEF Next
<1> QED
  BY <1>1, DeploymentInvariant, PTL DEF Spec, UnaffectedKeepRunning

----------------------------------------------------------------------------
(* Sorting *)

\* A set of natural numbers has a least element.
LEMMA LeastNumber ==
    ASSUME NEW T \in SUBSET Nat, T # {}
    PROVE  \E x \in T : \A y \in T : x <= y
<1> DEFINE R == OpToRel(<, Nat)
<1>1. IsWellFoundedOn(R, Nat)
  BY NatLessThanWellFounded
<1>2. \A x, y \in Nat : x < y => <<x, y>> \in R
  BY DEF OpToRel
<1> HIDE DEF R
<1>3. PICK x \in T : \A y \in T : ~(<<y, x>> \in R)
  BY <1>1, WFMin
<1>4. \A y \in T : x \in Nat /\ y \in Nat /\ ~(y < x)
  BY <1>2, <1>3
<1> QED
  BY <1>3, <1>4

\* p puts the numbers of s in ascending order.
Sorts(p, s, n) ==
    /\ p \in Bijection(1..n, 1..n)
    /\ \A i, j \in 1..n : i < j => s[p[i]] <= s[p[j]]

\* The least number first, and then the others in order: the place it leaves is
\* taken by the last number.
LEMMA SortsOneMore ==
    ASSUME NEW n \in Nat, NEW s \in [1..(n + 1) -> Nat], NEW m \in 1..(n + 1),
           \A i \in 1..(n + 1) : s[m] <= s[i],
           NEW q, Sorts(q, [i \in 1..n |-> s[IF i = m THEN n + 1 ELSE i]], n)
    PROVE  \E p : Sorts(p, s, n + 1)
<1> DEFINE c == [i \in 1..n |-> IF i = m THEN n + 1 ELSE i]
           t == [i \in 1..n |-> s[IF i = m THEN n + 1 ELSE i]]
           p == [i \in 1..(n + 1) |-> IF i = 1 THEN m ELSE c[q[i - 1]]]
<1>1. /\ q \in [1..n -> 1..n]
      /\ \A i, j \in 1..n : q[i] = q[j] => i = j
      /\ \A w \in 1..n : \E v \in 1..n : q[v] = w
      /\ \A i, j \in 1..n : i < j => t[q[i]] <= t[q[j]]
  BY DEF Sorts, Bijection, Injection, Surjection, IsInjective
<1>C. \A i \in 1..n : c[i] \in 1..(n + 1) /\ c[i] # m /\ t[i] = s[c[i]]
  OBVIOUS
<1>I. \A i, j \in 1..n : c[i] = c[j] => i = j
  OBVIOUS
<1>2. \A w \in (1..(n + 1)) \ {m} : \E v \in 1..n : c[v] = w
  <2> TAKE w \in (1..(n + 1)) \ {m}
  <2>1. CASE w = n + 1
    <3>1. m \in 1..n /\ c[m] = n + 1
      BY <2>1
    <3> QED
      BY <2>1, <3>1
  <2>2. CASE w # n + 1
    <3>1. w \in 1..n /\ c[w] = w
      BY <2>2
    <3> QED
      BY <3>1
  <2> QED
    BY <2>1, <2>2
<1> HIDE DEF c, t
<1>3. \A i \in 2..(n + 1) : i - 1 \in 1..n /\ p[i] = c[q[i - 1]]
  OBVIOUS
<1>4. p[1] = m /\ DOMAIN p = 1..(n + 1)
  OBVIOUS
<1>5. \A i \in 1..(n + 1) : i = 1 \/ i \in 2..(n + 1)
  OBVIOUS
<1>6. /\ \A i \in 1..(n + 1) : p[i] \in 1..(n + 1)
      /\ \A i \in 2..(n + 1) : p[i] # m
  <2>1. \A i \in 2..(n + 1) : q[i - 1] \in 1..n
    BY <1>1, <1>3
  <2>2. \A i \in 2..(n + 1) : p[i] \in 1..(n + 1) /\ p[i] # m
    BY <1>C, <1>3, <2>1
  <2> QED
    BY <1>4, <1>5, <2>2
<1>7. p \in [1..(n + 1) -> 1..(n + 1)]
  BY <1>6
<1> HIDE DEF p
<1>8. \A i, j \in 1..(n + 1) : p[i] = p[j] => i = j
  <2> TAKE i, j \in 1..(n + 1)
  <2>1. CASE i = 1 \/ j = 1
    BY <1>4, <1>5, <1>6, <2>1
  <2>2. CASE i \in 2..(n + 1) /\ j \in 2..(n + 1)
    <3> DEFINE a == i - 1
               b == j - 1
    <3>1. a \in 1..n /\ b \in 1..n /\ p[i] = c[q[a]] /\ p[j] = c[q[b]] /\ (a = b => i = j)
      BY <1>3, <2>2
    <3> HIDE DEF a, b
    <3>2. q[a] \in 1..n /\ q[b] \in 1..n
      BY <1>1, <3>1
    <3>3. p[i] = p[j] => q[a] = q[b]
      BY <1>I, <3>1, <3>2
    <3> QED
      BY <1>1, <3>1, <3>3
  <2> QED
    BY <1>5, <2>1, <2>2
<1>9. \A w \in 1..(n + 1) : \E v \in 1..(n + 1) : p[v] = w
  <2> TAKE w \in 1..(n + 1)
  <2>1. CASE w = m
    BY <1>4, <2>1
  <2>2. CASE w # m
    <3>1. PICK u \in 1..n : c[u] = w
      BY <1>2, <2>2
    <3>2. PICK v \in 1..n : q[v] = u
      BY <1>1
    <3>3. v + 1 \in 2..(n + 1) /\ (v + 1) - 1 = v
      OBVIOUS
    <3>4. p[v + 1] = w
      BY <1>3, <3>1, <3>2, <3>3
    <3> QED
      BY <3>3, <3>4
  <2> QED
    BY <2>1, <2>2
<1>10. \A i, j \in 1..(n + 1) : i < j => s[p[i]] <= s[p[j]]
  <2> TAKE i, j \in 1..(n + 1)
  <2> HAVE i < j
  <2>1. CASE i = 1
    BY <1>4, <1>6, <2>1
  <2>2. CASE i # 1
    <3>1. i \in 2..(n + 1) /\ j \in 2..(n + 1) /\ i - 1 < j - 1
      BY <2>2
    <3> DEFINE a == i - 1
               b == j - 1
    <3>2. a \in 1..n /\ b \in 1..n /\ a < b /\ p[i] = c[q[a]] /\ p[j] = c[q[b]]
      BY <1>3, <3>1
    <3> HIDE DEF a, b
    <3>3. t[q[a]] <= t[q[b]] /\ q[a] \in 1..n /\ q[b] \in 1..n
      BY <1>1, <3>2
    <3>4. t[q[a]] = s[c[q[a]]] /\ t[q[b]] = s[c[q[b]]]
      BY <1>C, <3>3
    <3> QED
      BY <3>2, <3>3, <3>4
  <2> QED
    BY <2>1, <2>2
<1> QED
  BY <1>7, <1>8, <1>9, <1>10 DEF Sorts, Bijection, Injection, Surjection, IsInjective

\* Every sequence of numbers can be sorted.
LEMMA SortExists ==
    ASSUME NEW n \in Nat, NEW s \in [1..n -> Nat]
    PROVE  \E p : Sorts(p, s, n)
<1> DEFINE T == {k \in Nat : \E u \in [1..k -> Nat] : ~\E p : Sorts(p, u, k)}
<1> SUFFICES ASSUME T # {} PROVE FALSE
  OBVIOUS
<1>1. PICK k \in T : \A j \in T : k <= j
  BY LeastNumber, T \in SUBSET Nat
<1>2. PICK u \in [1..k -> Nat] : ~\E p : Sorts(p, u, k)
  BY <1>1
<1>3. k # 0
  <2>1. ASSUME k = 0 PROVE FALSE
    <3> DEFINE e == [i \in 1..0 |-> i]
    <3>1. 1..0 = {}
      OBVIOUS
    <3>2. e \in [1..0 -> 1..0]
      BY <3>1
    <3>3. Sorts(e, u, 0)
      BY <3>1, <3>2 DEF Sorts, Bijection, Injection, Surjection, IsInjective
    <3> QED
      BY <1>2, <2>1, <3>3
  <2> QED
    BY <2>1
<1> DEFINE l == k - 1
<1>4. l \in Nat /\ l \notin T /\ k = l + 1
  <2>1. k \in Nat
    OBVIOUS
  <2> HIDE DEF T
  <2>2. k - 1 \in Nat /\ ~(k <= k - 1)
    BY <1>3, <2>1
  <2> QED
    BY <1>1, <2>1, <2>2
<1> HIDE DEF l
<1>5. \A v \in [1..l -> Nat] : \E p : Sorts(p, v, l)
  BY <1>4
<1> HIDE DEF T
<1>6. PICK m \in 1..(l + 1) : \A i \in 1..(l + 1) : u[m] <= u[i]
  <2> DEFINE V == {u[i] : i \in 1..(l + 1)}
  <2>1. V \in SUBSET Nat /\ u[1] \in V
    BY <1>2, <1>4
  <2>2. PICK x \in V : \A y \in V : x <= y
    BY <2>1, LeastNumber
  <2> QED
    BY <2>2
<1> DEFINE v == [i \in 1..l |-> u[IF i = m THEN l + 1 ELSE i]]
<1>7. v \in [1..l -> Nat]
  BY <1>2, <1>4, <1>6
<1>8. PICK q : Sorts(q, v, l)
  BY <1>5, <1>7
<1>9. \E p : Sorts(p, u, l + 1)
  BY <1>2, <1>4, <1>6, <1>8, SortsOneMore
<1> QED
  BY <1>2, <1>4, <1>9

----------------------------------------------------------------------------
(* What sorting keeps *)

\* In ascending order, and where number v is.
Ascending(s, n) == \A i, j \in 1..n : i < j => s[i] <= s[j]
Places(v, s, n) == {i \in 1..n : s[i] = v}

\* Sorting keeps how often each number occurs.
LEMMA SortedIs ==
    ASSUME NEW n \in Nat, NEW s \in [1..n -> Nat]
    PROVE  /\ Sorted(s) \in [1..n -> Nat]
           /\ Ascending(Sorted(s), n)
           /\ \A v : Cardinality(Places(v, Sorted(s), n)) = Cardinality(Places(v, s, n))
<1> DEFINE p == CHOOSE x \in Bijection(DOMAIN s, DOMAIN s) :
                  \A i, j \in DOMAIN s : i < j => s[x[i]] <= s[x[j]]
           a == Sorted(s)
<1>1. DOMAIN s = 1..n
  OBVIOUS
<1>2. \E x \in Bijection(DOMAIN s, DOMAIN s) :
         \A i, j \in DOMAIN s : i < j => s[x[i]] <= s[x[j]]
  BY <1>1, SortExists DEF Sorts
<1>3. /\ p \in Bijection(DOMAIN s, DOMAIN s)
      /\ \A i, j \in DOMAIN s : i < j => s[p[i]] <= s[p[j]]
  BY <1>2, Zenon
<1>4. a = [i \in DOMAIN s |-> s[p[i]]]
  BY DEF Sorted
<1> HIDE DEF p, a
<1>5. /\ p \in [1..n -> 1..n]
      /\ \A i, j \in 1..n : p[i] = p[j] => i = j
      /\ \A w \in 1..n : \E v \in 1..n : p[v] = w
  BY <1>1, <1>3 DEF Bijection, Injection, Surjection, IsInjective
<1>6. a \in [1..n -> Nat] /\ \A i \in 1..n : a[i] = s[p[i]]
  BY <1>1, <1>4, <1>5
<1>7. Ascending(a, n)
  <2>1. \A i, j \in 1..n : i < j => s[p[i]] <= s[p[j]]
    BY <1>1, <1>3
  <2>2. \A i \in 1..n : a[i] = s[p[i]]
    BY <1>6
  <2> QED
    BY <2>1, <2>2, Zenon DEF Ascending
<1>8. ASSUME NEW v PROVE Cardinality(Places(v, a, n)) = Cardinality(Places(v, s, n))
  <2> DEFINE A == Places(v, a, n)
             B == Places(v, s, n)
             f == [i \in A |-> p[i]]
  <2>1. IsFiniteSet(A)
    <3>1. IsFiniteSet(1..n)
      BY FS_Interval
    <3>2. A \in SUBSET (1..n)
      BY DEF Places
    <3> QED
      BY <3>1, <3>2, FS_Subset
  <2>2. A \subseteq 1..n /\ \A i \in A : p[i] \in B
    BY <1>5, <1>6 DEF Places
  <2>3. \A w \in B : \E i \in A : p[i] = w
    BY <1>5, <1>6 DEF Places
  <2> HIDE DEF A, B
  <2>4. f \in [A -> B] /\ DOMAIN f = A /\ \A i \in A : f[i] = p[i]
    BY <2>2
  <2> HIDE DEF f
  <2>5. \A i, j \in A : f[i] = f[j] => i = j
    BY <1>5, <2>2, <2>4
  <2>6. \A w \in B : \E i \in A : f[i] = w
    BY <2>3, <2>4
  <2>7. f \in Bijection(A, B)
    BY <2>4, <2>5, <2>6 DEF Bijection, Injection, Surjection, IsInjective
  <2>8. ExistsBijection(A, B)
    BY <2>7 DEF ExistsBijection
  <2>9. Cardinality(B) = Cardinality(A)
    BY <2>1, <2>8, FS_Bijection
  <2> QED
    BY <2>9 DEF A, B
<1> QED
  BY <1>6, <1>7, <1>8 DEF a

\* Of two ascending sequences in which each number occurs equally often, the
\* second does not differ from the first at a place where the first has one.
LEMMA FirstDifference ==
    ASSUME NEW n \in Nat, NEW m \in Nat, NEW a \in [1..n -> Nat], NEW b \in [1..m -> Nat],
           Ascending(b, m), NEW k \in 1..n,
           \A i \in 1..n : i < k => i \in 1..m /\ a[i] = b[i],
           k \in 1..m => a[k] < b[k]
    PROVE  Cardinality(Places(a[k], a, n)) # Cardinality(Places(a[k], b, m))
<1> DEFINE A == Places(a[k], a, n)
           B == Places(a[k], b, m)
<1>1. \A j \in B : j < k
  <2> SUFFICES ASSUME NEW j \in B, ~(j < k) PROVE FALSE
    OBVIOUS
  <2>1. j \in 1..m /\ b[j] = a[k] /\ k \in 1..m /\ (j = k \/ k < j)
    BY DEF Places
  <2>2. b[k] <= b[j]
    BY <2>1 DEF Ascending
  <2> QED
    BY <2>1, <2>2
<1>2. B \subseteq A /\ k \in A /\ k \notin B
  <2>1. \A j \in B : j \in 1..n /\ a[j] = b[j] /\ b[j] = a[k]
    BY <1>1 DEF Places
  <2>2. k \in A
    BY DEF Places
  <2> QED
    BY <1>1, <2>1, <2>2 DEF Places
<1>3. IsFiniteSet(A)
  <2>1. IsFiniteSet(1..n)
    BY FS_Interval
  <2>2. A \in SUBSET (1..n)
    BY DEF Places
  <2> QED
    BY <2>1, <2>2, FS_Subset
<1> HIDE DEF A, B
<1>4. B \in SUBSET A /\ A # B
  BY <1>2
<1>5. Cardinality(A) # Cardinality(B)
  BY <1>3, <1>4, FS_Subset
<1> QED
  BY <1>5 DEF A, B

\* Hence two such sequences are the same.
LEMMA SortedUnique ==
    ASSUME NEW n \in Nat, NEW m \in Nat, NEW a \in [1..n -> Nat], NEW b \in [1..m -> Nat],
           Ascending(a, n), Ascending(b, m),
           \A v \in Nat : Cardinality(Places(v, a, n)) = Cardinality(Places(v, b, m))
    PROVE  a = b
<1> DEFINE T == {i \in Nat : /\ i \in 1..n \/ i \in 1..m
                             /\ ~(i \in 1..n /\ i \in 1..m /\ a[i] = b[i])}
<1>1. T = {}
  <2> SUFFICES ASSUME T # {} PROVE FALSE
    OBVIOUS
  <2>1. PICK k \in T : \A j \in T : k <= j
    BY LeastNumber, T \in SUBSET Nat
  <2>2. \A i \in Nat : i < k /\ (i \in 1..n \/ i \in 1..m) =>
           i \in 1..n /\ i \in 1..m /\ a[i] = b[i]
    BY <2>1
  <2>3. CASE k \in 1..n /\ (k \in 1..m => a[k] < b[k])
    <3>1. \A i \in 1..n : i < k => i \in 1..m /\ a[i] = b[i]
      BY <2>2
    <3>2. a[k] \in Nat
      BY <2>3
    <3> QED
      BY <2>3, <3>1, <3>2, FirstDifference
  <2>4. CASE k \in 1..m /\ (k \in 1..n => b[k] < a[k])
    <3>1. \A i \in 1..m : i < k => i \in 1..n /\ b[i] = a[i]
      BY <2>2
    <3>2. b[k] \in Nat
      BY <2>4
    <3>3. k \in 1..m /\ (k \in 1..n => b[k] < a[k])
      BY <2>4
    <3> HIDE DEF T
    <3>4. Cardinality(Places(b[k], b, m)) # Cardinality(Places(b[k], a, n))
      BY <3>1, <3>3, FirstDifference
    <3> QED
      BY <3>2, <3>4
  <2>5. (k \in 1..n \/ k \in 1..m) /\ ~(k \in 1..n /\ k \in 1..m /\ a[k] = b[k])
    OBVIOUS
  <2>6. k \in 1..n /\ k \in 1..m => a[k] < b[k] \/ b[k] < a[k]
    BY <2>5
  <2> QED
    BY <2>3, <2>4, <2>5, <2>6
<1>2. \A i \in Nat : i \in 1..n \/ i \in 1..m => i \in 1..n /\ i \in 1..m /\ a[i] = b[i]
  BY <1>1
<1> HIDE DEF T
<1>3. 1..n = 1..m
  BY <1>2
<1> QED
  BY <1>2, <1>3

\* Records, of an answer or of dns_expected, in whatever way they are written.
IsRecords(s) ==
    /\ Len(s) \in Nat /\ DOMAIN s = 1..Len(s)
    /\ \A i \in DOMAIN s : s[i].val \in Nat
    /\ s = <<>> <=> Len(s) = 0

\* What configuration files and answers hold are records.
LEMMA AreRecords ==
    ASSUME NEW s \in Seq([val : Nat, form : STRING])
    PROVE  IsRecords(s)
<1> DEFINE S == [val : Nat, form : STRING]
<1>1. /\ Len(s) \in Nat /\ DOMAIN s = 1..Len(s) /\ \A i \in 1..Len(s) : s[i] \in S
      /\ s = <<>> <=> Len(s) = 0
  <2> HIDE DEF S
  <2>1. s \in Seq(S)
    BY DEF S
  <2> QED
    BY <2>1
<1>2. \A i \in 1..Len(s) : s[i].val \in Nat
  BY <1>1
<1> QED
  BY <1>1, <1>2 DEF IsRecords

\* matchExpected (dns.go:169-192) compares multisets: it ignores the order of
\* the records and the way they are written, and counts duplicates.
LEMMA MatchExpected ==
    ASSUME NEW got, NEW want, IsRecords(got), IsRecords(want)
    PROVE  matchExpected(got, want) <=>
             \A v \in Nat : Occurrences(v, got) = Occurrences(v, want)
<1> DEFINE g == [i \in DOMAIN got |-> got[i].val]
           w == [i \in DOMAIN want |-> want[i].val]
           n == Len(got)
           m == Len(want)
<1>1. /\ n \in Nat /\ DOMAIN got = 1..n /\ g \in [1..n -> Nat]
      /\ m \in Nat /\ DOMAIN want = 1..m /\ w \in [1..m -> Nat]
  BY DEF IsRecords
<1>2. matchExpected(got, want) <=> Sorted(g) = Sorted(w)
  BY DEF matchExpected
<1>3. \A v : Occurrences(v, got) = Cardinality(Places(v, g, n))
  <2> TAKE v
  <2>1. {i \in DOMAIN got : got[i].val = v} = {i \in 1..n : g[i] = v}
    BY <1>1
  <2> QED
    BY <2>1 DEF Occurrences, Places
<1>4. \A v : Occurrences(v, want) = Cardinality(Places(v, w, m))
  <2> TAKE v
  <2>1. {i \in DOMAIN want : want[i].val = v} = {i \in 1..m : w[i] = v}
    BY <1>1
  <2> QED
    BY <2>1 DEF Occurrences, Places
<1> HIDE DEF g, w, n, m
<1>5. /\ Sorted(g) \in [1..n -> Nat] /\ Ascending(Sorted(g), n)
      /\ \A v : Cardinality(Places(v, Sorted(g), n)) = Cardinality(Places(v, g, n))
  BY <1>1, SortedIs
<1>6. /\ Sorted(w) \in [1..m -> Nat] /\ Ascending(Sorted(w), m)
      /\ \A v : Cardinality(Places(v, Sorted(w), m)) = Cardinality(Places(v, w, m))
  BY <1>1, SortedIs
<1>7. ASSUME Sorted(g) = Sorted(w)
      PROVE  \A v \in Nat : Occurrences(v, got) = Occurrences(v, want)
  <2>1. 1..n = 1..m
    BY <1>5, <1>6, <1>7
  <2>2. \A v : Places(v, Sorted(g), n) = Places(v, Sorted(w), m)
    BY <1>7, <2>1 DEF Places
  <2> QED
    BY <1>3, <1>4, <1>5, <1>6, <2>2
<1>8. ASSUME \A v \in Nat : Occurrences(v, got) = Occurrences(v, want)
      PROVE  Sorted(g) = Sorted(w)
  <2>1. \A v \in Nat : Cardinality(Places(v, Sorted(g), n)) = Cardinality(Places(v, Sorted(w), m))
    BY <1>3, <1>4, <1>5, <1>6, <1>8
  <2> DEFINE a == Sorted(g)
             b == Sorted(w)
  <2>2. a \in [1..n -> Nat] /\ Ascending(a, n) /\ b \in [1..m -> Nat] /\ Ascending(b, m)
    BY <1>5, <1>6
  <2>3. \A v \in Nat : Cardinality(Places(v, a, n)) = Cardinality(Places(v, b, m))
    BY <2>1
  <2> HIDE DEF a, b
  <2>4. a = b
    BY <1>1, <2>2, <2>3, SortedUnique
  <2> QED
    BY <2>4 DEF a, b
<1> QED
  BY <1>2, <1>7, <1>8

----------------------------------------------------------------------------
(* DNS probes *)

\* What validation leaves of the options of a DNS target.
DNSOptions(o) ==
    /\ o.qtype \in {"", "A", "AAAA", "CNAME"}
    /\ o.server.host # "name"
    /\ IsRecords(o.expected)

\* validateByType and validateDNSServer (config.go:1057-1086) see to that.
LEMMA ValidDNSOptions ==
    ASSUME NEW f \in Files, NEW h \in Hosts, Accepted(f, h), NEW i \in DOMAIN f.targets,
           Loaded(f, h, i).type = "dns"
    PROVE  DNSOptions(Loaded(f, h, i).opts)
<1> DEFINE d == applyDefaults(f)
           s == f.targets[i]
           t == targetDefaults(f.agent, s)
<1>1. Loaded(f, h, i).opts = t.opts /\ Loaded(f, h, i).type = t.type
  BY DEF Loaded
<1>2. DOMAIN d.targets = DOMAIN f.targets /\ d.targets[i] = t
  BY AgentDefaults
<1>3. validateTarget(t, d)
  BY <1>2 DEF Accepted, validate
<1>4. s \in TargetConfig
  BY FileTargets
<1>5. t.type = s.type
  BY <1>4, TargetDefaults
<1>6. s.type = "dns"
  BY <1>1, <1>5
<1>7. t.opts = s.opts
  BY <1>4, <1>6 DEF targetDefaults, TargetConfig
<1>8. IsRecords(s.opts.expected)
  BY <1>4, AreRecords DEF TargetConfig, ProbeOptions
<1> HIDE DEF t, d, s
<1>9. t.opts.qtype \in {"", "A", "AAAA", "CNAME"} /\ validateDNSServer(t.opts.server)
  BY <1>3, <1>5, <1>6 DEF validateTarget, validateProbeOpts, validateByType
<1>10. t.opts.server.host # "name"
  <2>1. NoAddress.host = "" /\ "name" \notin IPs
    BY DEF NoAddress, IPs
  <2> QED
    BY <1>9, <2>1 DEF validateDNSServer
<1> QED
  BY <1>1, <1>7, <1>8, <1>9, <1>10 DEF DNSOptions

\* The latest DNS probe is one of a target that validation has accepted.
DNSInv ==
    dns # Nil =>
        /\ dns.answer \in Answers
        /\ Fits(dns.answer, dns.opts)
        /\ DNSOptions(dns.opts)
        /\ dns.result = probeDNS(dns.opts, dns.answer)

\* The records of an answer that DNSProber.resolve returns (dns.go:120-164): as
\* many of each value as the answer has, without the root.
LEMMA ResolvedRecords ==
    ASSUME NEW a, IsRecords(a.records), NEW o, Fits(a, o),
           NEW q, q = "CNAME" <=> o.qtype = "CNAME"
    PROVE  LET got == resolve(q, a.records)
               named == {x \in Values(a.records) : x.val # 0} IN
           /\ IsRecords(got)
           /\ got # <<>> <=> named # {}
           /\ got # <<>> => /\ named = Values(a.records)
                            /\ \A v : Occurrences(v, got) = Occurrences(v, a.records)
<1> DEFINE r == a.records
           got == resolve(q, r)
           named == {x \in Values(r) : x.val # 0}
           l == Len(r)
<1>2. /\ l \in Nat /\ DOMAIN r = 1..l /\ \A i \in 1..l : r[i].val \in Nat
      /\ r = <<>> <=> l = 0
  BY DEF IsRecords
<1> HIDE DEF l
<1>3. CASE q # "CNAME"
  <2>1. got = r
    BY <1>3 DEF resolve
  <2>2. \A x \in Values(r) : x.val # 0
    BY <1>3 DEF Fits
  <2>3. named = Values(r) /\ (r # <<>> <=> Values(r) # {})
    <3>1. r # <<>> <=> DOMAIN r # {}
      <4>1. (l # 0 => 1 \in 1..l) /\ (l = 0 => 1..l = {})
        BY <1>2
      <4> QED
        BY <1>2, <4>1
    <3>2. Values(r) # {} <=> DOMAIN r # {}
      BY DEF Values
    <3> QED
      BY <2>2, <3>1, <3>2
  <2> QED
    BY <2>1, <2>3
<1>4. CASE q = "CNAME"
  <2>1. l <= 1
    BY <1>4 DEF Fits, l
  <2>2. CASE \A x \in Values(r) : x.val = 0
    <3>1. got = <<>>
      BY <1>4, <2>2 DEF resolve
    <3>2. named = {} /\ IsRecords(<<>>)
      BY <2>2 DEF IsRecords
    <3> QED
      BY <3>1, <3>2
  <2>3. CASE ~ \A x \in Values(r) : x.val = 0
    <3>1. PICK j \in DOMAIN r : TRUE
      BY <2>3 DEF Values
    <3>2. DOMAIN r = {1}
      BY <1>2, <2>1, <3>1
    <3>3. Values(r) = {r[1]} /\ r[1].val # 0 /\ r[1].val \in Nat
      BY <1>2, <2>3, <3>2 DEF Values
    <3> DEFINE e == [r[1] EXCEPT !.form = IF @ = "dotted" THEN "plain" ELSE @]
    <3>4. got = <<e>>
      BY <1>4, <2>3, Zenon DEF resolve
    <3>5. e.val = r[1].val
      OBVIOUS
    <3> HIDE DEF e
    <3>6. Len(got) = 1 /\ DOMAIN got = 1..1 /\ got[1] = e /\ got # <<>>
      BY <3>4
    <3>7. IsRecords(got)
      BY <3>3, <3>5, <3>6 DEF IsRecords
    <3>8. named = Values(r)
      BY <3>3
    <3>9. \A v : {i \in DOMAIN got : got[i].val = v} = {i \in DOMAIN r : r[i].val = v}
      BY <3>2, <3>5, <3>6
    <3>10. \A v : Occurrences(v, got) = Occurrences(v, r)
      BY <3>9 DEF Occurrences
    <3> QED
      BY <3>3, <3>6, <3>7, <3>8, <3>10
  <2> QED
    BY <2>2, <2>3
<1> QED
  BY <1>3, <1>4

\* A record of a sequence occurs in it.
LEMMA HasOccurrence ==
    ASSUME NEW s, IsRecords(s), NEW x \in Values(s)
    PROVE  x.val \in Nat /\ Occurrences(x.val, s) # 0
<1> DEFINE P == {i \in DOMAIN s : s[i].val = x.val}
<1>1. Len(s) \in Nat /\ DOMAIN s = 1..Len(s) /\ \A i \in DOMAIN s : s[i].val \in Nat
  BY DEF IsRecords
<1>2. PICK i \in DOMAIN s : x = s[i]
  BY DEF Values
<1>3. x.val \in Nat
  BY <1>1, <1>2
<1>4. IsFiniteSet(1..Len(s))
  BY <1>1, FS_Interval
<1>5. P \in SUBSET (1..Len(s)) /\ i \in P
  BY <1>1, <1>2
<1> HIDE DEF P
<1>6. IsFiniteSet(P) /\ P # {}
  BY <1>4, <1>5, FS_Subset
<1>7. Cardinality(P) # 0
  BY <1>6, FS_EmptySet
<1> QED
  BY <1>3, <1>7 DEF P, Occurrences

\* r is the right result of a probe with options o that got answer a.
Verdict(r, o, a) ==
    LET named == {x \in Values(a.records) : x.val # 0} IN
    /\ r.lookups = 1
    /\ r.success <=> ~r.err
    /\ r.success => named # {} /\ (o.expected = <<>> \/ r.matched)
    /\ r.matched <=> /\ o.expected # <<>> /\ named # {} /\ ~a.err
                     /\ \A x \in named \union Values(o.expected) :
                          /\ x.val # 0
                          /\ Occurrences(x.val, a.records) = Occurrences(x.val, o.expected)

\* What DNSProber.Probe (dns.go:32-85) makes of an answer.
LEMMA ProbedVerdict ==
    ASSUME NEW o, DNSOptions(o), NEW a \in Answers, Fits(a, o)
    PROVE  Verdict(probeDNS(o, a), o, a)
<1> DEFINE q == OrElse(o.qtype, "", "A")
           got == resolve(q, a.records)
           want == o.expected
           named == {x \in Values(a.records) : x.val # 0}
           r == probeDNS(o, a)
           same == matchExpected(got, want)
<1>1. q \in {"A", "AAAA", "CNAME"} /\ (q = "CNAME" <=> o.qtype = "CNAME")
  BY DEF DNSOptions, OrElse
<1>2. a.err \in BOOLEAN /\ IsRecords(a.records)
  BY AnswersAssumption, AreRecords
<1>3. /\ r.lookups = buildResolver(o.server)
      /\ r.matched = (~a.err /\ want # <<>> /\ got # <<>> /\ same)
      /\ r.success = (~a.err /\ got # <<>> /\ (want # <<>> => same))
      /\ r.err = (a.err \/ got = <<>> \/ (want # <<>> /\ ~same))
  BY <1>1 DEF probeDNS
<1> HIDE DEF q, r
<1>4. /\ IsRecords(got)
      /\ got # <<>> <=> named # {}
      /\ got # <<>> => /\ named = Values(a.records)
                       /\ \A v : Occurrences(v, got) = Occurrences(v, a.records)
  BY <1>1, <1>2, ResolvedRecords
<1>5. same <=> \A v \in Nat : Occurrences(v, got) = Occurrences(v, want)
  BY <1>4, MatchExpected DEF DNSOptions
<1> HIDE DEF got, same
<1>6. ASSUME got # <<>>
      PROVE  same <=> \A x \in named \union Values(want) :
                        x.val # 0 /\ Occurrences(x.val, a.records) = Occurrences(x.val, want)
  <2>1. named = Values(a.records) /\ \A x \in Values(a.records) : x.val # 0
    BY <1>4, <1>6
  <2> HIDE DEF named
  <2>2. \A v : /\ v \notin {x.val : x \in Values(a.records)} => Occurrences(v, a.records) = 0
               /\ v \notin {x.val : x \in Values(want)} => Occurrences(v, want) = 0
    <3> TAKE v
    <3>1. v \notin {x.val : x \in Values(a.records)} =>
             {i \in DOMAIN a.records : a.records[i].val = v} = {}
      BY DEF Values
    <3>2. v \notin {x.val : x \in Values(want)} => {i \in DOMAIN want : want[i].val = v} = {}
      BY DEF Values
    <3> QED
      BY <3>1, <3>2, FS_EmptySet DEF Occurrences
  <2>3. \A x \in Values(want) : x.val \in Nat /\ Occurrences(x.val, want) # 0
    BY HasOccurrence DEF DNSOptions
  <2>4. \A x \in Values(a.records) : x.val \in Nat /\ Occurrences(x.val, a.records) # 0
    BY <1>2, HasOccurrence
  <2>5. ASSUME same
        PROVE  \A x \in named \union Values(want) :
                 x.val # 0 /\ Occurrences(x.val, a.records) = Occurrences(x.val, want)
    <3> TAKE x \in named \union Values(want)
    <3>1. x.val \in Nat
      BY <2>1, <2>3, <2>4
    <3>2. Occurrences(x.val, a.records) = Occurrences(x.val, want)
      BY <1>4, <1>5, <1>6, <2>5, <3>1
    <3>3. x \in Values(want) => Occurrences(x.val, a.records) # 0
      BY <2>3, <3>2
    <3>4. x.val # 0
      BY <2>1, <2>2, <3>3
    <3> QED
      BY <3>2, <3>4
  <2>6. ASSUME \A x \in named \union Values(want) :
                 x.val # 0 /\ Occurrences(x.val, a.records) = Occurrences(x.val, want)
        PROVE  same
    <3>1. \A v \in Nat : Occurrences(v, a.records) = Occurrences(v, want)
      BY <2>1, <2>2, <2>6
    <3> QED
      BY <1>4, <1>5, <1>6, <3>1
  <2> QED
    BY <2>5, <2>6
<1>7. r.lookups = 1
  BY <1>3 DEF DNSOptions, buildResolver
<1>8. /\ r.success <=> ~r.err
      /\ r.success => got # <<>> /\ (want = <<>> \/ r.matched)
      /\ r.matched <=> want # <<>> /\ got # <<>> /\ ~a.err /\ same
  BY <1>2, <1>3
<1> QED
  BY <1>4, <1>6, <1>7, <1>8 DEF Verdict, r

\* A DNS probe measures one query (buildResolver asks a literal server
\* directly), and its verdict is that of the multisets (dns.go:32-192): for
\* every file that validation accepts and every answer.
THEOREM DeploymentDNSVerdict == Spec => []DNSVerdict
<1>1. Init => DNSInv
  BY DEF Init, DNSInv
<1>2. DeploymentInv /\ DNSInv /\ [Next]_vars => DNSInv'
  <2> SUFFICES ASSUME DeploymentInv, DNSInv, [Next]_vars PROVE DNSInv'
    OBVIOUS
  <2>1. ASSUME NEW n \in DOMAIN running, NEW a \in Answers, ProbeDNS(n, a) PROVE DNSInv'
    <3> DEFINE o == running[n].opts
    <3>1. /\ agent = "up" /\ running[n].type = "dns" /\ Fits(a, o)
          /\ dns' = [opts |-> o, answer |-> a, result |-> probeDNS(o, a)]
      BY <2>1 DEF ProbeDNS
    <3>2. file \in Files /\ host \in Hosts /\ Accepted(file, host)
      BY <3>1 DEF DeploymentInv, TypeInv, RunningInv
    <3>3. PICK i \in DOMAIN file.targets : SameTarget(running[n], Loaded(file, host, i))
      BY <3>1, RunningTarget
    <3>4. Loaded(file, host, i).type = "dns" /\ Loaded(file, host, i).opts = o
      BY <3>1, <3>3 DEF SameTarget
    <3>5. DNSOptions(o)
      BY <3>2, <3>4, ValidDNSOptions
    <3> HIDE DEF o
    <3>6. dns'.opts = o /\ dns'.answer = a /\ dns'.result = probeDNS(o, a)
      BY <3>1
    <3> QED
      BY <3>1, <3>5, <3>6 DEF DNSInv
  <2>2. CASE dns' = dns \/ dns' = Nil
    BY <2>2 DEF DNSInv
  <2>3. CASE ~ \E n \in DOMAIN running, a \in Answers : ProbeDNS(n, a)
    <3>1. dns' = dns \/ dns' = Nil
      BY <2>3 DEF Next, vars, Start, RecordDNS, Ended, Reload
    <3> QED
      BY <2>2, <3>1
  <2> QED
    BY <2>1, <2>3
<1>3. DNSInv => DNSVerdict
  <2> SUFFICES ASSUME DNSInv, dns # Nil PROVE DNSVerdict
    BY DEF DNSVerdict
  <2> DEFINE o == dns.opts
             a == dns.answer
  <2>1. /\ a \in Answers /\ Fits(a, o)
        /\ DNSOptions(o)
        /\ dns.result = probeDNS(o, a)
    BY DEF DNSInv
  <2> HIDE DEF o, a
  <2>2. Verdict(probeDNS(o, a), o, a)
    BY <2>1, ProbedVerdict
  <2>3. Verdict(dns.result, dns.opts, dns.answer)
    BY <2>1, <2>2 DEF o, a
  <2> QED
    BY <2>3, Zenon DEF Verdict, DNSVerdict
<1> QED
  BY <1>1, <1>2, <1>3, DeploymentInvariant, PTL DEF Spec
=============================================================================
