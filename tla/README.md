# A TLA+ development of NetSonar

NetSonar is a network-probing agent: it reads a YAML configuration, runs one
goroutine per target that probes it periodically (TCP, HTTP, HTTP body, ICMP,
MTU, DNS, TLS certificate, proxy CONNECT), and exports the results as
Prometheus series.  It reloads its configuration on SIGHUP and stops on
SIGTERM or SIGINT.

This directory models the parts of it whose correctness depends on
interleavings, deadlines, lost or late messages and partial failure, checks
them with TLC and proves with TLAPS that the scheduler is safe and implements
its abstract specification, that the agent keeps what it runs and what it
reports together, that running probes follow the configuration file through any
reloads, that a dial fails only when it had to, that the proxy path closes its
connections, sends clean requests and mixes no hops, that the phases and verdicts
of direct HTTP probes are complete, and that ICMP and MTU results are true of the
network.
`PROJECT.json` lists the components, runs, mutants, findings, hazards and
theorems, and maps each definition to the lines it models.  Paths below are
relative to the repository.

## 1. Inventory

| Component | State | Operations | Talks to |
|---|---|---|---|
| Scheduler, `internal/scheduler` | `probes` (name → cancel, done, config), a goroutine, context and ticker per target, `wg` | `Start`, `Reload` (diff), `Stop`, `runProbeLoop`, `executeProbe` | called by the agent; calls probers and the exporter |
| Agent process, `cmd/agent` | configuration, startup-only fields, signal channel (capacity 1), server error channel, log level | startup, `handleReload`, `shutdown`, `newHTTPServer` | scheduler, exporter, operating system |
| Metrics exporter, `internal/metrics` | a vector of series per metric family | `EnsureTarget`, `Record`, `IncrSkippedOverlap`, `DeleteTarget`, `SetConfigInfo`, `SetTargetsTotal` | called by scheduler and agent, read by scrapes |
| Configuration, `internal/config`, `internal/proxyurl` | none; what it returns is kept by the agent and the loops | `LoadConfig`: defaults, validation, proxy registry and credentials, `CollectTagKeys`; `ComputeHash`, `HashTarget`, `Equal` | agent, scheduler, doctor |
| TCP prober and dialer, `probe/tcp.go`, `probe/prober.go` | two dial workers, a results channel | `dialTCPWithSplitPhases`, `dialTCPHappyEyeballs` | also used by `tls_cert` |
| ICMP prober, `probe/icmp.go` | one socket, echo counters | `runICMPEchoSequence`, `sendEcho` | network |
| MTU prober, `probe/mtu.go`, `mtu_backend_linux.go` | attempts per size, socket and its error queue | `Probe`, retries, classification | network |
| HTTP and HTTP body probers, `probe/http.go`, `http_body.go`, `http_trace.go` | one set of trace timestamps (direct), request of the current hop (proxy) | direct route (net/http with httptrace callbacks), proxy route with redirects | proxy path |
| Proxy path and tunnel, `probe/http_proxy_path.go`, `proxy_tunnel.go`, `proxy.go` | one connection, its deadline, phases | dial, TLS, CONNECT, exchange, close | HTTP, TLS certificate and CONNECT probers |
| TLS certificate prober, `probe/tls_cert.go` | none beyond a connection | direct and proxy route | dialer, tunnel |
| DNS prober, `probe/dns.go`, `resolver.go` | none | choice of the resolver, lookup, comparison with `dns_expected` | network |
| Doctor, `internal/doctor` | none | checks of credentials, listen address, ping groups and sockets, name servers | configuration, operating system |
| configmerge, e2e lab | none | one-shot | – |

Interactions: the agent's main goroutine is the only caller of `Start`,
`Reload` and `Stop`.  Probe goroutines run concurrently with it, with each
other and with scrapes.  They share the exporter's vectors, and are told to
stop by a context and waited for by a done channel (`Reload`) or a wait group
(`Stop`).

What is hard, and what correctness means:

* **Scheduler.** `Reload` cancels, deletes series, then waits; the cancelled
  goroutine may be anywhere.  There must never be two loops for one target, no
  loop may be orphaned, unchanged targets must not be disturbed, a returned
  call must run exactly the configuration, `Reload` and `Stop` must return,
  and deleted targets must stay deleted in `/metrics`.
* **Agent.** Signals arrive while a reload runs; the channel holds one; a
  reload has several refusals; the server can fail at any time.  What runs and
  what is reported must come from one configuration; no signal may be lost.
* **Metrics.** About twenty families per target, each set or deleted by what a
  result observed, one vector at a time while scrapes read them.  `/metrics`
  must show exactly the latest observation, never a mixture of two.
* **Configuration.** A target inherits intervals, timeouts and resolvers from
  the agent section and an endpoint and secrets from the proxy registry; after
  any number of reloads every loop must probe with what the file means now, a
  loop whose meaning did not change must not be restarted, and an accepted file
  must not take the agent down, neither at startup nor in a reload.
* **Doctor.** It re-derives what the agent will need; the two can drift apart.
* **DNS.** Answers come in any order, case, number and writing.
* **MTU, ICMP.** Packets are lost, late and duplicated, several deadlines
  nest.  A reported MTU must be real, a loss must be relative to what was
  sent, and a probe cut short must not look like a completed one.
* **Dialer.** Two workers race.  The winner must stay open, the loser must be
  closed, one failing family must not hide the other.
* **Direct HTTP.** Callbacks run on the transport's goroutines, some of them
  after the hop they belong to, and all hops of a redirect chain write the same
  timestamps.  Phases must not overlap and must be complete, a verdict must be
  about the whole body, and the probe must return when nobody answers.
* **Proxy path.** Ownership of a connection moves through four functions with
  an error path at each step, deadlines are set, cleared and set again, and a
  redirect chain rebuilds the request at each hop.

## 2. Modules

| Module | Models | Extended by |
|---|---|---|
| `TargetSet` | what the scheduler promises its caller | instantiated by `Scheduler` |
| `Scheduler` | `scheduler.go`, and the part of the exporter and of `hash.go` it relies on | `MCScheduler`, `SchedulerProofs` |
| `Agent` | `cmd/agent/main.go` | `MCAgent`, `AgentProofs` |
| `Metrics` | `metrics.go`, every call one step | `Exposition` |
| `Exposition` | `metrics.go`, one vector operation at a time | `MCExposition`, `AgentProofs` |
| `Config` | `config.go`, `hash.go`, `proxyurl.go` | `DNS`, `Doctor` |
| `DNS` | `dns.go`, `resolver.go` | `Deployment` |
| `Doctor` | `doctor.go` | `Deployment` |
| `Deployment` | a file and a host over time: start, reload, probe | `MCDeployment`, `DeploymentProofs` |
| `ProberOptions` | the options the next four are given, with their assumptions | `MTU`, `ICMP`, `Dial`, `ProxyPath` |
| `MTU` | `mtu.go`, `mtu_backend_linux.go` | `MTUProofs`, `MCProbers` |
| `ICMP` | `icmp.go` | `ICMPProofs`, `MCProbers` |
| `Dial` | `prober.go` (dialing), `tcp.go` | `DialProofs`, `MCProbers` |
| `HTTPDirect` | the direct routes of `http.go`, `http_body.go`, and `http_trace.go` | `HTTPDirectProofs` |
| `ProxyPath` | `http_proxy_path.go`, `proxy_tunnel.go`, `proxy.go` and the proxy routes of `http.go`, `http_body.go`, `tls_cert.go` | `ProxyPathProofs`, `MCProbers` |

`Agent` abstracts the scheduler to the target list it runs; that a returned
`Reload` runs exactly that list and that `Reload` and `Stop` return is what
`Scheduler` shows.  `Scheduler` abstracts a probe to a step that ends or is
discarded; that every probe ends is `MTUReturns`, `ICMPReturns`, `Settles`,
`ProxyReturns` and `Terminates` of the probers' modules.  `Scheduler` keeps only
which configuration wrote a series last; which series a result leads to is
`Metrics`.  `Agent` and `Scheduler` take configurations as given;
`Deployment` has them in full and takes a load as one step.

**TargetSet.** A set of targets is probed and a call replaces it: unwanted
targets end first, wanted ones are never interrupted, new ones begin when
nothing unwanted is left.  `Scheduler` implements it with the mapping
`CallMode` (of `pcMain`), `Hashed(config)` (targets compared as
`TargetConfig.Equal` does) and `Probed` (loops that have not closed their done
channel).

**Scheduler.** A goroutine identity is one run of `runProbeLoop`.  Its program
counter follows the code: `jitter`, `exec`, `probe`, `record`, `drain`,
`select`, `close` (the deferred `close(done)`), `wgDone`.  `executeProbe` is
split at the points where another goroutine can act in a way that matters:
`ExecuteSkip`/`ExecuteBegin` (the first context check), `ProbeKeep`/
`ProbeDiscard` (the probe and the second check), `Record`.  `Reload` is split
into the diff (`Reload`), then per target `cancelTarget` and `DeleteTarget`,
then `WaitDone`, `startTarget` and `StartDone`.  The ticker buffers one tick.

**Agent.** `pc` is where `run` is; `handleReload` is `ReloadLoad`,
`ReloadReject`/`ReloadAccept`, `ReloadLevel`, `SetConfigInfoReset`,
`SetConfigInfo`, `SetTargetsTotal`.  A configuration is a record of the
startup-only fields, the targets and the log level.  History variables:
`startFile`, `rejected`, `hupDue`, `termSent`.

**Metrics, Exposition.** A series is a family, a label key, a sub-label and the
origin of its value.  In `Metrics` every exporter call is one action, and
`NewMetricsExporter` registers the vectors for a set of tag keys.  In
`Exposition` `Record`, `EnsureTarget` and `DeleteTarget` are the sequences of
`Set` and `Delete` operations of the code, performed one at a time and
interleaved between goroutines; the order in which `Record` ranges over its map
of phases is any.  A scrape reads each vector under its lock, so what it can see
is the state between two operations.  `Exposition` implements `Metrics`: its
refinement mapping is the series once the calls under way have ended.
`DeleteBegin` is the code's handler, which waits for nobody; the steps of
`Exposition` take it only as `DeleteUndisturbed`, when no `Record` of that target
is under way.  The scheduler does not guarantee that, and what happens without it
is what `scheduler_stale_series` shows: the properties of `Exposition` are about
the other interleavings.

**Config, DNS, Doctor, Deployment.** `LoadConfig` keeps no state, so `Config`
is operators on a parsed file and a host: defaults, every check of `validate`,
the resolution of proxies and credential sources, the hash and `Equal`.  Texts
are well formed or not; addresses are what `net.SplitHostPort` and
`net.ParseIP` find in them.  `DNS` has the choice of the resolver and the
comparison of answers, `Doctor` its checks with their severities.  `Deployment`
is the state machine over them: `Start` (load, register, start, listen, and the
calls of that path that panic), `Reload` after any edit of the file, the secrets
or the host, `ProbeDNS`.  `Panics` lists the panics of the startup path: a vector
with a label twice or with a label that the client library reserves
(`ReservedLabels`), `ServeMux.Handle` on a path that is malformed or, once its
escapes are undone (`Unescape`), registered already, and `TargetPanics`, the ones
of a loop that is started, which a reload can meet too.

**MTU.** `limit` and `local` are the path's and the interface's true limits,
so that a report can be compared with the truth.  The socket is `sent` (what
may be answered) and the events of the error queue.

**ICMP.** Discrete time; the clock moves only when the prober waits.

**Dial.** `primary` and `fallback` workers, each an address list, and the
receiving loop of `dialTCPHappyEyeballs`.

**HTTPDirect.** One probe; `ts` are the shared timestamps, `late` the callbacks
the transport still owes.  A callback is an action that sets its timestamp;
when `client.Do` moves on or returns, callbacks that the transport runs on other
goroutines (the losing dial of a dual-stack race, `WroteRequest`) become late and
may come at any time after.  The history variable `raced` says that one did.
What net/http does is external, modelled from the callbacks the code registers.

**ProxyPath.** One probe from dial to return.  A call that waits for a peer
can be answered, fail, or be interrupted: by the context for dials and
handshakes, by the connection's deadline for reads and writes.  The body that
`http.ReadResponse` returns is external: its `Close` reads a chunked or
length-delimited body of a keep-alive response to the end (`reply.drain`).

## 3. Runs

| Run | Instance | Shows |
|---|---|---|
| `scheduler_lifecycle` | two names, one with a relabelled variant, three goroutines | one loop per target, gauges match the running targets, only running targets write series between calls, and the scheduler implements `TargetSet` |
| `scheduler_reload` | one name: base, changed option, rotated secret; two goroutines | a returned call runs the configuration up to `Equal`, unchanged loops are not cancelled, `Start`, `Reload` and `Stop` return, every running target is reported or stopped |
| `agent` | five files (invalid, base, new targets, other tag keys, other address), with and without `--listen-addr` | after any sequence of edits, signals, failures and scrapes targets, level, hash and count come from one configuration; exit code 0 is a clean end; a SIGHUP leads to a reading of the file; a server error ends the process |
| `metrics_scrape` | all probe types, up to two targets at once, one name through several proxies and labels | no scrape sees a family mixed of two results or misses a series that stays; the interleaved operations implement `Metrics`, and `/metrics` is then exactly what the latest results observed |
| `probers` | MTU: three sizes, the default number of attempts, six limits; ICMP: four echoes, a deadline one interval after the last one is due; TCP: one and two families, in either order; proxy: four probers, plain and TLS proxy, three hops | MTU: the reported MTU, state and detail are true; ICMP: replies belong to their echo, loss is relative to what was sent, the probe keeps its timeout; TCP: the winner stays open, failure is complete, everything is closed in the end; proxy: connections closed, requests of redirect chains clean, CONNECT status and phases of the right hop; every probe returns although the network or its peers stall |
| `http_direct` | both probers, two hops, literal, single- and dual-stack names, bodies around the limit | phases are disjoint and those the last hop went through complete and its own, verdicts are about whole bodies, the probe returns |
| `deployment` | files that differ from a valid one of each probe type in one field, with secrets and hosts that lack one thing, reloaded from any to any | no reload takes the agent down, loops follow the file and are otherwise left alone, doctor agrees with the agent, DNS verdicts are right |

The five other runs (`scheduler_stale_series`, `agent_reject`, `agent_term`,
`http_last_hop`, `deployment_panic`) show where the code and what is written
about it disagree (section 6).  They use the instances of the runs above.

Probers share no state, so a behaviour of `probers` is one probe, of the kind
`kind` chooses: `Next` takes the steps of that module only.

**Bounds.** `Gids` bounds how many loops exist at once; three let a target be
replaced while another runs and an old goroutine still has to run `wg.Done`.
Between them the two runs cover every way two configurations can differ for the
diff: absent, equal, relabelled, changed without relabelling, changed only in
what the hash leaves out; the theorems hold for every set of targets.
`MaxScrapes` = 1 is enough for a scrape to overlap each step.  `MaxActive` = 2
and `MaxRecording` = 2 let one target's `Record` or deletion meet another's, and
one name is re-created with other labels; `Together` lets every target run alone
and one pair run together; `MaxOverlap` = 1 tells a counter that is
initialised from one that has counted.  The MTU limits
are below the sanity echo, at, between and above the sizes.  The ICMP deadline
falls one interval after the last echo is due, so replies can delay the later
echoes past it and losses at every position occur.  Three
hops are the shortest chain in which a 303 is followed by a 307 and the scheme
changes twice; the code's limit is 10, and `ProxyConnectionsClosed` is proved
for every limit.  Two hops are the shortest direct chain in which timestamps of
one hop meet those of another; `BodyLengths` is below, at and above
`BodyLimit`.  The limits of `Config` (tags, tag keys, proxies, body bytes) are 2,
and files have values below, at and above them; a DNS answer has up to three
records of two values, enough for duplicates on either side.

**Symmetry.** Goroutine identities are interchangeable (no property and no
assumption names one); the safety runs of `Scheduler` use that, the liveness
run does not.

**Fairness**, and why the code justifies it:

* `Scheduler`: weak fairness of the main goroutine, of each loop and of its
  ticker (runnable goroutines run, timers fire, probers return); strong
  fairness of `SelectDone`, because Go's `select` picks at random among ready
  cases and a cancelled context stays ready.
* `Agent`: weak fairness of the process's own steps; strong fairness of each
  case of its `select`.  Nothing is assumed of operators, scrapes or signals.
* `MTU`: weak fairness of the prober's steps and of the attempt's timer; none
  for messages or the error queue.
* `ICMP`: weak fairness of the prober; strong fairness of the clock, which is
  stopped while the prober has something to read, because stray packets do not
  arrive without a pause forever.
* `Dial`: weak fairness of the workers, the receiver, the closing goroutine
  and the context's deadline.
* `HTTPDirect`: weak fairness of the prober's own steps, of the timeout, and of
  `client.Do` and a read of the body once the context has ended.  The transport
  and the peer owe nothing, late callbacks included.
* `ProxyPath`: weak fairness of the timeout, and of a call's return only once
  it is interrupted or has nothing to wait for.  Peers may stall forever.

`Agent` and the scheduler never deadlock; models of one probe end in a state
that stutters explicitly, so deadlock is checked in every run.

## 4. Proofs

`SchedulerProofs`, `AgentProofs`, `DeploymentProofs`, `ProxyPathProofs`,
`HTTPDirectProofs`, `DialProofs`, `ICMPProofs` and `MTUProofs` are checked by
TLAPS.  They hold for every value of the constants and rest on the named
assumptions of the modules:

* `Scheduler`: targets are records with the four fields, `None` is neither a
  target nor a goroutine, the jitter is a number;
* `Agent`: files are records, or `Invalid`, which no file with another listen
  address is (`FilesAssumption`), `Unset` is neither a file nor an exit code
  (`UnsetAssumption`), the bound on scrapes is a number (`ScrapeAssumption`);
* `Metrics` and `Exposition`: targets have one of the eight probe types and a
  label key that is not empty (`TargetsAssumption`), results have the stated
  fields (`ResultsAssumption`), no more targets are active together than
  `MaxActive` (`TogetherAssumption`, `ActiveAssumption`);
* `ICMP`: count, interval and timeout are at least one (`PingAssumption`);
* `MTU`: the sizes are positive and descending, as `validateICMPPayloadSizes`
  demands (`SizesAssumption`), limits are numbers (`MTUAssumption`);
* `Dial`: the families are disjoint and `None` is no address
  (`FamiliesAssumption`), a list to dial is not empty (`ListsAssumption`);
* `ProxyPath` and `HTTPDirect`: the limits are numbers (`ProxyAssumption`,
  `LimitAssumption`);
* `Config` and `Deployment`: files and hosts are records of the stated types
  (`WellFormedAssumption`, `FilesAssumption`, `HostsAssumption`), answers are
  sequences of records (`AnswersAssumption`), `Nil` is no value
  (`NilAssumption`), and the health endpoints have no escapes to undo
  (`UnescapeAssumption`).  `ReservedLabels` and `Unescape`, which are the
  libraries', are not restricted otherwise.

*Lifecycle.* `OneLoopPerTarget` is not inductive: it does not say why the loop
`Reload` is about to start is the only one.  `LifecycleInv` adds who is
registered (`Registered`: an entry is a live, uncancelled loop of that name),
who is accounted for (`Accounted`: every live loop is registered, or cancelled
and in the set that is waited for), that what is to be started is free once the
wait is over (`StartsAreFree`) and that nothing is registered before `Start`
and after `Stop` (`EmptyRegistry`).  `LoopPreserves` shows that no step of a
probe loop disturbs it, `MainPreserves` that no step of a call does.
`Lifecycle`, `TypeCorrect`, `NoOverlappingLoops`, `NoOrphanedLoops` and
`StopLeavesNothing` follow.

*Reload.* `ReloadInv`, inductive together with `LifecycleInv`, says how far a
reload has come: what is still to stop runs and has no `Equal` target in the new
configuration, every other running target has one, every configured target runs
or is still to start (`DiffProgress`), and the configuration gauges describe the
registered targets and the one being deleted (`SeriesProgress`).  It gives
`ReloadPostcondition`, `SeriesFollowTargets` and the action properties
`UnchangedKeepRunning` and `QuiescentExporter`.

*Refinement.* `Implementation` states `Spec => ImplementsTargetSet`.  A loop
counts as probing until it closes its done channel: that step is the abstract
`Withdraw` or `EndOne`, `startTarget` is `Launch`, a call's entry and return
are `Apply` and `Applied`, and everything else stutters.  Two facts carry it.
What ends during a reload is unwanted (`CancelledUnwanted`: a live cancelled
loop has no `Equal` target in the new configuration), which is an invariant on
top of `LifecycleInv` and `ReloadInv`; and when the first new loop starts nothing
cancelled is alive, which is `WaitDone`'s guard kept by `LifecycleInv`.

*Proxy path.* `ConnectionsClosed` needs that no connection is open at a dial
(`OwnershipInv`); every return closes the current hop's connection, and a
redirect is followed only after `connBackedBody.Close`.  `ProxyInv` is about the
rest of the probe: which record each program point holds (`RecordsInv`), which
request is in force and that a rewritten one stays rewritten (`RequestInv`),
and from which hop the CONNECT status and the phases come (`ConnectInv`,
`PhasesInv`).  It gives `RedirectedRequestClean` and `HopsNotMixed`.

*Direct HTTP.* All hops write the same timestamps, so the phases of a response
are right only if those of earlier hops are older and each pair lies within one
hop.  `HTTPInv` says so for every set of timestamps a callback can leave behind
(`TraceInv`), unless one came out of order (`raced`), and what a result was
computed from (`ResultInv`).  `BodyVerdict`, `PhasesComplete` (of the phases the
last hop went through) and `PhasesDisjoint` follow for every redirect limit.

*Agent.* `Coherent` speaks of states in which the agent waits; between them a
reload passes through states in which it says nothing.  `AgentInv` adds what was loaded (`LoadedInv`: after
startup the configuration compared with is the startup file with the flag
applied, and what a reload works with is a valid file), how far a reload has
come (`ReloadingInv`: targets, level, hash and count follow the new file in the
order of `handleReload`, which has the same startup-only fields), and how far a
shutdown has come (`ShutdownInv`).

*Exposition.* `AgentProofs` also holds the proofs about the exporter, which is
part of the agent process.  Everything rests on what a sequence of vector
operations amounts to, whatever operations on other series come between: what it touches
(`TouchedBy`) and what it leaves set at its end (`Final`).  A first group of
lemmas computes both for `recordOps`, for every probe type, every result and
every order in which the map of phases is ranged over (`AfterRecord`), and shows
that `Metrics`' one-step `Record` does the same (`RecordedIs`).  `StepInv` is the
inductive invariant: active targets have different names (`Registered`), a
`Record` under way works on the result families of an active target only and
the main goroutine on a target that has no goroutine (`Goroutines`), so that no
two calls under way touch the same series (here `DeleteUndisturbed` is used), and the completed vectors hold exactly
the series of the active targets (`Exact`).  A single operation leaves
`Completed` as it is; a call's entry changes it as the one-step call does.  That
gives `ExactWhenDone` and, step by step, `ImplementsMetrics`: the entry of a call
is the abstract step, its operations stutter.  What a scrape reads before a call
has ended is `ScrapeInv`: of each family the vectors hold series of the latest
result only, or series of the one before that the rest of the `Record` removes
before it sets the first new one (`OneResult`, from `Covered`), and outside a
`Record` the two results are the same (`Before`).  It gives `NoMixedFamily` and
`NoGap`.

*Dial.* `WinnerStaysOpen` needs to know why the outcome that is received is
open: until a winner is taken nothing closes a connection, so what a worker is
about to send and what is in the results channel is open or an error
(`PendingOpen`), and a worker has a connection only once it has something to
send (`ConnectedSends`).  `FailureIsComplete` rests on `FailInv`: as long as no
connection was taken the open connections are the workers' (`OwnOpen`), a
worker gives up only after its last address or when the context ends
(`GiveUpLate`) and passes an address only after dialling it (`TryInOrder`), and
errors received plus outcomes in the channel are the workers that have ended
(`Counted`), so that when the last error is received no connection is left in
the channel.  That the two lists of `splitDialFamilies` hold all addresses
(`SplitKeepsAll`) is an induction over the list: `LeastNumber` and
`SetInduction` put a set in the place of the predicate that the library's
theorems take, and `KeptExists` shows that the recursive function exists.

*ICMP.* `LossOfSent` compares the result with the sets of written and answered
echoes.  `CountInv` keeps the counters with them: `sent` is the number of
written echoes, and `received` is at most the number of answered ones that the
sequence has left behind, so a late reply cannot be counted for a later echo.
`FaultFreeInv` says that without a socket error everything before the current
echo was answered, or the context has ended: a read ends early only at the
deadline all echoes share (`TimeInv`, which also gives `WithinTimeout`).

*MTU.* Every status recorded is true of the path: an attempt at a size succeeds
only if that size fits the path and the interface, because a reply's sequence
number is the size it was sent with and the sanity echo's is no size
(`SentInv`, `AttemptsTrue`); a too-large message, even one whose quote is
truncated and that belongs to another request, is about a configured size,
because the sanity size is known to fit by then; and the sizes tried before are
the larger ones (`PriorTrue`).  `ClassifyPayloadAttempts` shows that a verdict is
the status of one of the attempts.  `NeverOverestimates` and `DetailIsTrue`
follow.  `TimeoutsInv`, on top of it, counts the attempts at a size and says that
a timeout that was recorded had used all of them or the context had ended; it
gives `TimeoutsAreComplete`.

*Deployment.* `DeploymentInv` says that an agent that is up runs exactly the
targets of the latest accepted file, each with the hash it has there
(`RunningInv`), and why a process that is not up ended (`EndedInv`).  It rests on
lemmas about `LoadConfig`: which fields the defaults fill (`TargetDefaults`,
`LoadedFields`), what validation leaves (`ValidTargets`, `ValidProxies`,
`AcceptedTargetsSafe`), what a proxy resolves to (`ResolvedProxies`), and that
`Equal` compares everything but secrets (`EqualTargets`), so that a kept loop and
a restarted one mean the same (`LoadedMeaning`: intervals, resolver, payload
sizes, and the proxy's endpoint, `tls_skip_verify` and sources of credentials).
`ProbesFollowFile`, `DoctorSound` and the action properties
`UnaffectedKeepRunning` and `ReloadSurvives` follow.  That the startup path does
not panic is false (section 6); `DeploymentPanicCause` says what is true instead:
it panics only for a tag key that collides with a vector's label or is reserved
by the client library and is not in `FixedLabels`, or for a metrics path that
differs from a health endpoint only by its escapes (`PanicCause`), never for a
target, a proxy or a default.

*DNS verdicts.* `matchExpected` sorts both sides and compares them; `DNSVerdict`
says what that decides.  Every sequence of numbers can be sorted (`SortExists`,
by induction with `LeastNumber`: the least number first), sorting keeps how often
each number occurs (`SortedIs`, by the bijection), and two ascending sequences in
which each occurs equally often are the same, for otherwise the smaller number
at the first difference occurs more often in one of them (`FirstDifference`,
`SortedUnique`).  `DNSInv` says that the latest probe is one of options that
validation accepted, so that no lookup of the server's own name comes first.

`LifecycleInv`, `ReloadInv`, `NoOrphans`, `StopPostcondition` and the scheduler's
`TypeOK` are proved and no longer part of a run.

Only model-checked: all liveness properties (the prover does not treat
fairness).

## 5. Mutants

For every property of a passing run `PROJECT.json` names a variant of the code
that breaks it: a wait that is dropped, a close of the reader only, a deadline
that is not set again, a guard that is off by one.  The variants are the
operators marked as mutants, each before the definition it varies.

## 6. Where code and words disagree

Five runs end in a counterexample:

1. `scheduler_stale_series`: a result is recorded between `executeProbe`'s
   context check and a concurrent `DeleteTarget`, and stays in `/metrics`;
   `scheduler.go:121-123` says the check prevents it.  The overlap counter of a
   deleted target can come back in the same way, when the cancelled loop drains
   a stale tick (`scheduler.go:210`).
2. `agent_term`: a SIGTERM that arrives while a SIGHUP is queued is dropped;
   `main.go:115`, `README.md:505`.
3. `agent_reject`: `--listen-addr` is applied at startup only (`main.go:70-71`),
   so a reload (`main.go:175`) compares the file's address with the flag's, and
   unless the flag repeats the file every reload is rejected, that of an unchanged
   file included; `README.md:437-439` and `README.md:517` give a changed
   startup-only field as the reason of a rejection.
4. `http_last_hop`: the hops of a redirect chain write one set of timestamps, so
   `dns_resolve` or `tls_handshake` of an earlier hop is reported when the last
   hop needs none (a literal address, plain http); `http.go:264-266` says that the
   last hop wins, `docs/metrics-validation.md:162-163` that the phases reflect the
   last connection.  `PhasesComplete` holds: what the last hop did go through is
   its own.
5. `deployment_panic`: an accepted file makes the startup path panic.  The tag
   keys `phase`, `cert_index`, `cert_role`, `state` and `detail` are labels of some
   vectors and are not among the reserved names, and a key that begins with `__`
   is a label name that the client library refuses: `MustRegister` panics
   (`metrics.go:222`), although validation (`config.go:98-100`, `692-693`) is to
   keep both away.  A metrics path like `/health%7A` passes the comparison with
   `/healthz` (`config.go:641`), but `ServeMux` compares without the escapes and
   panics (`main.go:243`).

The models also have these behaviours, for which no run is kept:

* `MTU`: a size succeeds and `Success` is false, because of `expected_min_mtu`;
  `mtu.go:67` says one successful size is enough.
* `ICMP`: a cancelled probe stays in `ReadFrom` until its timeout, and reads and
  writes on the proxy path end by the connection's deadline only;
  `prober.go:200-202` asks probers to respect cancellation.
* `Dial`: the loser's connection may be closed after the prober has returned;
  `prober.go:202-203` asks for it to be closed before.
* `HTTPDirect`: when the context ends, `client.Do` returns without waiting for the
  transport, so that a phase that was reached may be absent; `prober.go:57-60`,
  `docs/metrics.md:312`.
* `HTTPDirect`: a response that precedes the end of the request's write, and the
  late `ConnectDone` of the losing dial, move a timestamp after its successor and
  phases overlap; `http.go:484-485` says they do not.  `PhasesDisjoint` holds of
  every probe without such a callback.
* `DNS`: a target without `dns_server` asks the system resolver whatever its
  `dns_resolver` is (`dns.go:45`, `dns.go:95-98`); `docs/metrics-validation.md:36`
  says that `probe_dns_resolve_seconds`, which only DNS probes set, then reflects
  the configured resolver.
* `ProxyPath`: closing a truncated response drains it (`reply.drain` at
  `"close"`), until the probe's timeout if it is a stream; `http.go:223-224`
  says the limit prevents that.
* `ProxyPath`: a header configured as `content-type` gets a second entry and
  either is sent (`cfg.ctype = "other"`); the direct route ignores case.

## 7. Not modelled

* configmerge, a one-shot file merger, and the e2e lab are outside the agent.
* RTT averages and deviations, durations, log output and the scheduler's log
  state, the printed doctor report and `--listen-addr` there, `--version`, the
  health handlers.
* YAML syntax, the text of URLs, regular expressions and error messages, and the
  order of the checks of `validate`, which only picks the message.
* The direct route of the TLS certificate prober, which is `Dial` followed by one
  handshake, and the fields read from a certificate.
* `response_body_limit_bytes` at the largest 64-bit value, where `limit + 1`
  overflows: the limits of `HTTPDirect` are small numbers.
* Pooled connections: the direct probers disable keep-alives (`http.go:110`,
  `http_body.go:97`), so a hop always dials.
* Branches a loaded configuration cannot reach: an empty list of payload sizes,
  an unparsable target URL or regular expression, a missing resolved proxy, an
  unsupported target scheme on the proxy path; the closed-channel branch of the
  server error case (`main.go:133-135`), which needs the server to end without
  an error while the loop still runs.
* `DeleteTarget` of a target whose `Record` is under way: `Exposition` leaves it
  out, because it is the case `scheduler_stale_series` shows (`DeleteUndisturbed`).
* A scrape between the `Reset` and the `Set` of `config_info` (`metrics.go:567`)
  reads neither; `Agent` has that state and no property forbids it.
* Doctor's branches for a hook that is not set (`doctor.go:207-210`, `255-258`),
  which are met only off Linux.
* The ICMP identifier is taken to be unique to the prober's socket.

## 8. Plan

Done, in this order: `Scheduler` and its proofs, `Agent`, `Metrics`, `MTU`,
`Dial`, `ICMP`, `ProxyPath` and the proof of its connection ownership;
`TargetSet` and the proof that `Scheduler` implements it; `Exposition`,
`HTTPDirect`, `Config`, `DNS`, `Doctor` and `Deployment`; the proofs about `Agent`,
`Dial`, `ICMP` and `MTU`; the proofs about requests and hops of `ProxyPath`,
timeouts of `MTU`, failures of `Dial`, `HTTPDirect` and `Deployment`; the proof
that `Exposition` implements `Metrics` and those of what a scrape reads; the
verdicts of DNS probes.  Every safety property of a passing run is now
stated by a theorem; what is left to TLC is liveness, and the five
counterexamples.
