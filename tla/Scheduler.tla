----------------------------- MODULE Scheduler -----------------------------
(***************************************************************************)
(* The probe scheduler (internal/scheduler/scheduler.go): one goroutine    *)
(* per target, started by Start, replaced by a diff-based Reload, and      *)
(* drained by Stop, together with the Prometheus series that the scheduler *)
(* makes the exporter create and delete (EnsureTarget, Record,             *)
(* IncrSkippedOverlap, DeleteTarget).                                      *)
(*                                                                         *)
(* The process that calls Start, Reload and Stop is the agent's main       *)
(* goroutine, so the three never overlap and s.mu is never contended; what *)
(* does interleave is that one caller with every probe goroutine.          *)
(*                                                                         *)
(* A goroutine id g \in Gids stands for one run of runProbeLoop.  It is    *)
(* free again once wg.Done has run: |Gids| bounds how many loops exist at  *)
(* the same time, counting those that still have to run wg.Done.           *)
(***************************************************************************)
EXTENDS Naturals, FiniteSets

CONSTANTS
    Targets,            \* the target configurations that can be loaded
    Gids,               \* identities of probe goroutines (bound)
    InitialProbeJitter, \* agent.initial_probe_jitter, 0 = no jitter
    None                \* "no goroutine", "no series", "no target"

\* A target's name, the values buildLabels exports for it (address, probe
\* type, proxy name, tags), the hashed options that are no label (timeout,
\* interval, probe_opts) and the resolved proxy secret, which json:"-" keeps
\* out of HashTarget.
ASSUME TargetsAssumption ==
    \A t \in Targets : DOMAIN t = {"name", "labels", "opts", "secret"}
ASSUME NoneAssumption == None \notin Targets /\ None \notin Gids
ASSUME JitterAssumption == InitialProbeJitter \in Nat

Names == {t.name : t \in Targets}

\* MetricsExporter.buildLabels: the identity of every per-target series.
buildLabels(t) == <<t.name, t.labels>>

LabelSets == {buildLabels(t) : t \in Targets}

\* A configuration accepted by config.validate: target names are unique.  It
\* may be empty.
Configs == {C \in SUBSET Targets : \A s, t \in C : s.name = t.name => s = t}

VARIABLES
    pcMain,     \* where the calling goroutine is
    config,     \* the configuration of the latest Start or Reload
    toStop,     \* Reload's targets still to be stopped
    toStart,    \* Start's or Reload's targets still to be started
    cur,        \* the target between cancel() and DeleteTarget, or None
    stoppedDone,\* goroutines whose done channel Reload collected
    probes,     \* s.probes: target name -> goroutine, or None
    pc,         \* where each probe goroutine is
    target,     \* the configuration each goroutine was started with
    cancelled,  \* its context has been cancelled
    ticker,     \* its ticker: "off", "idle" or "pending" (one tick buffered)
    cfgSeries,  \* probe_timeout/interval/proxy info: labels -> writer
    ovlSeries,  \* labels that have a probe_skipped_overlap_total series
    resSeries   \* the series Record writes: labels -> last writer

mainVars   == <<pcMain, config, toStop, toStart, cur, stoppedDone>>
loopVars   == <<pc, target, cancelled, ticker>>
seriesVars == <<cfgSeries, ovlSeries, resSeries>>
vars       == <<mainVars, probes, loopVars, seriesVars>>

MainLocs == {"new", "idle", "stop", "delete", "wait", "start",
             "stopAll", "wgWait", "stopped"}
LoopLocs == {"free", "jitter", "exec", "probe", "record", "drain", "select",
             "close", "wgDone"}

\* A goroutine whose done channel is not closed yet: it can still probe.
Live(g) == pc[g] \notin {"free", "wgDone"}

\* The targets s.probes holds an entry for.
Running == {target[probes[n]] : n \in {m \in Names : probes[m] # None}}

----------------------------------------------------------------------------
\* TargetConfig.Equal compares HashTarget, the hash of the JSON form, from
\* which resolved credentials are excluded.
HashTarget(t) == [name |-> t.name, labels |-> t.labels, opts |-> t.opts]
Equal(s, t) == HashTarget(s) = HashTarget(t)

\* Mutant: a changed target is not started again.
diffToStartNewOnly(old, new) ==
    {t \in new : ~ \E s \in old : s.name = t.name}

\* diffTargets: old targets absent from or changed in the new configuration
\* are stopped, new targets absent from or changed since the old one are
\* started.
diffToStop(old, new) ==
    {s \in old : ~ \E t \in new : t.name = s.name /\ Equal(s, t)}
diffToStart(old, new) ==
    {t \in new : ~ \E s \in old : s.name = t.name /\ Equal(s, t)}

----------------------------------------------------------------------------
Init ==
    /\ pcMain = "new"
    /\ config = {}
    /\ toStop = {} /\ toStart = {} /\ cur = None /\ stoppedDone = {}
    /\ probes = [n \in Names |-> None]
    /\ pc = [g \in Gids |-> "free"]
    /\ target = [g \in Gids |-> None]
    /\ cancelled = [g \in Gids |-> FALSE]
    /\ ticker = [g \in Gids |-> "off"]
    /\ cfgSeries = [l \in LabelSets |-> None]
    /\ ovlSeries = {}
    /\ resSeries = [l \in LabelSets |-> None]

(* The caller: Start, Reload, Stop *)

\* Start: the target list of the first configuration.
Start(C) ==
    /\ pcMain = "new"
    /\ pcMain' = "start"
    /\ config' = C
    /\ toStart' = C
    /\ UNCHANGED <<toStop, cur, stoppedDone, probes, loopVars, seriesVars>>

\* startTarget: register the entry, EnsureTarget, launch the goroutine.
startTarget(t, g) ==
    /\ pcMain = "start"
    /\ t \in toStart
    /\ pc[g] = "free"
    /\ toStart' = toStart \ {t}
    /\ probes' = [probes EXCEPT ![t.name] = g]
    /\ cfgSeries' = [cfgSeries EXCEPT ![buildLabels(t)] = t]
    /\ ovlSeries' = ovlSeries \union {buildLabels(t)}
    /\ pc' = [pc EXCEPT ![g] = "jitter"]
    /\ target' = [target EXCEPT ![g] = t]
    /\ cancelled' = [cancelled EXCEPT ![g] = FALSE]
    /\ UNCHANGED <<pcMain, config, toStop, cur, stoppedDone, ticker, resSeries>>

\* Start or Reload returns: every target to start has been started.
StartDone ==
    /\ pcMain = "start"
    /\ toStart = {}
    /\ pcMain' = "idle"
    /\ UNCHANGED <<config, toStop, toStart, cur, stoppedDone, probes, loopVars,
                   seriesVars>>

\* Mutant: every target is restarted, unchanged ones too.
ReloadRestartAll(C) ==
    /\ pcMain = "idle"
    /\ pcMain' = "stop"
    /\ config' = C
    /\ toStop' = Running
    /\ toStart' = C
    /\ stoppedDone' = {}
    /\ UNCHANGED <<cur, probes, loopVars, seriesVars>>

\* Reload: diff the running targets against the new configuration.
Reload(C) ==
    /\ pcMain = "idle"
    /\ pcMain' = "stop"
    /\ config' = C
    /\ toStop' = diffToStop(Running, C)
    /\ toStart' = diffToStart(Running, C)
    /\ stoppedDone' = {}
    /\ UNCHANGED <<cur, probes, loopVars, seriesVars>>

\* Mutant: the context is not cancelled.
cancelTargetNoCancel(t) ==
    /\ pcMain = "stop"
    /\ t \in toStop
    /\ pcMain' = "delete"
    /\ toStop' = toStop \ {t}
    /\ cur' = t
    /\ stoppedDone' = stoppedDone \union {probes[t.name]}
    /\ probes' = [probes EXCEPT ![t.name] = None]
    /\ UNCHANGED <<config, toStart, cancelled, pc, target, ticker, seriesVars>>

\* Reload: cancel one target's context, collect its done channel and drop
\* its entry.
cancelTarget(t) ==
    /\ pcMain = "stop"
    /\ t \in toStop
    /\ pcMain' = "delete"
    /\ toStop' = toStop \ {t}
    /\ cur' = t
    /\ IF probes[t.name] # None
         THEN /\ cancelled' = [cancelled EXCEPT ![probes[t.name]] = TRUE]
              /\ stoppedDone' = stoppedDone \union {probes[t.name]}
              /\ probes' = [probes EXCEPT ![t.name] = None]
         ELSE UNCHANGED <<cancelled, stoppedDone, probes>>
    /\ UNCHANGED <<config, toStart, pc, target, ticker, seriesVars>>

\* Mutant: the gauges EnsureTarget created are forgotten.
DeleteTargetResultsOnly ==
    /\ pcMain = "delete"
    /\ pcMain' = "stop"
    /\ cur' = None
    /\ ovlSeries' = ovlSeries \ {buildLabels(cur)}
    /\ resSeries' = [resSeries EXCEPT ![buildLabels(cur)] = None]
    /\ UNCHANGED <<config, toStop, toStart, stoppedDone, probes, loopVars, cfgSeries>>

\* Reload: DeleteTarget removes every series of the stopped target.
DeleteTarget ==
    /\ pcMain = "delete"
    /\ pcMain' = "stop"
    /\ cur' = None
    /\ cfgSeries' = [cfgSeries EXCEPT ![buildLabels(cur)] = None]
    /\ ovlSeries' = ovlSeries \ {buildLabels(cur)}
    /\ resSeries' = [resSeries EXCEPT ![buildLabels(cur)] = None]
    /\ UNCHANGED <<config, toStop, toStart, stoppedDone, probes, loopVars>>

\* Reload: all targets are stopped; start to wait for their goroutines.
StopLoopDone ==
    /\ pcMain = "stop"
    /\ toStop = {}
    /\ pcMain' = "wait"
    /\ UNCHANGED <<config, toStop, toStart, cur, stoppedDone, probes, loopVars,
                   seriesVars>>

\* Mutants: replacements start at once, or after the first old loop is gone.
WaitDoneNoWait ==
    /\ pcMain = "wait"
    /\ pcMain' = "start"
    /\ stoppedDone' = {}
    /\ UNCHANGED <<config, toStop, toStart, cur, probes, loopVars, seriesVars>>
WaitDoneFirst ==
    /\ pcMain = "wait"
    /\ stoppedDone # {} => \E g \in stoppedDone : ~Live(g)
    /\ pcMain' = "start"
    /\ stoppedDone' = {}
    /\ UNCHANGED <<config, toStop, toStart, cur, probes, loopVars, seriesVars>>

\* Reload: every collected done channel is closed.
WaitDone ==
    /\ pcMain = "wait"
    /\ \A g \in stoppedDone : ~Live(g)
    /\ pcMain' = "start"
    /\ stoppedDone' = {}
    /\ UNCHANGED <<config, toStop, toStart, cur, probes, loopVars, seriesVars>>

\* Stop: cancel and unregister the entries one after the other ...
Stop ==
    /\ pcMain = "idle"
    /\ pcMain' = "stopAll"
    /\ UNCHANGED <<config, toStop, toStart, cur, stoppedDone, probes, loopVars,
                   seriesVars>>

StopCancel(n) ==
    /\ pcMain = "stopAll"
    /\ probes[n] # None
    /\ cancelled' = [cancelled EXCEPT ![probes[n]] = TRUE]
    /\ probes' = [probes EXCEPT ![n] = None]
    /\ UNCHANGED <<mainVars, pc, target, ticker, seriesVars>>

\* ... release s.mu and wait for the WaitGroup.
StopUnlock ==
    /\ pcMain = "stopAll"
    /\ \A n \in Names : probes[n] = None
    /\ pcMain' = "wgWait"
    /\ UNCHANGED <<config, toStop, toStart, cur, stoppedDone, probes, loopVars,
                   seriesVars>>

StopReturn ==
    /\ pcMain = "wgWait"
    /\ \A g \in Gids : pc[g] = "free"
    /\ pcMain' = "stopped"
    /\ UNCHANGED <<config, toStop, toStart, cur, stoppedDone, probes, loopVars,
                   seriesVars>>

(* A probe goroutine: runProbeLoop and executeProbe *)

\* A step of goroutine g from one place of its loop to another.
Goto(g, from, to) ==
    /\ pc[g] = from
    /\ pc' = [pc EXCEPT ![g] = to]
    /\ UNCHANGED <<mainVars, probes, target, cancelled>>

\* What follows executeProbe: after the first probe the ticker is created and
\* the loop entered, after a later one the stale tick is drained.
AfterExecute(g, from) ==
    /\ Goto(g, from, IF ticker[g] = "off" THEN "select" ELSE "drain")
    /\ ticker' = [ticker EXCEPT ![g] = IF @ = "off" THEN "idle" ELSE @]

\* waitInitialProbeJitter returns true.  Without a delay it reads ctx.Err();
\* with one, the timer may win the select against a cancelled context.
JitterElapsed(g) ==
    /\ cancelled[g] => InitialProbeJitter > 0
    /\ Goto(g, "jitter", "exec")
    /\ UNCHANGED <<ticker, seriesVars>>

JitterCancelled(g) ==
    /\ cancelled[g]
    /\ Goto(g, "jitter", "close")
    /\ UNCHANGED <<ticker, seriesVars>>

\* executeProbe skips the probe of a cancelled target.
ExecuteSkip(g) ==
    /\ cancelled[g]
    /\ AfterExecute(g, "exec")
    /\ UNCHANGED seriesVars

ExecuteBegin(g) ==
    /\ ~cancelled[g]
    /\ Goto(g, "exec", "probe")
    /\ UNCHANGED <<ticker, seriesVars>>

\* Mutant: any result may be discarded, as a check of probeCtx.Err() would
\* do with a timed-out probe.
ProbeDiscardAny(g) ==
    /\ AfterExecute(g, "probe")
    /\ UNCHANGED seriesVars

\* Probe returned and the target was cancelled meanwhile: discard the result.
ProbeDiscard(g) ==
    /\ cancelled[g]
    /\ AfterExecute(g, "probe")
    /\ UNCHANGED seriesVars

\* Probe returned and ctx.Err() is still nil: the result will be recorded.
ProbeKeep(g) ==
    /\ ~cancelled[g]
    /\ Goto(g, "probe", "record")
    /\ UNCHANGED <<ticker, seriesVars>>

\* MetricsExporter.Record: a step of its own, because nothing orders it with
\* a cancellation that comes after the check of ctx.Err().
Record(g) ==
    /\ AfterExecute(g, "record")
    /\ resSeries' = [resSeries EXCEPT ![buildLabels(target[g])] = target[g]]
    /\ UNCHANGED <<cfgSeries, ovlSeries>>

\* The ticker fires; a tick that finds one pending is dropped.
Tick(g) ==
    /\ ticker[g] = "idle"
    /\ ticker' = [ticker EXCEPT ![g] = "pending"]
    /\ UNCHANGED <<mainVars, probes, pc, target, cancelled, seriesVars>>

\* The loop's select; when both channels are ready it takes either branch.
SelectTick(g) ==
    /\ ticker[g] = "pending"
    /\ Goto(g, "select", "exec")
    /\ ticker' = [ticker EXCEPT ![g] = "idle"]
    /\ UNCHANGED seriesVars

SelectDone(g) ==
    /\ cancelled[g]
    /\ Goto(g, "select", "close")
    /\ ticker' = [ticker EXCEPT ![g] = "off"]
    /\ UNCHANGED seriesVars

\* The drain of a stale tick counts it with IncrSkippedOverlap, whatever the
\* state of the context.
DrainTick(g) ==
    /\ ticker[g] = "pending"
    /\ Goto(g, "drain", "select")
    /\ ticker' = [ticker EXCEPT ![g] = "idle"]
    /\ ovlSeries' = ovlSeries \union {buildLabels(target[g])}
    /\ UNCHANGED <<cfgSeries, resSeries>>

DrainNone(g) ==
    /\ ticker[g] = "idle"
    /\ Goto(g, "drain", "select")
    /\ UNCHANGED <<ticker, seriesVars>>

\* The deferred calls: close(done) runs before wg.Done().
CloseDone(g) ==
    /\ Goto(g, "close", "wgDone")
    /\ UNCHANGED <<ticker, seriesVars>>

WgDone(g) ==
    /\ pc[g] = "wgDone"
    /\ pc' = [pc EXCEPT ![g] = "free"]
    /\ target' = [target EXCEPT ![g] = None]
    /\ cancelled' = [cancelled EXCEPT ![g] = FALSE]
    /\ UNCHANGED <<mainVars, probes, ticker, seriesVars>>

----------------------------------------------------------------------------
\* What the caller does by itself once it has been called.
MainStep ==
    \/ \E t \in Targets, g \in Gids : startTarget(t, g)
    \/ StartDone
    \/ \E t \in Targets : cancelTarget(t)
    \/ DeleteTarget \/ StopLoopDone \/ WaitDone
    \/ \E n \in Names : StopCancel(n)
    \/ StopUnlock \/ StopReturn

\* What a goroutine does by itself; its ticker is an event of the runtime.
LoopStep(g) ==
    \/ JitterElapsed(g) \/ JitterCancelled(g)
    \/ ExecuteSkip(g) \/ ExecuteBegin(g)
    \/ ProbeDiscard(g) \/ ProbeKeep(g) \/ Record(g)
    \/ SelectTick(g) \/ SelectDone(g)
    \/ DrainTick(g) \/ DrainNone(g)
    \/ CloseDone(g) \/ WgDone(g)

\* After Stop the process exits.
Exited == pcMain = "stopped" /\ UNCHANGED vars

Next ==
    \/ \E C \in Configs : Start(C) \/ Reload(C)
    \/ Stop
    \/ MainStep
    \/ \E g \in Gids : LoopStep(g) \/ Tick(g)
    \/ Exited

Spec == Init /\ [][Next]_vars

\* Runnable goroutines run, timers and tickers fire and Probe returns (every
\* prober is bounded by its context); Go's select chooses uniformly, so a
\* branch that is ready again and again is taken: SF on SelectDone.
Fairness ==
    /\ WF_vars(MainStep)
    /\ \A g \in Gids : /\ WF_vars(LoopStep(g))
                       /\ WF_vars(Tick(g))
                       /\ SF_vars(SelectDone(g))

FairSpec == Spec /\ Fairness

----------------------------------------------------------------------------
(* Properties *)

\* The types of the scheduler's state (scheduler.go:24-51).
TypeOK ==
    /\ pcMain \in MainLocs
    /\ config \in SUBSET Targets
    /\ toStop \in SUBSET Targets
    /\ toStart \in SUBSET Targets
    /\ cur \in Targets \union {None}
    /\ stoppedDone \in SUBSET Gids
    /\ probes \in [Names -> Gids \union {None}]
    /\ pc \in [Gids -> LoopLocs]
    /\ target \in [Gids -> Targets \union {None}]
    /\ cancelled \in [Gids -> BOOLEAN]
    /\ ticker \in [Gids -> {"off", "idle", "pending"}]
    /\ cfgSeries \in [LabelSets -> Targets \union {None}]
    /\ ovlSeries \in SUBSET LabelSets
    /\ resSeries \in [LabelSets -> Targets \union {None}]

\* Every entry of s.probes is a live, uncancelled loop of that very name.
Registered ==
    \A n \in Names :
        probes[n] # None => /\ Live(probes[n])
                            /\ pc[probes[n]] # "close"
                            /\ ~cancelled[probes[n]]
                            /\ target[probes[n]].name = n

\* A live loop is registered until it is cancelled, and from then on its name
\* is unregistered and somebody waits for it.
Accounted ==
    \A g \in Gids : Live(g) =>
        /\ target[g] \in Targets
        /\ ~cancelled[g] => probes[target[g].name] = g
        /\ cancelled[g] =>
              /\ probes[target[g].name] = None
              /\ \/ pcMain \in {"stop", "delete", "wait"} /\ g \in stoppedDone
                 \/ pcMain \in {"stopAll", "wgWait"}

\* The targets to start have distinct names, each of which is unregistered or
\* still to be stopped.
StartsAreFree ==
    /\ toStart \in Configs
    /\ pcMain = "start" => \A t \in toStart : probes[t.name] = None
    /\ pcMain \in {"stop", "delete", "wait"} =>
          \A t \in toStart : \/ probes[t.name] = None
                             \/ \E s \in toStop : s.name = t.name
    /\ pcMain = "wait" => toStop = {}

\* Before Start, and from the end of Stop's loop on, nothing is registered.
EmptyRegistry ==
    /\ pcMain \in {"new", "wgWait", "stopped"} => \A n \in Names : probes[n] = None
    /\ pcMain = "stopped" => \A g \in Gids : pc[g] = "free"

\* At most one live loop per target name, also while Reload replaces a
\* changed target: the old loop is gone before the new one starts
\* ("preventing overlapping probe traffic", scheduler.go:125-126).
OneLoopPerTarget ==
    \A g, h \in Gids :
        Live(g) /\ Live(h) /\ target[g].name = target[h].name => g = h

\* Outside Reload and Stop no goroutine is orphaned: every live loop is the
\* registered one of its target and has not been cancelled.
NoOrphans ==
    pcMain \in {"new", "idle", "start"} =>
        \A g \in Gids : Live(g) => /\ probes[target[g].name] = g
                                   /\ ~cancelled[g]

\* The inductive invariant behind the lifecycle properties: who is registered,
\* who is cancelled, and who is waited for, at every point of every call.
LifecycleInv ==
    /\ TypeOK
    /\ Registered
    /\ Accounted
    /\ StartsAreFree
    /\ EmptyRegistry
    /\ OneLoopPerTarget

\* Between the diff and the end of Reload: what is still to be stopped runs
\* and has no Equal target in the configuration being applied; every other
\* running target has one; every configured target runs or is still to start.
DiffProgress ==
    /\ config \in Configs
    /\ pcMain \in {"new", "idle"} => toStart = {}
    /\ pcMain \in {"new", "start", "idle"} => toStop = {}
    /\ pcMain \notin {"stopAll", "wgWait", "stopped"} =>
        /\ toStart \subseteq config
        /\ \A s \in toStop :
              /\ probes[s.name] # None
              /\ target[probes[s.name]] = s
              /\ ~ \E t \in config : Equal(t, s)
        /\ \A n \in Names : probes[n] # None =>
              \/ target[probes[n]] \in toStop
              \/ \E t \in config : Equal(t, target[probes[n]])
        /\ \A t \in config :
              \/ t \in toStart
              \/ probes[t.name] # None /\ Equal(t, target[probes[t.name]])

\* The gauges of EnsureTarget exist exactly for the registered targets and
\* for the one whose DeleteTarget is due; registered targets have their
\* overlap counter.
SeriesProgress ==
    /\ pcMain = "delete" <=> cur # None
    /\ cur # None => probes[cur.name] = None
    /\ pcMain \notin {"stopAll", "wgWait", "stopped"} =>
          \A l \in LabelSets, t \in Targets :
              cfgSeries[l] = t <=>
                  /\ buildLabels(t) = l
                  /\ \/ t = cur
                     \/ probes[t.name] # None /\ target[probes[t.name]] = t
    /\ \A n \in Names : probes[n] # None => buildLabels(target[probes[n]]) \in ovlSeries

\* Inductive together with LifecycleInv.
ReloadInv == DiffProgress /\ SeriesProgress

\* The postcondition of Start and Reload: exactly the targets of the latest
\* configuration run, up to Equal (which ignores resolved secrets), and each
\* registered loop is alive.
RunsConfig ==
    pcMain = "idle" =>
        /\ {HashTarget(t) : t \in Running} = {HashTarget(t) : t \in config}
        /\ \A n \in Names : probes[n] # None => Live(probes[n])

\* The per-target gauges EnsureTarget writes describe exactly the running
\* targets whenever no call is in progress, and each running target has its
\* overlap counter, through any sequence of relabelling reloads.
SeriesMatchRunning ==
    pcMain = "idle" =>
        /\ \A l \in LabelSets, t \in Targets :
              cfgSeries[l] = t <=> t \in Running /\ buildLabels(t) = l
        /\ \A t \in Running : buildLabels(t) \in ovlSeries

\* The postcondition of Stop: s.probes is empty and no goroutine is left.
StopPostcondition ==
    pcMain = "stopped" =>
        /\ \A n \in Names : probes[n] = None
        /\ \A g \in Gids : pc[g] = "free"

\* A step cancels a loop only if the configuration being applied has no Equal
\* target, or in Stop.
CancelsChangedOnly ==
    \A g \in Gids :
        ~cancelled[g] /\ cancelled'[g] =>
            \/ pcMain = "stopAll"
            \/ ~ \E t \in config : Equal(t, target[g])

\* Reload leaves an unchanged target's loop alone (scheduler.go:363-396).
UnchangedUndisturbed == [][CancelsChangedOnly]_vars

\* A step outside the calls writes series of running targets only.
WritesRunningOnly ==
    pcMain = "idle" =>
        \A l \in LabelSets :
            \/ resSeries'[l] # resSeries[l]
            \/ l \in ovlSeries' /\ l \notin ovlSeries
            => \E t \in Running : buildLabels(t) = l

\* While no call is in progress, only the loop of a running target changes
\* result or overlap series: what waiting for the done channels
\* (scheduler.go:137-142) buys.
QuiescentWrites == [][WritesRunningOnly]_vars

\* Reload and Stop return: the wait for the stopped targets' goroutines
\* (scheduler.go:137-142) and wg.Wait (scheduler.go:91) end, although a probe
\* was in flight, a tick pending or a drain under way when the loop was
\* cancelled.
CallsReturn ==
    /\ pcMain = "stop" ~> pcMain = "idle"
    /\ pcMain = "stopAll" ~> pcMain = "stopped"

\* A running target's results reach /metrics: its own configuration is the
\* last writer of its result series, or it is stopped first.
EveryTargetReported ==
    \A t \in Targets :
        (pcMain = "idle" /\ t \in Running)
            ~> (resSeries[buildLabels(t)] = t \/ t \notin Running)

\* No result of a removed or changed target, and no overlap counter of a target
\* that does not run, is left in /metrics once the Reload that stopped it has
\* returned (scheduler.go:121-123, README.md:427-430).
NoStaleSeries ==
    pcMain = "idle" =>
        /\ \A l \in LabelSets : resSeries[l] # None => resSeries[l] \in Running
        /\ \A l \in ovlSeries : \E t \in Running : buildLabels(t) = l

----------------------------------------------------------------------------
(* What the scheduler implements *)

\* The targets of the loops that can still probe.
Probed == {HashTarget(target[g]) : g \in {h \in Gids : Live(h)}}

Hashed(C) == {HashTarget(t) : t \in C}

CallMode ==
    IF pcMain \in {"stop", "delete", "wait", "start"} THEN "applying"
    ELSE IF pcMain = "idle" THEN "applied"
    ELSE IF pcMain \in {"stopAll", "wgWait"} THEN "stopping"
    ELSE pcMain

TS == INSTANCE TargetSet WITH
          Wanted <- {Hashed(C) : C \in Configs},
          mode   <- CallMode,
          want   <- Hashed(config),
          probed <- Probed

\* Why a loop that ends during a Reload was unwanted: it was cancelled because
\* the configuration being applied has no Equal target.
CancelledUnwanted ==
    pcMain \in {"stop", "delete", "wait"} =>
        \A g \in Gids : Live(g) /\ cancelled[g] =>
            HashTarget(target[g]) \notin Hashed(config)

\* The scheduler implements TargetSet: through cancellations, drains and waits
\* the set of probed targets changes only as a call of Start, Reload or Stop
\* allows, unwanted targets end before new ones begin (scheduler.go:114-126),
\* and a call returns with exactly its targets probed.
ImplementsTargetSet == TS!Spec
=============================================================================
