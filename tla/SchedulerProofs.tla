-------------------------- MODULE SchedulerProofs --------------------------
(***************************************************************************)
(* Proofs about Scheduler for every set of targets, every number of probe  *)
(* goroutines and every jitter.  The argument: LifecycleInv is inductive.  *)
(* It says for every goroutine that it is registered or cancelled, and for *)
(* every cancelled one that the caller is at a point from which it cannot  *)
(* start anything before that goroutine has closed its done channel.       *)
(***************************************************************************)
EXTENDS Scheduler, TLAPS

\* A move of one goroutine inside its loop changes neither who is live nor
\* who is registered or cancelled, so the lifecycle invariant survives it.
LEMMA LoopMove ==
    ASSUME LifecycleInv,
           NEW g \in Gids,
           Live(g),
           NEW to \in LoopLocs \ {"free", "wgDone"},
           to = "close" => cancelled[g],
           pc' = [pc EXCEPT ![g] = to],
           ticker' \in [Gids -> {"off", "idle", "pending"}],
           ovlSeries' \in SUBSET LabelSets,
           resSeries' \in [LabelSets -> Targets \union {None}],
           UNCHANGED <<mainVars, probes, target, cancelled, cfgSeries>>
    PROVE  LifecycleInv'
<1> USE DEF LifecycleInv, Live, mainVars
<1>1. TypeOK'
  BY DEF TypeOK, LoopLocs
<1>2. \A h \in Gids : Live(h)' <=> Live(h)
  BY DEF TypeOK, LoopLocs
<1>3. Registered'
  BY <1>2 DEF TypeOK, Registered, LoopLocs
<1>4. Accounted'
  BY <1>2 DEF TypeOK, Accounted
<1>5. StartsAreFree'
  BY DEF StartsAreFree
<1>6. EmptyRegistry'
  BY DEF TypeOK, EmptyRegistry
<1>7. OneLoopPerTarget'
  BY <1>2 DEF OneLoopPerTarget
<1> QED
  BY <1>1, <1>3, <1>4, <1>5, <1>6, <1>7

\* Every step of a goroutine, and every tick of its ticker.
LEMMA LoopPreserves ==
    ASSUME LifecycleInv, NEW g \in Gids, LoopStep(g) \/ Tick(g)
    PROVE  LifecycleInv'
<1> USE DEF Goto, AfterExecute, seriesVars
<1>T. TypeOK
  BY DEF LifecycleInv
<1>L. Live(g) => target[g] \in Targets /\ buildLabels(target[g]) \in LabelSets
  BY DEF LifecycleInv, Accounted, LabelSets
<1>1. CASE JitterElapsed(g)
  BY <1>1, <1>T, LoopMove DEF JitterElapsed, Live, LoopLocs, TypeOK, mainVars
<1>2. CASE JitterCancelled(g)
  BY <1>2, <1>T, LoopMove DEF JitterCancelled, Live, LoopLocs, TypeOK, mainVars
<1>3. CASE ExecuteSkip(g)
  BY <1>3, <1>T, LoopMove DEF ExecuteSkip, Live, LoopLocs, TypeOK, mainVars
<1>4. CASE ExecuteBegin(g)
  BY <1>4, <1>T, LoopMove DEF ExecuteBegin, Live, LoopLocs, TypeOK, mainVars
<1>5. CASE ProbeDiscard(g)
  BY <1>5, <1>T, LoopMove DEF ProbeDiscard, Live, LoopLocs, TypeOK, mainVars
<1>6. CASE ProbeKeep(g)
  BY <1>6, <1>T, LoopMove DEF ProbeKeep, Live, LoopLocs, TypeOK, mainVars
<1>7. CASE Record(g)
  BY <1>7, <1>T, <1>L, LoopMove DEF Record, Live, LoopLocs, TypeOK, mainVars
<1>8. CASE SelectTick(g)
  BY <1>8, <1>T, LoopMove DEF SelectTick, Live, LoopLocs, TypeOK, mainVars
<1>9. CASE SelectDone(g)
  BY <1>9, <1>T, LoopMove DEF SelectDone, Live, LoopLocs, TypeOK, mainVars
<1>10. CASE DrainTick(g)
  BY <1>10, <1>T, <1>L, LoopMove DEF DrainTick, Live, LoopLocs, TypeOK, mainVars
<1>11. CASE DrainNone(g)
  BY <1>11, <1>T, LoopMove DEF DrainNone, Live, LoopLocs, TypeOK, mainVars
<1>12. CASE CloseDone(g)
  <2> USE <1>12 DEF LifecycleInv, CloseDone, Live, mainVars
  <2>1. TypeOK'
    BY DEF TypeOK, LoopLocs
  <2>2. \A h \in Gids : Live(h)' <=> Live(h) /\ h # g
    BY DEF TypeOK
  <2>3. Registered'
    BY <2>2 DEF TypeOK, Registered
  <2>4. Accounted'
    BY <2>2 DEF TypeOK, Accounted
  <2>5. StartsAreFree' /\ EmptyRegistry'
    BY DEF StartsAreFree, EmptyRegistry, TypeOK
  <2>6. OneLoopPerTarget'
    BY <2>2 DEF OneLoopPerTarget
  <2> QED
    BY <2>1, <2>3, <2>4, <2>5, <2>6
<1>13. CASE WgDone(g)
  <2> USE <1>13 DEF LifecycleInv, WgDone, Live, mainVars
  <2>1. TypeOK'
    BY DEF TypeOK, LoopLocs
  <2>2. \A h \in Gids : /\ Live(h)' <=> Live(h)
                        /\ Live(h) => h # g
                        /\ h # g => target'[h] = target[h] /\ cancelled'[h] = cancelled[h]
    BY DEF TypeOK
  <2>3. Registered'
    BY <2>2 DEF TypeOK, Registered
  <2>4. Accounted'
    BY <2>2 DEF TypeOK, Accounted
  <2>5. StartsAreFree' /\ EmptyRegistry'
    BY DEF StartsAreFree, EmptyRegistry, TypeOK
  <2>6. OneLoopPerTarget'
    BY <2>2 DEF OneLoopPerTarget
  <2> QED
    BY <2>1, <2>3, <2>4, <2>5, <2>6
<1>14. CASE Tick(g)
  <2> USE <1>14 DEF LifecycleInv, Tick, mainVars
  <2>1. TypeOK'
    BY DEF TypeOK
  <2>2. Registered' /\ Accounted' /\ OneLoopPerTarget'
    BY DEF Registered, Accounted, OneLoopPerTarget, Live
  <2>3. StartsAreFree' /\ EmptyRegistry'
    BY DEF StartsAreFree, EmptyRegistry
  <2> QED
    BY <2>1, <2>2, <2>3
<1> QED
  BY <1>1, <1>2, <1>3, <1>4, <1>5, <1>6, <1>7, <1>8, <1>9, <1>10, <1>11, <1>12,
     <1>13, <1>14 DEF LoopStep

\* The steps of the caller.
LEMMA MainPreserves ==
    ASSUME LifecycleInv,
           \/ MainStep
           \/ Stop
           \/ \E C \in Configs : Start(C) \/ Reload(C)
    PROVE  LifecycleInv'
<1>1. ASSUME NEW C \in Configs, Start(C)
      PROVE  LifecycleInv'
  <2> USE <1>1 DEF LifecycleInv, Start, loopVars, seriesVars, mainVars
  <2>1. TypeOK'
    BY DEF TypeOK, MainLocs, Configs
  <2>2. Registered' /\ OneLoopPerTarget'
    BY DEF Registered, OneLoopPerTarget, Live
  <2>3. Accounted'
    BY DEF Accounted, Live
  <2>4. StartsAreFree' /\ EmptyRegistry'
    BY DEF StartsAreFree, EmptyRegistry, Configs, Names
  <2> QED
    BY <2>1, <2>2, <2>3, <2>4
<1>2. ASSUME NEW C \in Configs, Reload(C)
      PROVE  LifecycleInv'
  <2> USE <1>2 DEF LifecycleInv, Reload, loopVars, seriesVars, mainVars
  <2>1. Running \in SUBSET Targets
    BY DEF TypeOK, Running, Registered, Accounted
  <2>2. TypeOK'
    BY <2>1 DEF TypeOK, MainLocs, Configs, diffToStop, diffToStart
  <2>3. Registered' /\ OneLoopPerTarget'
    BY DEF Registered, OneLoopPerTarget, Live
  <2>4. Accounted'
    BY DEF Accounted, Live
  <2>5. toStart' \in Configs
    BY DEF Configs, diffToStart
  <2>6. ASSUME NEW t \in toStart', probes[t.name] # None
        PROVE  \E s \in toStop' : s.name = t.name
    <3> DEFINE s == target[probes[t.name]]
    <3>1. t \in C /\ t.name \in Names
      BY <2>6 DEF diffToStart, Configs, Names
    <3>2. s \in Running /\ s.name = t.name
      BY <3>1, <2>6 DEF Running, Registered
    <3>3. ~Equal(s, t)
      BY <2>6, <3>2 DEF diffToStart
    <3>4. \A u \in C : u.name = s.name => u = t
      BY <3>1, <3>2 DEF Configs
    <3> QED
      BY <3>2, <3>3, <3>4 DEF diffToStop
  <2>7. StartsAreFree' /\ EmptyRegistry'
    BY <2>5, <2>6 DEF StartsAreFree, EmptyRegistry
  <2> QED
    BY <2>2, <2>3, <2>4, <2>7
<1>3. ASSUME NEW t \in Targets, NEW g \in Gids, startTarget(t, g)
      PROVE  LifecycleInv'
  <2> USE <1>3 DEF LifecycleInv, startTarget
  <2>1. t.name \in Names /\ buildLabels(t) \in LabelSets /\ probes[t.name] = None
    BY DEF Names, LabelSets, StartsAreFree
  <2>2. TypeOK'
    BY <2>1 DEF TypeOK, LoopLocs
  <2>3. \A h \in Gids : /\ Live(h)' <=> Live(h) \/ h = g
                        /\ h # g => target'[h] = target[h] /\ cancelled'[h] = cancelled[h]
                        /\ h = g => ~Live(h) /\ target'[h] = t /\ ~cancelled'[h]
    BY DEF TypeOK, Live
  <2>4. \A h \in Gids : Live(h) => ~cancelled[h] /\ target[h].name # t.name
    BY <2>1, NoneAssumption DEF Accounted
  <2>5. Registered'
    <3>1. \A n \in Names : probes'[n] = IF n = t.name THEN g ELSE probes[n]
      BY <2>1 DEF TypeOK
    <3>2. \A n \in Names : probes[n] # None => probes[n] \in Gids /\ probes[n] # g
      BY <2>3 DEF TypeOK, Registered, Live
    <3>3. pc'[g] = "jitter" /\ \A h \in Gids : h # g => pc'[h] = pc[h]
      BY DEF TypeOK
    <3> SUFFICES ASSUME NEW n \in Names, probes'[n] # None
                 PROVE  /\ Live(probes[n])' /\ pc'[probes'[n]] # "close"
                        /\ ~cancelled'[probes'[n]] /\ target'[probes'[n]].name = n
      BY DEF Registered
    <3>4. CASE n = t.name
      <4>1. probes'[n] = g
        BY <3>1, <3>4
      <4>2. target'[g].name = n /\ ~cancelled'[g]
        BY <2>3, <3>4
      <4> QED
        BY <3>3, <4>1, <4>2 DEF Live
    <3>5. CASE n # t.name
      <4> DEFINE h == probes[n]
      <4>1. probes'[n] = h /\ h \in Gids /\ h # g /\ probes[n] # None
        BY <3>1, <3>2, <3>5
      <4>2. Live(h) /\ pc[h] # "close" /\ ~cancelled[h] /\ target[h].name = n
        BY <4>1 DEF Registered
      <4> QED
        BY <2>3, <3>3, <4>1, <4>2 DEF Live
    <3> QED
      BY <3>4, <3>5
  <2>6. Accounted'
    BY <2>1, <2>3, <2>4 DEF TypeOK, Accounted, Names, Live
  <2>7. toStart' \in Configs
    BY DEF StartsAreFree, Configs
  <2>8. \A u \in toStart' : u \in Targets /\ u.name # t.name
    BY DEF StartsAreFree, Configs
  <2>9. StartsAreFree' /\ EmptyRegistry'
    BY <2>7, <2>8 DEF StartsAreFree, EmptyRegistry, TypeOK, Names
  <2>10. OneLoopPerTarget'
    <3> SUFFICES ASSUME NEW h \in Gids, NEW k \in Gids, Live(h)', Live(k)',
                        target'[h].name = target'[k].name
                 PROVE  h = k
      BY DEF OneLoopPerTarget
    <3>1. CASE h = g
      BY <2>3, <2>4, <3>1 DEF Live
    <3>2. CASE k = g
      BY <2>3, <2>4, <3>2 DEF Live
    <3>3. CASE h # g /\ k # g
      BY <2>3, <3>3 DEF OneLoopPerTarget, Live
    <3> QED
      BY <3>1, <3>2, <3>3
  <2> QED
    BY <2>2, <2>5, <2>6, <2>9, <2>10
<1>4. CASE StartDone
  <2> USE <1>4 DEF LifecycleInv, StartDone, loopVars, seriesVars, mainVars
  <2>1. TypeOK'
    BY DEF TypeOK, MainLocs
  <2>2. Registered' /\ OneLoopPerTarget'
    BY DEF Registered, OneLoopPerTarget, Live
  <2>3. Accounted'
    BY DEF Accounted, Live
  <2>4. StartsAreFree' /\ EmptyRegistry'
    BY DEF StartsAreFree, EmptyRegistry
  <2> QED
    BY <2>1, <2>2, <2>3, <2>4
<1>5. ASSUME NEW t \in Targets, cancelTarget(t)
      PROVE  LifecycleInv'
  <2> USE <1>5 DEF LifecycleInv, cancelTarget, seriesVars
  <2>1. t.name \in Names
    BY DEF Names
  <2>2. CASE probes[t.name] = None
    <3>1. TypeOK'
      BY <2>2 DEF TypeOK, MainLocs
    <3>2. Registered' /\ Accounted' /\ OneLoopPerTarget'
      BY <2>2 DEF Registered, Accounted, OneLoopPerTarget, Live
    <3>3. StartsAreFree' /\ EmptyRegistry'
      BY <2>2 DEF StartsAreFree, EmptyRegistry
    <3> QED
      BY <3>1, <3>2, <3>3
  <2>3. CASE probes[t.name] # None
    <3> DEFINE g == probes[t.name]
    <3>1. g \in Gids /\ Live(g) /\ target[g].name = t.name
      BY <2>1, <2>3 DEF TypeOK, Registered
    <3>2. /\ \A h \in Gids : cancelled'[h] <=> cancelled[h] \/ h = g
          /\ \A n \in Names : probes'[n] = IF n = t.name THEN None ELSE probes[n]
          /\ stoppedDone' = stoppedDone \union {g}
      BY <2>1, <2>3, <3>1 DEF TypeOK
    <3>3. TypeOK'
      BY <2>3, <3>1 DEF TypeOK, MainLocs
    <3>4. Registered'
      <4>1. \A n \in Names : probes'[n] # None => probes[n] # g
        BY <2>1, <3>1, <3>2 DEF Registered
      <4> QED
        BY <3>2, <4>1 DEF TypeOK, Registered, Live
    <3>5. Accounted'
      BY <3>1, <3>2 DEF TypeOK, Accounted, Live, OneLoopPerTarget, Names
    <3>6. StartsAreFree' /\ EmptyRegistry'
      BY <3>2 DEF StartsAreFree, EmptyRegistry, TypeOK, Names
    <3>7. OneLoopPerTarget'
      BY DEF OneLoopPerTarget, Live
    <3> QED
      BY <3>3, <3>4, <3>5, <3>6, <3>7
  <2> QED
    BY <2>2, <2>3
<1>6. CASE DeleteTarget
  <2> USE <1>6 DEF LifecycleInv, DeleteTarget, loopVars, seriesVars, mainVars
  <2>1. TypeOK'
    BY DEF TypeOK, MainLocs
  <2>2. Registered' /\ OneLoopPerTarget'
    BY DEF Registered, OneLoopPerTarget, Live
  <2>3. Accounted'
    BY DEF Accounted, Live
  <2>4. StartsAreFree' /\ EmptyRegistry'
    BY DEF StartsAreFree, EmptyRegistry
  <2> QED
    BY <2>1, <2>2, <2>3, <2>4
<1>7. CASE StopLoopDone
  <2> USE <1>7 DEF LifecycleInv, StopLoopDone, loopVars, seriesVars, mainVars
  <2>1. TypeOK'
    BY DEF TypeOK, MainLocs
  <2>2. Registered' /\ OneLoopPerTarget'
    BY DEF Registered, OneLoopPerTarget, Live
  <2>3. Accounted'
    BY DEF Accounted, Live
  <2>4. StartsAreFree' /\ EmptyRegistry'
    BY DEF StartsAreFree, EmptyRegistry
  <2> QED
    BY <2>1, <2>2, <2>3, <2>4
<1>8. CASE WaitDone
  <2> USE <1>8 DEF LifecycleInv, WaitDone, loopVars, seriesVars, mainVars
  <2>1. TypeOK'
    BY DEF TypeOK, MainLocs
  <2>2. Registered' /\ OneLoopPerTarget'
    BY DEF Registered, OneLoopPerTarget, Live
  <2>3. Accounted'
    BY DEF Accounted, Live
  <2>4. StartsAreFree' /\ EmptyRegistry'
    BY DEF StartsAreFree, EmptyRegistry
  <2> QED
    BY <2>1, <2>2, <2>3, <2>4
<1>9. CASE Stop
  <2> USE <1>9 DEF LifecycleInv, Stop, loopVars, seriesVars, mainVars
  <2>1. TypeOK'
    BY DEF TypeOK, MainLocs
  <2>2. Registered' /\ OneLoopPerTarget'
    BY DEF Registered, OneLoopPerTarget, Live
  <2>3. Accounted'
    BY DEF Accounted, Live
  <2>4. StartsAreFree' /\ EmptyRegistry'
    BY DEF StartsAreFree, EmptyRegistry
  <2> QED
    BY <2>1, <2>2, <2>3, <2>4
<1>10. ASSUME NEW n \in Names, StopCancel(n)
       PROVE  LifecycleInv'
  <2> USE <1>10 DEF LifecycleInv, StopCancel, mainVars, seriesVars
  <2> DEFINE g == probes[n]
  <2>1. g \in Gids /\ Live(g) /\ target[g].name = n
    BY DEF TypeOK, Registered
  <2>2. /\ \A h \in Gids : cancelled'[h] <=> cancelled[h] \/ h = g
        /\ \A m \in Names : probes'[m] = IF m = n THEN None ELSE probes[m]
    BY <2>1 DEF TypeOK
  <2>3. TypeOK'
    BY <2>1 DEF TypeOK
  <2>4. Registered'
    <3>1. \A m \in Names : probes'[m] # None => probes[m] # g
      BY <2>1, <2>2 DEF Registered
    <3> QED
      BY <2>2, <3>1 DEF TypeOK, Registered, Live
  <2>5. Accounted'
    BY <2>1, <2>2 DEF TypeOK, Accounted, Live, OneLoopPerTarget, Names
  <2>6. StartsAreFree' /\ EmptyRegistry'
    BY <2>2 DEF StartsAreFree, EmptyRegistry, TypeOK
  <2>7. OneLoopPerTarget'
    BY DEF OneLoopPerTarget, Live
  <2> QED
    BY <2>3, <2>4, <2>5, <2>6, <2>7
<1>11. CASE StopUnlock
  <2> USE <1>11 DEF LifecycleInv, StopUnlock, loopVars, seriesVars, mainVars
  <2>1. TypeOK'
    BY DEF TypeOK, MainLocs
  <2>2. Registered' /\ OneLoopPerTarget'
    BY DEF Registered, OneLoopPerTarget, Live
  <2>3. Accounted'
    BY DEF Accounted, Live
  <2>4. StartsAreFree' /\ EmptyRegistry'
    BY DEF StartsAreFree, EmptyRegistry
  <2> QED
    BY <2>1, <2>2, <2>3, <2>4
<1>12. CASE StopReturn
  <2> USE <1>12 DEF LifecycleInv, StopReturn, loopVars, seriesVars, mainVars
  <2>1. TypeOK'
    BY DEF TypeOK, MainLocs
  <2>2. Registered' /\ OneLoopPerTarget'
    BY DEF Registered, OneLoopPerTarget, Live
  <2>3. Accounted'
    BY DEF Accounted, Live
  <2>4. StartsAreFree' /\ EmptyRegistry'
    BY DEF StartsAreFree, EmptyRegistry
  <2> QED
    BY <2>1, <2>2, <2>3, <2>4
<1> QED
  BY <1>1, <1>2, <1>3, <1>4, <1>5, <1>6, <1>7, <1>8, <1>9, <1>10, <1>11, <1>12
  DEF MainStep

\* The lifecycle invariant, in particular type correctness, holds throughout.
THEOREM Lifecycle == Spec => []LifecycleInv
<1>1. Init => LifecycleInv
  <2> SUFFICES ASSUME Init PROVE LifecycleInv
    OBVIOUS
  <2> USE DEF Init
  <2>1. TypeOK
    BY DEF TypeOK, MainLocs, LoopLocs
  <2>2. Registered /\ Accounted /\ OneLoopPerTarget
    BY DEF Registered, Accounted, OneLoopPerTarget, Live
  <2>3. StartsAreFree /\ EmptyRegistry
    BY DEF StartsAreFree, EmptyRegistry, Configs
  <2> QED
    BY <2>1, <2>2, <2>3 DEF LifecycleInv
<1>2. LifecycleInv /\ [Next]_vars => LifecycleInv'
  <2> SUFFICES ASSUME LifecycleInv, [Next]_vars PROVE LifecycleInv'
    OBVIOUS
  <2>1. CASE UNCHANGED vars
    BY <2>1 DEF vars, mainVars, loopVars, seriesVars, LifecycleInv, TypeOK, Registered,
                Accounted, OneLoopPerTarget, StartsAreFree, EmptyRegistry, Live
  <2>2. CASE \E g \in Gids : LoopStep(g) \/ Tick(g)
    BY <2>2, LoopPreserves
  <2>3. CASE MainStep \/ Stop \/ \E C \in Configs : Start(C) \/ Reload(C)
    BY <2>3, MainPreserves
  <2> QED
    BY <2>1, <2>2, <2>3 DEF Next, Exited
<1> QED
  BY <1>1, <1>2, PTL DEF Spec

\* Type correctness.
COROLLARY TypeCorrect == Spec => []TypeOK
<1>1. LifecycleInv => TypeOK
  BY DEF LifecycleInv
<1> QED
  BY <1>1, Lifecycle, PTL

\* Two loops never probe the same target name, reloads included.
THEOREM NoOverlappingLoops == Spec => []OneLoopPerTarget
<1>1. LifecycleInv => OneLoopPerTarget
  BY DEF LifecycleInv
<1> QED
  BY <1>1, Lifecycle, PTL

\* Outside Reload and Stop every live loop is registered and uncancelled.
THEOREM NoOrphanedLoops == Spec => []NoOrphans
<1>1. LifecycleInv => NoOrphans
  BY DEF LifecycleInv, Accounted, NoOrphans
<1> QED
  BY <1>1, Lifecycle, PTL

\* When Stop has returned no goroutine and no registration is left.
THEOREM StopLeavesNothing == Spec => []StopPostcondition
<1>1. LifecycleInv => StopPostcondition
  BY DEF LifecycleInv, EmptyRegistry, StopPostcondition
<1> QED
  BY <1>1, Lifecycle, PTL

----------------------------------------------------------------------------
(* Reload reaches the configuration, and the series follow *)

\* Goroutines do not touch what ReloadInv speaks of, except that they may add
\* overlap counters and forget the target of a loop that is not registered.
LEMMA LoopKeepsReload ==
    ASSUME LifecycleInv, ReloadInv, NEW g \in Gids, LoopStep(g) \/ Tick(g)
    PROVE  ReloadInv'
<1>1. UNCHANGED <<mainVars, probes, cfgSeries>> /\ ovlSeries \subseteq ovlSeries'
  BY DEF LoopStep, Tick, JitterElapsed, JitterCancelled, ExecuteSkip, ExecuteBegin,
         ProbeDiscard, ProbeKeep, Record, SelectTick, SelectDone, DrainTick, DrainNone,
         CloseDone, WgDone, AfterExecute, Goto, seriesVars, mainVars
<1>2. \/ target' = target
      \/ pc[g] = "wgDone" /\ target' = [target EXCEPT ![g] = None]
  BY DEF LoopStep, Tick, JitterElapsed, JitterCancelled, ExecuteSkip, ExecuteBegin,
         ProbeDiscard, ProbeKeep, Record, SelectTick, SelectDone, DrainTick, DrainNone,
         CloseDone, WgDone, AfterExecute, Goto
<1>3. \A n \in Names : probes[n] # None => target'[probes[n]] = target[probes[n]]
  BY <1>2 DEF LifecycleInv, TypeOK, Registered, Live
<1>4. (\A s \in toStop : s.name \in Names) /\ \A s \in Targets : s.name \in Names
  BY DEF LifecycleInv, TypeOK, Names
<1>5. DiffProgress'
  <2> USE <1>1, <1>3, <1>4 DEF ReloadInv, DiffProgress, mainVars
  <2>1. config' \in Configs /\ config \in SUBSET Targets
    BY DEF LifecycleInv, TypeOK
  <2> QED
    BY <2>1
<1>6. SeriesProgress'
  BY <1>1, <1>3, <1>4 DEF ReloadInv, SeriesProgress, mainVars
<1> QED
  BY <1>5, <1>6 DEF ReloadInv

\* The steps of the caller keep Reload's bookkeeping: each stopped target
\* leaves the registry and loses its gauges, each started one enters it.
LEMMA MainKeepsReload ==
    ASSUME LifecycleInv, ReloadInv,
           \/ MainStep
           \/ Stop
           \/ \E C \in Configs : Start(C) \/ Reload(C)
    PROVE  ReloadInv'
<1> USE DEF ReloadInv
<1>N. \A s \in Targets : s.name \in Names /\ buildLabels(s) \in LabelSets
  BY DEF Names, LabelSets
<1>E. \A s, t \in Targets : Equal(s, t) => s.name = t.name
  BY DEF Equal, HashTarget
<1>B. \A s, t \in Targets : buildLabels(s) = buildLabels(t) => s.name = t.name
  BY DEF buildLabels
<1>R. \A n \in Names : probes[n] # None =>
          /\ probes[n] \in Gids
          /\ target[probes[n]] \in Targets
          /\ target[probes[n]].name = n
  BY DEF LifecycleInv, TypeOK, Registered, Accounted
<1>1. ASSUME NEW C \in Configs, Start(C)
      PROVE  ReloadInv'
  <2> USE <1>1 DEF Start, loopVars, seriesVars
  <2>1. \A n \in Names : probes[n] = None
    BY DEF LifecycleInv, EmptyRegistry
  <2>2. DiffProgress'
    BY <2>1 DEF DiffProgress
  <2>3. SeriesProgress'
    BY DEF SeriesProgress
  <2> QED
    BY <2>2, <2>3
<1>2. ASSUME NEW C \in Configs, Reload(C)
      PROVE  ReloadInv'
  <2> USE <1>2 DEF Reload, loopVars, seriesVars
  <2>1. C \subseteq Targets /\ \A s, t \in C : s.name = t.name => s = t
    BY DEF Configs
  <2>2. \A s \in Running : /\ s \in Targets
                           /\ probes[s.name] # None
                           /\ target[probes[s.name]] = s
    BY <1>R DEF Running
  <2>3. \A n \in Names : probes[n] # None => target[probes[n]] \in Running
    BY DEF Running
  <2>4. \A s \in toStop' : /\ probes[s.name] # None
                           /\ target[probes[s.name]] = s
                           /\ ~ \E t \in C : Equal(t, s)
    BY <2>1, <2>2, <1>E DEF diffToStop, Equal
  <2>5. \A n \in Names : probes[n] # None =>
              \/ target[probes[n]] \in toStop'
              \/ \E t \in C : Equal(t, target[probes[n]])
    BY <2>3 DEF diffToStop, Equal
  <2>6. \A t \in C : \/ t \in toStart'
                     \/ probes[t.name] # None /\ Equal(t, target[probes[t.name]])
    <3>1. ASSUME NEW t \in C, t \notin diffToStart(Running, C)
          PROVE  probes[t.name] # None /\ Equal(t, target[probes[t.name]])
      <4>1. PICK s \in Running : s.name = t.name /\ Equal(s, t)
        BY <3>1 DEF diffToStart
      <4>2. probes[t.name] # None /\ target[probes[t.name]] = s
        BY <2>2, <4>1
      <4> QED
        BY <4>1, <4>2 DEF Equal
    <3>2. toStart' = diffToStart(Running, C)
      OBVIOUS
    <3> QED
      BY <3>1, <3>2
  <2>7. toStart' \subseteq C
    BY DEF diffToStart
  <2>8. DiffProgress'
    BY <2>4, <2>5, <2>6, <2>7 DEF DiffProgress
  <2>9. SeriesProgress'
    BY DEF SeriesProgress
  <2> QED
    BY <2>8, <2>9
<1>3. ASSUME NEW t \in Targets, NEW g \in Gids, startTarget(t, g)
      PROVE  ReloadInv'
  <2> USE <1>3 DEF startTarget
  <2>1. probes[t.name] = None /\ t.name \in Names /\ buildLabels(t) \in LabelSets
    BY <1>N DEF LifecycleInv, StartsAreFree
  <2>2. /\ \A n \in Names : probes'[n] = IF n = t.name THEN g ELSE probes[n]
        /\ target'[g] = t
        /\ \A n \in Names : probes[n] # None => target'[probes[n]] = target[probes[n]]
    BY <2>1, <1>R DEF LifecycleInv, TypeOK, Registered, Live
  <2>3. g # None
    BY NoneAssumption
  <2>4. config \in SUBSET Targets
    BY DEF LifecycleInv, TypeOK
  <2>5. DiffProgress'
    <3> USE DEF DiffProgress
    <3>1. toStop' = {} /\ toStart' \subseteq config
      OBVIOUS
    <3>2. \A n \in Names : probes'[n] # None =>
               \E u \in config' : Equal(u, target'[probes'[n]])
      BY <2>2, <2>3 DEF Equal
    <3>3. \A u \in config' :
               \/ u \in toStart'
               \/ probes'[u.name] # None /\ Equal(u, target'[probes'[u.name]])
      <4> SUFFICES ASSUME NEW u \in config, u # t, u \notin toStart
                   PROVE  probes'[u.name] # None /\ Equal(u, target'[probes'[u.name]])
        BY <2>1, <2>2, <2>3 DEF Equal
      <4>1. probes[u.name] # None /\ Equal(u, target[probes[u.name]])
        OBVIOUS
      <4> QED
        BY <4>1, <2>1, <2>2, <2>4, <1>N DEF Equal
    <3> QED
      BY <3>1, <3>2, <3>3
  <2>6. SeriesProgress'
    <3> USE DEF SeriesProgress
    <3>1. cur = None /\ cur' = None
      OBVIOUS
    <3>2. \A l \in LabelSets : cfgSeries'[l] = IF l = buildLabels(t) THEN t ELSE cfgSeries[l]
      BY <2>1 DEF LifecycleInv, TypeOK
    <3>3. ASSUME NEW l \in LabelSets, NEW u \in Targets
          PROVE  cfgSeries'[l] = u <=>
                   /\ buildLabels(u) = l
                   /\ probes'[u.name] # None /\ target'[probes'[u.name]] = u
      <4>1. CASE u = t
        BY <4>1, <2>1, <2>2, <2>3, <3>1, <3>2, NoneAssumption
      <4>2. CASE u # t /\ u.name = t.name
        BY <4>2, <2>1, <2>2, <2>3, <3>1, <3>2, NoneAssumption
      <4>3. CASE u.name # t.name
        BY <4>3, <1>N, <1>B, <2>1, <2>2, <2>3, <3>1, <3>2, NoneAssumption
      <4> QED
        BY <4>1, <4>2, <4>3
    <3>4. \A n \in Names : probes'[n] # None => buildLabels(target'[probes'[n]]) \in ovlSeries'
      BY <2>1, <2>2
    <3> QED
      BY <3>1, <3>3, <3>4, NoneAssumption
  <2> QED
    BY <2>5, <2>6
<1>4. CASE StartDone
  BY <1>4 DEF StartDone, DiffProgress, SeriesProgress, loopVars, seriesVars
<1>5. ASSUME NEW t \in Targets, cancelTarget(t)
      PROVE  ReloadInv'
  <2> USE <1>5 DEF cancelTarget, seriesVars
  <2>1. probes[t.name] # None /\ target[probes[t.name]] = t /\ t.name \in Names
    BY <1>N DEF DiffProgress
  <2>2. \A n \in Names : probes'[n] = IF n = t.name THEN None ELSE probes[n]
    BY <2>1 DEF LifecycleInv, TypeOK
  <2>3. config \in SUBSET Targets /\ toStop \in SUBSET Targets
    BY DEF LifecycleInv, TypeOK
  <2>4. DiffProgress'
    <3> USE DEF DiffProgress
    <3>1. \A s \in toStop' : /\ probes'[s.name] # None
                             /\ target[probes'[s.name]] = s
                             /\ ~ \E u \in config : Equal(u, s)
      BY <2>1, <2>2, <2>3, <1>N
    <3>2. \A n \in Names : probes'[n] # None =>
              \/ target[probes'[n]] \in toStop'
              \/ \E u \in config : Equal(u, target[probes'[n]])
      BY <2>2, <1>R
    <3>3. \A u \in config :
              \/ u \in toStart
              \/ probes'[u.name] # None /\ Equal(u, target[probes'[u.name]])
      BY <2>1, <2>2, <2>3, <1>N
    <3> QED
      BY <3>1, <3>2, <3>3
  <2>5. SeriesProgress'
    <3> USE DEF SeriesProgress
    <3>1. ASSUME NEW l \in LabelSets, NEW u \in Targets
          PROVE  cfgSeries[l] = u <=>
                   /\ buildLabels(u) = l
                   /\ \/ u = t
                      \/ probes'[u.name] # None /\ target[probes'[u.name]] = u
      <4>1. CASE u.name = t.name
        BY <4>1, <2>1, <2>2, NoneAssumption
      <4>2. CASE u.name # t.name
        BY <4>2, <2>1, <2>2, <1>N, NoneAssumption
      <4> QED
        BY <4>1, <4>2
    <3>2. \A n \in Names : probes'[n] # None => buildLabels(target[probes'[n]]) \in ovlSeries
      BY <2>2
    <3> QED
      BY <2>1, <2>2, <3>1, <3>2, NoneAssumption
  <2> QED
    BY <2>4, <2>5
<1>6. CASE DeleteTarget
  <2> USE <1>6 DEF DeleteTarget, loopVars
  <2>1. DiffProgress'
    BY DEF DiffProgress
  <2>2. cur \in Targets /\ probes[cur.name] = None /\ buildLabels(cur) \in LabelSets
    BY <1>N DEF SeriesProgress, LifecycleInv, TypeOK
  <2>3. \A l \in LabelSets : cfgSeries'[l] = IF l = buildLabels(cur) THEN None ELSE cfgSeries[l]
    BY <2>2 DEF LifecycleInv, TypeOK
  <2>4. ASSUME NEW l \in LabelSets, NEW u \in Targets
        PROVE  cfgSeries'[l] = u <=>
                   /\ buildLabels(u) = l
                   /\ probes[u.name] # None /\ target[probes[u.name]] = u
    BY <2>2, <2>3, <1>B, NoneAssumption DEF SeriesProgress
  <2>5. \A n \in Names : probes[n] # None => buildLabels(target[probes[n]]) # buildLabels(cur)
    BY <2>2, <1>B, <1>R
  <2>6. SeriesProgress'
    BY <2>4, <2>5, NoneAssumption DEF SeriesProgress
  <2> QED
    BY <2>1, <2>6
<1>7. CASE StopLoopDone
  BY <1>7 DEF StopLoopDone, DiffProgress, SeriesProgress, loopVars, seriesVars
<1>8. CASE WaitDone
  BY <1>8 DEF WaitDone, DiffProgress, SeriesProgress, loopVars, seriesVars, LifecycleInv,
              StartsAreFree
<1>9. CASE Stop
  BY <1>9 DEF Stop, DiffProgress, SeriesProgress, loopVars, seriesVars
<1>10. ASSUME NEW n \in Names, StopCancel(n)
       PROVE  ReloadInv'
  <2> USE <1>10 DEF StopCancel, mainVars, seriesVars
  <2>1. \A m \in Names : probes'[m] = IF m = n THEN None ELSE probes[m]
    BY DEF LifecycleInv, TypeOK
  <2> QED
    BY <2>1 DEF DiffProgress, SeriesProgress
<1>11. CASE StopUnlock
  BY <1>11 DEF StopUnlock, DiffProgress, SeriesProgress, loopVars, seriesVars
<1>12. CASE StopReturn
  BY <1>12 DEF StopReturn, DiffProgress, SeriesProgress, loopVars, seriesVars
<1> QED
  BY <1>1, <1>2, <1>3, <1>4, <1>5, <1>6, <1>7, <1>8, <1>9, <1>10, <1>11, <1>12
  DEF MainStep

\* Reload's bookkeeping: see DiffProgress and SeriesProgress.
THEOREM ReloadBookkeeping == Spec => []ReloadInv
<1>1. Init => ReloadInv
  <2> SUFFICES ASSUME Init PROVE ReloadInv
    OBVIOUS
  <2>1. \A t \in Targets : t.name \in Names
    BY DEF Names
  <2>2. DiffProgress
    BY DEF Init, DiffProgress, Configs
  <2>3. SeriesProgress
    BY <2>1, NoneAssumption DEF Init, SeriesProgress
  <2> QED
    BY <2>2, <2>3 DEF ReloadInv
<1>2. LifecycleInv /\ ReloadInv /\ [Next]_vars => ReloadInv'
  <2> SUFFICES ASSUME LifecycleInv, ReloadInv, [Next]_vars PROVE ReloadInv'
    OBVIOUS
  <2>1. CASE UNCHANGED vars
    BY <2>1 DEF vars, mainVars, loopVars, seriesVars, ReloadInv, DiffProgress, SeriesProgress
  <2>2. CASE \E g \in Gids : LoopStep(g) \/ Tick(g)
    BY <2>2, LoopKeepsReload
  <2>3. CASE MainStep \/ Stop \/ \E C \in Configs : Start(C) \/ Reload(C)
    BY <2>3, MainKeepsReload
  <2> QED
    BY <2>1, <2>2, <2>3 DEF Next, Exited
<1> QED
  BY <1>1, <1>2, Lifecycle, PTL DEF Spec

\* When Start or Reload has returned, exactly the configured targets run.
THEOREM ReloadPostcondition == Spec => []RunsConfig
<1>1. LifecycleInv /\ ReloadInv => RunsConfig
  <2> SUFFICES ASSUME LifecycleInv, ReloadInv, pcMain = "idle" PROVE
          /\ {HashTarget(t) : t \in Running} = {HashTarget(t) : t \in config}
          /\ \A n \in Names : probes[n] # None => Live(probes[n])
    BY DEF RunsConfig
  <2>1. \A s \in Running : \E t \in config : HashTarget(t) = HashTarget(s)
    BY DEF Running, ReloadInv, DiffProgress, Equal
  <2>2. \A t \in config : \E s \in Running : HashTarget(t) = HashTarget(s)
    <3>1. \A t \in config : t.name \in Names
      BY DEF LifecycleInv, TypeOK, Names
    <3> QED
      BY <3>1 DEF Running, ReloadInv, DiffProgress, Equal
  <2> QED
    BY <2>1, <2>2 DEF LifecycleInv, Registered
<1> QED
  BY <1>1, Lifecycle, ReloadBookkeeping, PTL

\* When Start or Reload has returned, the gauges of EnsureTarget describe
\* exactly the running targets.
THEOREM SeriesFollowTargets == Spec => []SeriesMatchRunning
<1>1. LifecycleInv /\ ReloadInv => SeriesMatchRunning
  <2> SUFFICES ASSUME LifecycleInv, ReloadInv, pcMain = "idle" PROVE
          /\ \A l \in LabelSets, t \in Targets :
                cfgSeries[l] = t <=> t \in Running /\ buildLabels(t) = l
          /\ \A t \in Running : buildLabels(t) \in ovlSeries
    BY DEF SeriesMatchRunning
  <2>1. \A t \in Targets : t \in Running <=>
            probes[t.name] # None /\ target[probes[t.name]] = t
    BY DEF Running, LifecycleInv, TypeOK, Registered, Names
  <2>2. cur = None
    BY DEF ReloadInv, SeriesProgress
  <2>3. \A l \in LabelSets, t \in Targets :
            cfgSeries[l] = t <=> t \in Running /\ buildLabels(t) = l
    BY <2>1, <2>2, NoneAssumption DEF ReloadInv, SeriesProgress
  <2>4. \A t \in Running : buildLabels(t) \in ovlSeries
    BY DEF Running, ReloadInv, SeriesProgress
  <2> QED
    BY <2>3, <2>4
<1> QED
  BY <1>1, Lifecycle, ReloadBookkeeping, PTL

\* Reload never cancels the loop of a target it leaves unchanged.
THEOREM UnchangedKeepRunning == Spec => UnchangedUndisturbed
<1>1. LifecycleInv /\ ReloadInv /\ [Next]_vars => [CancelsChangedOnly]_vars
  <2> SUFFICES ASSUME LifecycleInv, ReloadInv, Next, NEW g \in Gids,
                      ~cancelled[g], cancelled'[g]
               PROVE  \/ pcMain = "stopAll"
                      \/ ~ \E t \in config : Equal(t, target[g])
    BY DEF CancelsChangedOnly
  <2>1. ASSUME NEW h \in Gids, LoopStep(h) \/ Tick(h) PROVE FALSE
    BY <2>1 DEF LoopStep, Tick, JitterElapsed, JitterCancelled, ExecuteSkip, ExecuteBegin,
       ProbeDiscard, ProbeKeep, Record, SelectTick, SelectDone, DrainTick, DrainNone,
       CloseDone, WgDone, AfterExecute, Goto, LifecycleInv, TypeOK
  <2>2. ASSUME NEW t \in Targets, NEW h \in Gids, startTarget(t, h) PROVE FALSE
    BY <2>2 DEF startTarget, LifecycleInv, TypeOK
  <2>3. ASSUME NEW t \in Targets, cancelTarget(t)
        PROVE  ~ \E u \in config : Equal(u, target[g])
    <3>1. /\ probes[t.name] # None /\ target[probes[t.name]] = t
          /\ ~ \E u \in config : Equal(u, t)
      BY <2>3 DEF cancelTarget, ReloadInv, DiffProgress
    <3>2. g = probes[t.name]
      BY <2>3, <3>1 DEF cancelTarget, LifecycleInv, TypeOK
    <3> QED
      BY <3>1, <3>2
  <2>4. CASE \E n \in Names : StopCancel(n)
    BY <2>4 DEF StopCancel
  <2>5. CASE Stop \/ StartDone \/ DeleteTarget \/ StopLoopDone \/ WaitDone
             \/ StopUnlock \/ StopReturn \/ Exited
             \/ \E C \in Configs : Start(C) \/ Reload(C)
    BY <2>5 DEF Stop, StartDone, DeleteTarget, StopLoopDone, WaitDone, StopUnlock,
                StopReturn, Exited, Start, Reload, loopVars, vars
  <2> QED
    BY <2>1, <2>2, <2>3, <2>4, <2>5 DEF Next, MainStep
<1> QED
  BY <1>1, Lifecycle, ReloadBookkeeping, PTL DEF Spec, UnchangedUndisturbed

\* Between calls only loops of running targets write series.
THEOREM QuiescentExporter == Spec => QuiescentWrites
<1>1. LifecycleInv /\ [Next]_vars => [WritesRunningOnly]_vars
  <2> SUFFICES ASSUME LifecycleInv, Next, pcMain = "idle", NEW l \in LabelSets,
                      \/ resSeries'[l] # resSeries[l]
                      \/ l \in ovlSeries' /\ l \notin ovlSeries
               PROVE  \E t \in Running : buildLabels(t) = l
    BY DEF WritesRunningOnly
  <2>1. ASSUME NEW g \in Gids, Live(g)
        PROVE  target[g] \in Running
    <3>1. target[g] \in Targets /\ target[g].name \in Names /\ probes[target[g].name] = g
      BY <2>1 DEF LifecycleInv, Accounted, Names
    <3> QED
      BY <3>1, NoneAssumption DEF Running
  <2>2. ASSUME NEW g \in Gids, LoopStep(g) \/ Tick(g)
        PROVE  Live(g) /\ buildLabels(target[g]) = l
    <3>1. CASE Record(g)
      BY <3>1 DEF Record, AfterExecute, Goto, Live, LifecycleInv, TypeOK
    <3>2. CASE DrainTick(g)
      BY <3>2 DEF DrainTick, Goto, Live, LifecycleInv, TypeOK
    <3>3. CASE ~Record(g) /\ ~DrainTick(g)
      BY <2>2, <3>3 DEF LoopStep, Tick, JitterElapsed, JitterCancelled, ExecuteSkip,
         ExecuteBegin, ProbeDiscard, ProbeKeep, SelectTick, SelectDone, DrainNone,
         CloseDone, WgDone, seriesVars
    <3> QED
      BY <3>1, <3>2, <3>3
  <2>3. CASE MainStep \/ Stop \/ Exited \/ \E C \in Configs : Start(C) \/ Reload(C)
    BY <2>3 DEF MainStep, Stop, StartDone, DeleteTarget, StopLoopDone, WaitDone, StopUnlock,
                StopReturn, Exited, Start, Reload, startTarget, cancelTarget, StopCancel,
                seriesVars, vars
  <2> QED
    BY <2>1, <2>2, <2>3 DEF Next
<1> QED
  BY <1>1, Lifecycle, PTL DEF Spec, QuiescentWrites

----------------------------------------------------------------------------
(***************************************************************************)
(* The refinement.  Scheduler implements TargetSet, for every set of       *)
(* targets and every number of goroutines.  A probe loop counts as probing *)
(* until it closes its done channel; that step is the abstract Withdraw or *)
(* EndOne, and startTarget is the abstract Launch.  Everything else of a   *)
(* call, and every other step of a loop, stutters.                         *)
(***************************************************************************)

\* What loops do leaves the caller, the registry and the cancellations alone.
LEMMA LoopFrame ==
    ASSUME LifecycleInv, NEW g \in Gids, LoopStep(g) \/ Tick(g)
    PROVE  /\ UNCHANGED <<pcMain, config>>
           /\ \A h \in Gids : Live(h)' => /\ Live(h)
                                          /\ target'[h] = target[h]
                                          /\ cancelled'[h] = cancelled[h]
           /\ ~CloseDone(g) => \A h \in Gids : Live(h) => Live(h)'
           /\ CloseDone(g) => /\ Live(g)
                              /\ cancelled[g]
                              /\ \A h \in Gids : Live(h)' <=> Live(h) /\ h # g
<1> USE DEF Live, mainVars, LifecycleInv, TypeOK
<1>1. CASE CloseDone(g)
  <2>1. pc[g] = "close" /\ UNCHANGED <<mainVars, target, cancelled>>
    BY <1>1 DEF CloseDone, Goto
  <2>2. cancelled[g]
    BY <2>1, NoneAssumption DEF Accounted, Registered, Names
  <2>3. \A h \in Gids : Live(h)' <=> Live(h) /\ h # g
    BY <1>1 DEF CloseDone, Goto
  <2> QED
    BY <1>1, <2>1, <2>2, <2>3
<1>2. CASE WgDone(g)
  BY <1>2 DEF WgDone, CloseDone, Goto
<1>3. CASE Tick(g)
  BY <1>3 DEF Tick, CloseDone, Goto
<1>4. CASE \/ JitterElapsed(g) \/ JitterCancelled(g)
           \/ ExecuteSkip(g) \/ ExecuteBegin(g)
           \/ ProbeDiscard(g) \/ ProbeKeep(g) \/ Record(g)
           \/ SelectTick(g) \/ SelectDone(g)
           \/ DrainTick(g) \/ DrainNone(g)
  <2>1. /\ UNCHANGED <<mainVars, target, cancelled>>
        /\ pc[g] \notin {"free", "wgDone", "close"}
        /\ \E to \in LoopLocs \ {"free", "wgDone"} : pc' = [pc EXCEPT ![g] = to]
    BY <1>4 DEF JitterElapsed, JitterCancelled, ExecuteSkip, ExecuteBegin, ProbeDiscard,
       ProbeKeep, Record, SelectTick, SelectDone, DrainTick, DrainNone, AfterExecute, Goto,
       LoopLocs
  <2> QED
    BY <2>1 DEF CloseDone, Goto
<1> QED
  BY <1>1, <1>2, <1>3, <1>4 DEF LoopStep

\* A loop cancelled by a Reload is one the new configuration does not want.
LEMMA UnwantedStep ==
    ASSUME LifecycleInv, ReloadInv, CancelledUnwanted, [Next]_vars
    PROVE  CancelledUnwanted'
<1> USE DEF CancelledUnwanted
<1>1. ASSUME NEW g \in Gids, LoopStep(g) \/ Tick(g) PROVE CancelledUnwanted'
  BY <1>1, LoopFrame DEF Hashed, HashTarget
<1>2. ASSUME NEW t \in Targets, cancelTarget(t) PROVE CancelledUnwanted'
  <2> SUFFICES ASSUME NEW g \in Gids, Live(g)', cancelled'[g]
               PROVE  HashTarget(target[g]) \notin Hashed(config)
    BY <1>2 DEF cancelTarget, Hashed, HashTarget
  <2>1. Live(g)
    BY <1>2 DEF cancelTarget, Live
  <2>2. CASE cancelled[g]
    BY <1>2, <2>1, <2>2 DEF cancelTarget
  <2>3. CASE ~cancelled[g]
    <3>1. /\ probes[t.name] # None /\ target[probes[t.name]] = t
          /\ ~ \E u \in config : Equal(u, t)
      BY <1>2 DEF cancelTarget, ReloadInv, DiffProgress
    <3>2. g = probes[t.name]
      BY <1>2, <2>3, <3>1 DEF cancelTarget, LifecycleInv, TypeOK
    <3> QED
      BY <3>1, <3>2 DEF Hashed, Equal
  <2> QED
    BY <2>2, <2>3
<1>3. ASSUME NEW C \in Configs, Reload(C) PROVE CancelledUnwanted'
  BY <1>3 DEF Reload, loopVars, Live, LifecycleInv, Accounted
<1>4. CASE \/ \E t \in Targets, g \in Gids : startTarget(t, g)
           \/ \E C \in Configs : Start(C)
           \/ \E n \in Names : StopCancel(n)
           \/ StartDone \/ WaitDone \/ Stop \/ StopUnlock \/ StopReturn
  BY <1>4 DEF startTarget, Start, StopCancel, StartDone, WaitDone, Stop, StopUnlock,
              StopReturn, mainVars
<1>5. CASE DeleteTarget \/ StopLoopDone
  BY <1>5 DEF DeleteTarget, StopLoopDone, loopVars, Live, Hashed
<1>6. CASE UNCHANGED vars
  BY <1>6 DEF vars, mainVars, loopVars, Live, Hashed
<1> QED
  BY <1>1, <1>2, <1>3, <1>4, <1>5, <1>6 DEF Next, MainStep, Exited

\* Loops that can still probe have distinct hashes.
LEMMA DistinctHashes ==
    ASSUME LifecycleInv, NEW g \in Gids, NEW h \in Gids, Live(g), Live(h),
           HashTarget(target[g]) = HashTarget(target[h])
    PROVE  g = h
BY DEF LifecycleInv, OneLoopPerTarget, HashTarget

\* A step of a loop withdraws its target or stutters.
LEMMA LoopRefines ==
    ASSUME LifecycleInv, CancelledUnwanted, NEW g \in Gids, LoopStep(g) \/ Tick(g)
    PROVE  [TS!Next]_(TS!vars)
<1>F. /\ UNCHANGED <<pcMain, config>>
      /\ \A h \in Gids : Live(h)' => Live(h) /\ target'[h] = target[h]
  BY LoopFrame
<1>S. UNCHANGED <<CallMode, Hashed(config)>>
  BY <1>F DEF CallMode, Hashed
<1>1. CASE ~CloseDone(g)
  <2>1. \A h \in Gids : Live(h)' <=> Live(h)
    BY <1>1, LoopFrame
  <2>2. Probed' = Probed
    BY <1>F, <2>1 DEF Probed
  <2> QED
    BY <1>S, <2>2 DEF TS!vars
<1>2. CASE CloseDone(g)
  <2> DEFINE h == HashTarget(target[g])
  <2>1. Live(g) /\ cancelled[g] /\ \A k \in Gids : Live(k)' <=> Live(k) /\ k # g
    BY <1>2, LoopFrame
  <2>2. h \in Probed
    BY <2>1 DEF Probed
  <2>3. Probed' = Probed \ {h}
    BY <1>F, <2>1, DistinctHashes DEF Probed
  <2>4. \/ pcMain \in {"stop", "delete", "wait"}
        \/ pcMain \in {"stopAll", "wgWait"}
    BY <2>1 DEF LifecycleInv, Accounted
  <2>5. CASE pcMain \in {"stop", "delete", "wait"}
    <3>1. CallMode = "applying" /\ h \notin Hashed(config)
      BY <2>1, <2>5 DEF CallMode, CancelledUnwanted
    <3>2. TS!Withdraw(h)
      BY <1>S, <2>2, <2>3, <3>1 DEF TS!Withdraw
    <3> QED
      BY <2>2, <3>2 DEF TS!Next
  <2>6. CASE pcMain \in {"stopAll", "wgWait"}
    <3>1. CallMode = "stopping"
      BY <2>6 DEF CallMode
    <3>2. TS!EndOne(h)
      BY <1>S, <2>2, <2>3, <3>1 DEF TS!EndOne
    <3> QED
      BY <2>2, <3>2 DEF TS!Next
  <2> QED
    BY <2>4, <2>5, <2>6
<1> QED
  BY <1>1, <1>2

\* A step of the caller is one of the abstract calls' steps or stutters.
LEMMA MainRefines ==
    ASSUME LifecycleInv, ReloadInv,
           \/ MainStep
           \/ Stop
           \/ \E C \in Configs : Start(C) \/ Reload(C)
    PROVE  [TS!Next]_(TS!vars)
<1>1. ASSUME UNCHANGED loopVars PROVE Probed' = Probed
  BY <1>1 DEF loopVars, Probed, Live
<1>2. ASSUME NEW C \in Configs, Start(C) \/ Reload(C) PROVE TS!Next
  <2>1. /\ CallMode \in {"new", "applied"} /\ CallMode' = "applying"
        /\ config' = C /\ UNCHANGED loopVars
    BY <1>2 DEF Start, Reload, CallMode
  <2>2. Hashed(config)' = Hashed(C)
    BY <2>1 DEF Hashed
  <2>3. TS!Apply(Hashed(C))
    BY <1>1, <2>1, <2>2 DEF TS!Apply
  <2> QED
    BY <2>3 DEF TS!Next
<1>3. ASSUME NEW t \in Targets, NEW g \in Gids, startTarget(t, g) PROVE TS!Next
  <2>1. /\ CallMode = "applying" /\ UNCHANGED <<CallMode, Hashed(config)>>
        /\ t \in toStart /\ toStart \subseteq config
    BY <1>3 DEF startTarget, CallMode, Hashed, ReloadInv, DiffProgress
  <2>2. \A h \in Gids : Live(h) => ~cancelled[h] /\ probes[target[h].name] = h
    BY <1>3 DEF startTarget, LifecycleInv, Accounted
  <2>3. Probed \subseteq Hashed(config)
    <3>1. toStop = {} /\ \A n \in Names : probes[n] # None =>
                             \E u \in config : Equal(u, target[probes[n]])
      BY <1>3 DEF startTarget, ReloadInv, DiffProgress
    <3>2. \A h \in Gids : Live(h) => \E u \in config : Equal(u, target[h])
      BY <2>2, <3>1, NoneAssumption DEF LifecycleInv, Accounted, Names
    <3> QED
      BY <3>2 DEF Probed, Hashed, Equal
  <2>4. HashTarget(t) \notin Probed
    <3>1. probes[t.name] = None
      BY <1>3, <2>1 DEF startTarget, LifecycleInv, StartsAreFree
    <3>2. \A h \in Gids : Live(h) => target[h].name # t.name
      BY <2>2, <3>1, NoneAssumption
    <3> QED
      BY <3>2 DEF Probed, HashTarget
  <2>5. Probed' = Probed \union {HashTarget(t)}
    <3>1. /\ Live(g)' /\ target'[g] = t /\ ~Live(g)
          /\ \A h \in Gids : h # g => (Live(h)' <=> Live(h)) /\ target'[h] = target[h]
      BY <1>3 DEF startTarget, Live, LifecycleInv, TypeOK
    <3> QED
      BY <3>1 DEF Probed
  <2>6. HashTarget(t) \in Hashed(config)
    BY <2>1 DEF Hashed
  <2>7. TS!Launch(HashTarget(t))
    BY <2>1, <2>3, <2>4, <2>5, <2>6 DEF TS!Launch
  <2> QED
    BY <2>6, <2>7 DEF TS!Next
<1>4. CASE StartDone
  <2>1. /\ CallMode = "applying" /\ CallMode' = "applied"
        /\ UNCHANGED <<Hashed(config), loopVars>>
    BY <1>4 DEF StartDone, CallMode, Hashed
  <2>2. \A h \in Gids : Live(h) => /\ probes[target[h].name] = h
                                   /\ target[h].name \in Names
    BY <1>4 DEF StartDone, LifecycleInv, Accounted, Names
  <2>3. /\ \A n \in Names : probes[n] # None => \E u \in config : Equal(u, target[probes[n]])
        /\ \A u \in config : probes[u.name] # None /\ Equal(u, target[probes[u.name]])
    BY <1>4 DEF StartDone, ReloadInv, DiffProgress
  <2>4. \A u \in config : /\ probes[u.name] \in Gids
                          /\ Live(probes[u.name])
    BY <2>3 DEF LifecycleInv, TypeOK, Registered, Names
  <2>5. Probed = Hashed(config)
    BY <2>2, <2>3, <2>4, NoneAssumption DEF Probed, Hashed, Equal
  <2>6. TS!Applied
    BY <1>1, <2>1, <2>5 DEF TS!Applied
  <2> QED
    BY <2>6 DEF TS!Next
<1>5. CASE \/ \E t \in Targets : cancelTarget(t)
           \/ DeleteTarget \/ StopLoopDone \/ WaitDone
           \/ \E n \in Names : StopCancel(n)
           \/ StopUnlock
  <2>1. UNCHANGED <<CallMode, config, pc, target>>
    BY <1>5 DEF cancelTarget, DeleteTarget, StopLoopDone, WaitDone, StopCancel, StopUnlock,
                CallMode, mainVars, loopVars
  <2>2. Probed' = Probed /\ Hashed(config)' = Hashed(config)
    BY <2>1 DEF Probed, Live, Hashed
  <2> QED
    BY <2>1, <2>2 DEF TS!vars
<1>6. CASE Stop
  <2>1. /\ CallMode = "applied" /\ CallMode' = "stopping"
        /\ UNCHANGED <<Hashed(config), loopVars>>
    BY <1>6 DEF Stop, CallMode, Hashed
  <2> QED
    BY <1>1, <2>1 DEF TS!Stop, TS!Next
<1>7. CASE StopReturn
  <2>1. /\ CallMode = "stopping" /\ CallMode' = "stopped"
        /\ UNCHANGED <<Hashed(config), loopVars>>
    BY <1>7 DEF StopReturn, CallMode, Hashed
  <2>2. Probed = {}
    BY <1>7 DEF StopReturn, Probed, Live
  <2> QED
    BY <1>1, <2>1, <2>2 DEF TS!Stopped, TS!Next
<1> QED
  BY <1>2, <1>3, <1>4, <1>5, <1>6, <1>7 DEF MainStep

\* The scheduler implements its abstract specification: whatever the probe
\* loops do, Start, Reload and Stop replace the set of probed targets in the
\* order TargetSet prescribes (scheduler.go:108-153, 77-92).
THEOREM Implementation == Spec => ImplementsTargetSet
<1>1. Init => TS!Init
  BY DEF Init, TS!Init, CallMode, Hashed, Probed, Live
<1>2. Init => CancelledUnwanted
  BY DEF Init, CancelledUnwanted
<1>3. LifecycleInv /\ ReloadInv /\ CancelledUnwanted /\ [Next]_vars => CancelledUnwanted'
  BY UnwantedStep
<1>4. LifecycleInv /\ ReloadInv /\ CancelledUnwanted /\ [Next]_vars
         => [TS!Next]_(TS!vars)
  <2> SUFFICES ASSUME LifecycleInv, ReloadInv, CancelledUnwanted, [Next]_vars
               PROVE  [TS!Next]_(TS!vars)
    OBVIOUS
  <2>1. CASE UNCHANGED vars
    BY <2>1 DEF vars, mainVars, loopVars, TS!vars, CallMode, Hashed, Probed, Live
  <2>2. CASE \E g \in Gids : LoopStep(g) \/ Tick(g)
    BY <2>2, LoopRefines
  <2>3. CASE MainStep \/ Stop \/ \E C \in Configs : Start(C) \/ Reload(C)
    BY <2>3, MainRefines
  <2> QED
    BY <2>1, <2>2, <2>3 DEF Next, Exited
<1> QED
  BY <1>1, <1>2, <1>3, <1>4, Lifecycle, ReloadBookkeeping, PTL
     DEF Spec, ImplementsTargetSet, TS!Spec
=============================================================================
