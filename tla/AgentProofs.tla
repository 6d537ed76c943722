---------------------------- MODULE AgentProofs ----------------------------
(***************************************************************************)
(* The agent process keeps what it runs and what it reports together and   *)
(* ends cleanly when it says so: for every set of configuration files and  *)
(* flags.                                                                  *)
(*                                                                         *)
(* What it serves at /metrics is exact: the vector operations of the       *)
(* exporter's calls interleave and are read by scrapes in between, and     *)
(* still amount to whole calls, for any targets and results.               *)
(***************************************************************************)
EXTENDS Agent, Exposition, FiniteSetTheorems, SequenceTheorems, TLAPS

Valid == Files \ {Invalid}

\* What startup makes of file f.
Overridden(f) == IF flag = NoFlag THEN f ELSE [f EXCEPT !.listenAddr = flag]

\* Since it was loaded cfg is the startup file with the flag applied, and what
\* a reload has loaded is a valid file.
LoadedInv ==
    /\ pc \notin {"boot", "exited"} => startFile \in Valid
    /\ startFile # Unset => startFile \in Valid /\ cfg = Overridden(startFile)
    /\ pc = "boot" => startFile = Unset /\ rejected = Unset
    /\ pc \in {"check", "level", "reset", "info", "total"} => newCfg \in Valid
    /\ rejected # Unset => rejected \in Valid /\ startFile # Unset

SameStartup(c) == \A f \in StartupOnly : c[f] = cfg[f]

\* Everything the agent runs and reports comes from c.
AllFrom(c) ==
    /\ targets = c.targets
    /\ logLevel = c.logLevel
    /\ hashes = {c}
    /\ total = Cardinality(c.targets)
    /\ SameStartup(c)

\* How far a reload has come.
ReloadingInv ==
    /\ pc \in {"boot", "start"} => hashes = {}
    /\ pc \in {"notify", "select", "load", "check"} =>
         \E c \in Files \union {cfg} : c # Invalid /\ AllFrom(c)
    /\ pc \in {"level", "reset", "info", "total"} =>
         targets = newCfg.targets /\ SameStartup(newCfg)
    /\ pc \in {"reset", "info", "total"} => logLevel = newCfg.logLevel
    /\ pc = "info" => hashes = {}
    /\ pc = "total" => hashes = {newCfg}

\* How far a shutdown has come.
ShutdownInv ==
    /\ pc \in {"close", "drain"} => targets = {}
    /\ pc = "drain" => srv # "serving"
    /\ exit = "0" => pc = "exited"
    /\ CleanExit

AgentInv == TypeOK /\ LoadedInv /\ ReloadingInv /\ ShutdownInv

----------------------------------------------------------------------------
\* What the environment does to run() leaves its configuration alone.
Environment ==
    \/ \E f \in Files : EditFile(f)
    \/ \E s \in Signals : Signal(s)
    \/ ServerFails \/ ScrapeBegin \/ ScrapeEnd

LEMMA Initially == Init => AgentInv
<1> SUFFICES ASSUME Init PROVE AgentInv
  OBVIOUS
<1>1. TypeOK
  <2>1. srvErr \in BOOLEAN
    BY Zenon DEF Init
  <2>2. scrapes \in 0..MaxScrapes /\ sigCh \in Seq(Signals) /\ Len(sigCh) <= SigCap
    BY ScrapeAssumption DEF Init, SigCap
  <2> QED
    BY <2>1, <2>2 DEF Init, TypeOK, Locs
<1>2. LoadedInv /\ ReloadingInv /\ ShutdownInv
  BY UnsetAssumption DEF Init, LoadedInv, ReloadingInv, ShutdownInv, CleanExit
<1> QED
  BY <1>1, <1>2 DEF AgentInv

LEMMA SignalType ==
    ASSUME TypeOK, NEW s \in Signals, Signal(s)
    PROVE  TypeOK'
<1>1. sigCh' \in Seq(Signals) /\ Len(sigCh') <= SigCap
  BY DEF TypeOK, Signal, SigCap
<1> QED
  BY <1>1 DEF TypeOK, Signal, Locs, configVars, serverVars

LEMMA TypeStep ==
    ASSUME AgentInv, [Next]_vars
    PROVE  TypeOK'
<1> USE DEF AgentInv
<1>1. CASE \/ LoadStartup \/ StartAgent \/ Notify
  BY <1>1
     DEF LoadStartup, StartAgent, Notify, TypeOK, Locs, configVars, serverVars, ComputeHash,
         ReloadingInv
<1>2. CASE TakeHup \/ TakeTerm
  BY <1>2 DEF TakeHup, TakeTerm, TypeOK, Locs, configVars, serverVars, SigCap
<1>3. CASE \/ ReloadLoad \/ ReloadReject \/ ReloadAccept \/ ReloadLevel
           \/ SetConfigInfoReset \/ SetConfigInfo \/ SetTargetsTotal
  BY <1>3 DEF ReloadLoad, ReloadReject, ReloadAccept, ReloadLevel, SetConfigInfoReset,
              SetConfigInfo, SetTargetsTotal, TypeOK, Locs, serverVars, ComputeHash,
              LoadedInv, Valid
<1>4. CASE \/ TakeServerError \/ StopOnError
           \/ ShutdownStop \/ ShutdownClose \/ ShutdownDrained \/ ShutdownDeadline
  BY <1>4 DEF TakeServerError, StopOnError, ShutdownStop, ShutdownClose, ShutdownDrained,
              ShutdownDeadline, TypeOK, Locs, configVars, serverVars
<1>5. ASSUME NEW s \in Signals, Signal(s) PROVE TypeOK'
  BY <1>5, SignalType
<1>6. CASE \E f \in Files : EditFile(f)
  BY <1>6 DEF EditFile, TypeOK, configVars, serverVars
<1>7. CASE ServerFails \/ ScrapeBegin \/ ScrapeEnd
  <2>1. srvErr' \in BOOLEAN
    BY <1>7, Zenon DEF ServerFails, ScrapeBegin, ScrapeEnd, TypeOK
  <2>2. scrapes' \in 0..MaxScrapes
    BY <1>7, ScrapeAssumption DEF ServerFails, ScrapeBegin, ScrapeEnd, TypeOK
  <2> QED
    BY <1>7, <2>1, <2>2 DEF ServerFails, ScrapeBegin, ScrapeEnd, TypeOK, configVars
<1>8. CASE UNCHANGED vars
  BY <1>8 DEF vars, TypeOK, configVars, serverVars
<1> QED
  BY <1>1, <1>2, <1>3, <1>4, <1>5, <1>6, <1>7, <1>8 DEF Next, AgentStep, Exited

\* Where the environment leaves run(), and what it does not touch.
LEMMA EnvironmentFrame ==
    ASSUME Environment \/ UNCHANGED vars
    PROVE  /\ UNCHANGED <<flag, configVars, startFile, rejected>>
           /\ pc' = pc \/ (pc' = "exited" /\ exit' = "killed")
           /\ pc' = pc => exit' = exit
           /\ pc = "exited" => UNCHANGED vars
           /\ srv' = srv \/ srv' = "failed"
BY DEF Environment, EditFile, Signal, ServerFails, ScrapeBegin, ScrapeEnd, vars, configVars,
       serverVars

----------------------------------------------------------------------------
LEMMA LoadedStep ==
    ASSUME AgentInv, [Next]_vars
    PROVE  LoadedInv'
<1> USE DEF AgentInv
<1>1. CASE LoadStartup
  BY <1>1, UnsetAssumption
     DEF LoadStartup, TypeOK, LoadedInv, Valid, Overridden
<1>2. CASE ReloadReject
  <2>1. startFile \in Valid /\ cfg = Overridden(startFile) /\ newCfg \in Valid
    BY <1>2, UnsetAssumption DEF ReloadReject, LoadedInv, Valid
  <2> QED
    BY <1>2, <2>1, UnsetAssumption DEF ReloadReject, LoadedInv, Overridden, Valid
<1>3. CASE \/ StartAgent \/ Notify \/ TakeHup \/ TakeTerm
           \/ ReloadLoad \/ ReloadAccept \/ ReloadLevel
           \/ SetConfigInfoReset \/ SetConfigInfo \/ SetTargetsTotal
           \/ TakeServerError \/ StopOnError
           \/ ShutdownStop \/ ShutdownClose \/ ShutdownDrained \/ ShutdownDeadline
  <2>1. /\ UNCHANGED <<flag, cfg, startFile, rejected>>
        /\ pc # "boot" /\ pc # "exited" /\ pc' # "boot"
        /\ pc' \in {"check", "level", "reset", "info", "total"} =>
             \/ newCfg' = newCfg /\ pc \in {"check", "level", "reset", "info", "total"}
             \/ newCfg' = file /\ file # Invalid
    BY <1>3 DEF StartAgent, Notify, TakeHup, TakeTerm, ReloadLoad, ReloadAccept, ReloadLevel,
                SetConfigInfoReset, SetConfigInfo, SetTargetsTotal, TakeServerError,
                StopOnError, ShutdownStop, ShutdownClose, ShutdownDrained,
                ShutdownDeadline, configVars
  <2> QED
    BY <2>1 DEF TypeOK, LoadedInv, Valid, Overridden
<1>4. CASE Environment \/ UNCHANGED vars
  <2>1. /\ UNCHANGED <<flag, cfg, newCfg, startFile, rejected>>
        /\ pc' = pc \/ pc' = "exited"
    BY <1>4, EnvironmentFrame DEF configVars
  <2> QED
    BY <2>1 DEF LoadedInv, Overridden
<1> QED
  BY <1>1, <1>2, <1>3, <1>4 DEF Next, AgentStep, Exited, Environment

LEMMA ReloadingStep ==
    ASSUME AgentInv, [Next]_vars
    PROVE  ReloadingInv'
<1> USE DEF AgentInv
<1>1. CASE LoadStartup
  BY <1>1 DEF LoadStartup, ReloadingInv
<1>2. CASE StartAgent
  <2>1. cfg # Invalid
    BY <1>2, FilesAssumption, UnsetAssumption
       DEF StartAgent, LoadedInv, Valid, Overridden, TypeOK
  <2>2. AllFrom(cfg)'
    BY <1>2 DEF StartAgent, AllFrom, SameStartup, ComputeHash
  <2> QED
    BY <1>2, <2>1, <2>2 DEF StartAgent, ReloadingInv
<1>3. CASE Notify \/ TakeHup \/ ReloadLoad \/ ReloadReject
  <2>1. /\ UNCHANGED <<cfg, targets, logLevel, hashes, total>>
        /\ {pc, pc'} \subseteq {"notify", "select", "load", "check"}
    BY <1>3 DEF Notify, TakeHup, ReloadLoad, ReloadReject, configVars
  <2> QED
    BY <2>1 DEF ReloadingInv, AllFrom, SameStartup
<1>4. CASE ReloadAccept
  BY <1>4 DEF ReloadAccept, ReloadingInv, SameStartup
<1>5. CASE ReloadLevel \/ SetConfigInfoReset \/ SetConfigInfo
  BY <1>5 DEF ReloadLevel, SetConfigInfoReset, SetConfigInfo, ReloadingInv, SameStartup,
              ComputeHash
<1>6. CASE SetTargetsTotal
  <2>1. newCfg \in Valid
    BY <1>6 DEF SetTargetsTotal, LoadedInv
  <2>2. /\ targets' = newCfg.targets /\ logLevel' = newCfg.logLevel
        /\ hashes' = {newCfg} /\ total' = Cardinality(newCfg.targets)
        /\ \A f \in StartupOnly : newCfg[f] = cfg'[f]
    BY <1>6 DEF SetTargetsTotal, ReloadingInv, SameStartup
  <2> QED
    BY <1>6, <2>1, <2>2 DEF SetTargetsTotal, ReloadingInv, AllFrom, SameStartup, Valid
<1>7. CASE \/ TakeTerm \/ TakeServerError \/ StopOnError
           \/ ShutdownStop \/ ShutdownClose \/ ShutdownDrained \/ ShutdownDeadline
  BY <1>7 DEF TakeTerm, TakeServerError, StopOnError, ShutdownStop, ShutdownClose,
              ShutdownDrained, ShutdownDeadline, ReloadingInv
<1>8. CASE Environment \/ UNCHANGED vars
  <2>1. /\ UNCHANGED <<cfg, newCfg, targets, logLevel, hashes, total>>
        /\ pc' = pc \/ pc' = "exited"
    BY <1>8, EnvironmentFrame DEF configVars
  <2> QED
    BY <2>1 DEF ReloadingInv, AllFrom, SameStartup
<1> QED
  BY <1>1, <1>2, <1>3, <1>4, <1>5, <1>6, <1>7, <1>8 DEF Next, AgentStep, Exited, Environment

LEMMA ShutdownStep ==
    ASSUME AgentInv, [Next]_vars
    PROVE  ShutdownInv'
<1> USE DEF AgentInv
<1>1. CASE \/ LoadStartup \/ StartAgent \/ Notify \/ TakeHup \/ TakeTerm
           \/ ReloadLoad \/ ReloadReject \/ ReloadAccept \/ ReloadLevel
           \/ SetConfigInfoReset \/ SetConfigInfo \/ SetTargetsTotal
           \/ TakeServerError \/ StopOnError
  <2>1. /\ exit' = exit \/ exit' = "1"
        /\ pc # "exited" /\ pc' \notin {"close", "drain"}
    BY <1>1 DEF LoadStartup, StartAgent, Notify, TakeHup, TakeTerm, ReloadLoad, ReloadReject,
                ReloadAccept, ReloadLevel, SetConfigInfoReset, SetConfigInfo,
                SetTargetsTotal, TakeServerError, StopOnError
  <2> QED
    BY <2>1 DEF ShutdownInv, CleanExit
<1>2. CASE ShutdownStop \/ ShutdownClose \/ ShutdownDrained \/ ShutdownDeadline
  BY <1>2 DEF ShutdownStop, ShutdownClose, ShutdownDrained, ShutdownDeadline, ShutdownInv,
              CleanExit, configVars, serverVars
<1>3. CASE Environment \/ UNCHANGED vars
  <2>1. CASE pc = "exited"
    BY <1>3, <2>1, EnvironmentFrame
       DEF ShutdownInv, CleanExit, vars, configVars, serverVars
  <2>2. CASE pc # "exited"
    BY <1>3, <2>2, EnvironmentFrame DEF ShutdownInv, CleanExit, configVars
  <2> QED
    BY <2>1, <2>2
<1> QED
  BY <1>1, <1>2, <1>3 DEF Next, AgentStep, Exited, Environment

\* AgentInv is inductive: after startup cfg is the startup file with the flag
\* applied, a reload replaces targets, level, hash and count in this order, and
\* a shutdown stops the targets before it closes the listener.
THEOREM AgentInvariant == Spec => []AgentInv
<1>1. ASSUME AgentInv, [Next]_vars PROVE AgentInv'
  BY <1>1, TypeStep, LoadedStep, ReloadingStep, ShutdownStep DEF AgentInv
<1> QED
  BY Initially, <1>1, PTL DEF Spec

\* Whenever run() waits for a signal, targets, log level, hash and target count
\* come from one configuration, whatever reloads came before (main.go:152-205).
THEOREM AgentCoherent == Spec => []Coherent
<1>1. AgentInv => Coherent
  BY DEF AgentInv, ReloadingInv, AllFrom, SameStartup, Coherent, ComputeHash
<1> QED
  BY AgentInvariant, <1>1, PTL

\* Exit code 0 means that probes are stopped, the listener is closed or has
\* failed and no scrape is cut off (shutdown, main.go).
THEOREM AgentCleanExit == Spec => []CleanExit
<1>1. AgentInv => CleanExit
  BY DEF AgentInv, ShutdownInv
<1> QED
  BY AgentInvariant, <1>1, PTL

----------------------------------------------------------------------------
(* Sequences of operations *)

Elems(q) == {q[i] : i \in DOMAIN q}
IsSeq(q) == q \in Seq(Elems(q))

\* A sequence of operations is a function on 1..Len.
LEMMA SeqDomain ==
    ASSUME NEW q, IsSeq(q)
    PROVE  /\ Len(q) \in Nat /\ DOMAIN q = 1..Len(q)
           /\ \A i \in 1..Len(q) : q[i] \in Elems(q)
BY DEF IsSeq, Elems

\* A call of one operation.
LEMMA SingleSeq ==
    ASSUME NEW o
    PROVE  IsSeq(<<o>>) /\ Elems(<<o>>) = {o} /\ Len(<<o>>) = 1 /\ <<o>>[1] = o
BY DEF IsSeq, Elems

\* A call that has ended.
LEMMA NoOps == IsSeq(<<>>) /\ Elems(<<>>) = {} /\ Len(<<>>) = 0
<1>1. DOMAIN <<>> = {} /\ Len(<<>>) = 0 /\ \A S : <<>> \in Seq(S)
  OBVIOUS
<1>2. Elems(<<>>) = {}
  BY <1>1 DEF Elems
<1> QED
  BY <1>1 , <1>2 DEF IsSeq

\* A function on 1..n is a sequence.
LEMMA FunctionSeq ==
    ASSUME NEW n \in Nat, NEW q, q = [i \in 1..n |-> q[i]]
    PROVE  IsSeq(q) /\ Len(q) = n /\ DOMAIN q = 1..n
<1>1. DOMAIN q = 1..n
  OBVIOUS
<1>2. q \in [1..n -> Elems(q)]
  BY <1>1 DEF Elems
<1> QED
  BY <1>1, <1>2 DEF IsSeq

\* Calls that are made of parts: the operations of both, in order.
LEMMA ConcatSeq ==
    ASSUME NEW a, NEW b, IsSeq(a), IsSeq(b)
    PROVE  /\ IsSeq(a \o b) /\ Elems(a \o b) = Elems(a) \union Elems(b)
           /\ Len(a \o b) = Len(a) + Len(b)
           /\ \A i \in 1..Len(a) : (a \o b)[i] = a[i]
           /\ \A i \in 1..Len(b) : (a \o b)[Len(a) + i] = b[i]
<1> DEFINE X == Elems(a) \union Elems(b)
           c == a \o b
<1>1. a \in Seq(X) /\ b \in Seq(X)
  BY DEF IsSeq
<1>2. /\ c \in Seq(X) /\ Len(c) = Len(a) + Len(b) /\ DOMAIN c = 1..(Len(a) + Len(b))
      /\ \A i \in 1..Len(a) : c[i] = a[i]
      /\ \A i \in 1..Len(b) : c[Len(a) + i] = b[i]
  <2> HIDE DEF X
  <2> QED
    BY <1>1
<1>3. /\ Len(a) \in Nat /\ Len(b) \in Nat /\ DOMAIN a = 1..Len(a) /\ DOMAIN b = 1..Len(b)
  BY SeqDomain
<1> HIDE DEF c
<1>4. X \subseteq Elems(c)
  <2>1. ASSUME NEW x \in Elems(a) PROVE x \in Elems(c)
    <3>1. PICK i \in 1..Len(a) : x = a[i]
      BY <1>3 DEF Elems
    <3>2. i \in DOMAIN c /\ c[i] = x
      BY <1>2, <1>3, <3>1
    <3> QED
      BY <3>2 DEF Elems
  <2>2. ASSUME NEW x \in Elems(b) PROVE x \in Elems(c)
    <3>1. PICK i \in 1..Len(b) : x = b[i]
      BY <1>3 DEF Elems
    <3>2. Len(a) + i \in DOMAIN c /\ c[Len(a) + i] = x
      BY <1>2, <1>3, <3>1
    <3> QED
      BY <3>2 DEF Elems
  <2> QED
    BY <2>1, <2>2
<1>5. Elems(c) \subseteq X
  <2> HIDE DEF X
  <2> QED
    BY <1>2 DEF Elems
<1>6. Elems(c) = X
  BY <1>4, <1>5
<1>7. IsSeq(c)
  BY <1>2, <1>6 DEF IsSeq
<1> QED
  BY <1>2, <1>6, <1>7 DEF c

\* What is left after the first operation.
LEMMA TailSeq ==
    ASSUME NEW q, IsSeq(q), q # <<>>
    PROVE  /\ IsSeq(Tail(q)) /\ Elems(Tail(q)) \subseteq Elems(q) /\ Head(q) \in Elems(q)
           /\ Len(q) = Len(Tail(q)) + 1 /\ Head(q) = q[1]
           /\ \A i \in 1..Len(Tail(q)) : Tail(q)[i] = q[i + 1]
<1>1. /\ Tail(q) \in Seq(Elems(q)) /\ Head(q) \in Elems(q) /\ Head(q) = q[1]
      /\ Len(Tail(q)) \in Nat /\ Len(q) = Len(Tail(q)) + 1
      /\ DOMAIN Tail(q) = 1..Len(Tail(q))
      /\ \A i \in 1..Len(Tail(q)) : Tail(q)[i] = q[i + 1]
  BY DEF IsSeq
<1> DEFINE r == Tail(q)
           n == Len(r)
<1>2. n \in Nat /\ r = [i \in 1..n |-> r[i]]
  BY <1>1, LenProperties
<1>3. \A i \in 1..n : r[i] \in Elems(q)
  BY <1>1
<1> HIDE DEF r, n
<1>4. IsSeq(r) /\ DOMAIN r = 1..n
  BY <1>2, FunctionSeq
<1>5. Elems(r) \subseteq Elems(q)
  BY <1>3, <1>4 DEF Elems
<1> QED
  BY <1>1, <1>4, <1>5 DEF r

\* What a sequence of operations leaves, element by element.
LEMMA FinalElement ==
    ASSUME NEW q, IsSeq(q), NEW s
    PROVE  s \in Final(q) <=> \E k \in 1..Len(q) :
             /\ q[k].op = "set" /\ s = Written(q[k])
             /\ \A j \in 1..Len(q) : j > k => ~Touches(q[j], s)
<1>1. Len(q) \in Nat /\ DOMAIN q = 1..Len(q)
  BY SeqDomain
<1>2. \A k \in 1..Len(q) : \A j : j \in (k + 1)..Len(q) <=> j \in 1..Len(q) /\ j > k
  BY <1>1
<1> QED
  BY <1>1, <1>2 DEF Final

\* A series is touched by two parts if it is by one of them.
LEMMA ConcatTouches ==
    ASSUME NEW a, NEW b, IsSeq(a), IsSeq(b), NEW s
    PROVE  TouchedBy(a \o b, s) <=> TouchedBy(a, s) \/ TouchedBy(b, s)
<1>1. TouchedBy(a \o b, s) <=> \E o \in Elems(a \o b) : Touches(o, s)
  BY DEF TouchedBy, Elems
<1>2. TouchedBy(a, s) <=> \E o \in Elems(a) : Touches(o, s)
  BY DEF TouchedBy, Elems
<1>3. TouchedBy(b, s) <=> \E o \in Elems(b) : Touches(o, s)
  BY DEF TouchedBy, Elems
<1> QED
  BY <1>1, <1>2, <1>3, ConcatSeq

\* What the first part writes is left unless the second touches it.
LEMMA ConcatFinal ==
    ASSUME NEW a, NEW b, IsSeq(a), IsSeq(b), NEW s
    PROVE  s \in Final(a \o b) <=> s \in Final(b) \/ (s \in Final(a) /\ ~TouchedBy(b, s))
<1> DEFINE c == a \o b
           n == Len(a)
           m == Len(b)
<1>1. /\ IsSeq(c) /\ Len(c) = n + m /\ n \in Nat /\ m \in Nat /\ DOMAIN b = 1..m
      /\ \A i \in 1..n : c[i] = a[i]
      /\ \A i \in 1..m : c[n + i] = b[i]
  BY ConcatSeq, SeqDomain
<1> HIDE DEF c, n, m
<1>2. ASSUME s \in Final(c) PROVE s \in Final(b) \/ (s \in Final(a) /\ ~TouchedBy(b, s))
  <2>1. PICK k \in 1..Len(c) :
          /\ c[k].op = "set" /\ s = Written(c[k])
          /\ \A j \in 1..Len(c) : j > k => ~Touches(c[j], s)
    BY <1>1, <1>2, FinalElement
  <2>2. CASE k <= n
    <3>1. k \in 1..n /\ a[k].op = "set" /\ s = Written(a[k])
      BY <1>1, <2>1, <2>2
    <3>2. \A j \in 1..n : j > k => ~Touches(a[j], s)
      BY <1>1, <2>1
    <3>3. \A j \in 1..m : ~Touches(b[j], s)
      <4> TAKE j \in 1..m
      <4>1. n + j \in 1..Len(c) /\ n + j > k /\ c[n + j] = b[j]
        BY <1>1, <2>2
      <4> QED
        BY <2>1, <4>1
    <3> QED
      BY <1>1, <3>1, <3>2, <3>3, FinalElement DEF TouchedBy, n
  <2>3. CASE k > n
    <3>1. k - n \in 1..m /\ c[k] = b[k - n]
      <4>1. k - n \in 1..m /\ n + (k - n) = k
        BY <1>1, <2>1, <2>3
      <4> QED
        BY <1>1, <4>1
    <3>2. \A j \in 1..m : j > k - n => ~Touches(b[j], s)
      <4> TAKE j \in 1..m
      <4>1. j > k - n => n + j \in 1..Len(c) /\ n + j > k
        BY <1>1, <2>1
      <4> QED
        BY <1>1, <2>1, <4>1
    <3> QED
      BY <2>1, <3>1, <3>2, FinalElement DEF m
  <2> QED
    BY <1>1, <2>1, <2>2, <2>3
<1>3. ASSUME s \in Final(b) PROVE s \in Final(c)
  <2>1. PICK k \in 1..m :
          /\ b[k].op = "set" /\ s = Written(b[k])
          /\ \A j \in 1..m : j > k => ~Touches(b[j], s)
    BY <1>3, FinalElement DEF m
  <2>2. n + k \in 1..Len(c) /\ c[n + k] = b[k]
    BY <1>1, <2>1
  <2>3. \A j \in 1..Len(c) : j > n + k => ~Touches(c[j], s)
    <3> TAKE j \in 1..Len(c)
    <3>1. j > n + k => j - n \in 1..m /\ n + (j - n) = j /\ j - n > k
      BY <1>1, <2>1
    <3> QED
      BY <1>1, <2>1, <3>1
  <2> QED
    BY <1>1, <2>1, <2>2, <2>3, FinalElement
<1>4. ASSUME s \in Final(a), ~TouchedBy(b, s) PROVE s \in Final(c)
  <2>1. PICK k \in 1..n :
          /\ a[k].op = "set" /\ s = Written(a[k])
          /\ \A j \in 1..n : j > k => ~Touches(a[j], s)
    BY <1>4, FinalElement DEF n
  <2>2. k \in 1..Len(c) /\ c[k] = a[k]
    BY <1>1, <2>1
  <2>3. \A j \in 1..Len(c) : j > k => ~Touches(c[j], s)
    <3> TAKE j \in 1..Len(c)
    <3>1. CASE j <= n
      BY <1>1, <2>1, <3>1
    <3>2. CASE j > n
      <4>1. j - n \in 1..m /\ n + (j - n) = j
        BY <1>1, <3>2
      <4>2. c[j] = b[j - n]
        BY <1>1, <4>1
      <4> QED
        BY <1>1, <1>4, <4>1, <4>2 DEF TouchedBy
    <3> QED
      BY <1>1, <3>1, <3>2
  <2> QED
    BY <1>1, <2>1, <2>2, <2>3, FinalElement
<1> QED
  BY <1>2, <1>3, <1>4 DEF c

\* What one operation touches and leaves.
LEMMA SingleFinal ==
    ASSUME NEW o, NEW s
    PROVE  /\ TouchedBy(<<o>>, s) <=> Touches(o, s)
           /\ s \in Final(<<o>>) <=> o.op = "set" /\ s = Written(o)
<1>1. /\ IsSeq(<<o>>) /\ Len(<<o>>) = 1 /\ <<o>>[1] = o
  BY SingleSeq
<1>2. DOMAIN <<o>> = {1} /\ 1..1 = {1}
  OBVIOUS
<1>3. TouchedBy(<<o>>, s) <=> Touches(o, s)
  BY <1>1, <1>2 DEF TouchedBy
<1>4. s \in Final(<<o>>) <=> \E k \in {1} :
             /\ <<o>>[k].op = "set" /\ s = Written(<<o>>[k])
             /\ \A j \in {1} : j > k => ~Touches(<<o>>[j], s)
  BY <1>1, <1>2, FinalElement
<1> QED
  BY <1>1, <1>3, <1>4

LEMMA EmptyFinal == (\A s : ~TouchedBy(<<>>, s)) /\ Final(<<>>) = {}
BY DEF TouchedBy, Final

\* The vectors S after the operations of q.
After(S, q) == {s \in S : ~TouchedBy(q, s)} \union Final(q)

\* The effect of two parts is that of the second on that of the first.
LEMMA AfterConcat ==
    ASSUME NEW S, NEW a, NEW b, IsSeq(a), IsSeq(b)
    PROVE  After(S, a \o b) = After(After(S, a), b)
BY ConcatTouches, ConcatFinal DEF After

----------------------------------------------------------------------------
(* What the operations of Record amount to *)

\* Vectors without labels of their own have one series for a target.
Labelled == {"phase", "chain", "mtuState", "proxyInfo"}
Plain(S) == \A s \in S : s.fam \notin Labelled => s.sub = NoLabel

LEMMA AfterNothing == ASSUME NEW S PROVE After(S, <<>>) = S
BY EmptyFinal DEF After

LEMMA WithElements ==
    ASSUME NEW S, NEW t, NEW fam, NEW sub, NEW v
    PROVE  \A s \in With(S, fam, t, sub, v) :
             \/ s \in S
             \/ s.fam = fam /\ s.key = buildLabels(t) /\ s.sub = sub /\ s.val = v
BY DEF With

\* The effect of With().Set is that of Metrics.
LEMMA AfterSet ==
    ASSUME NEW S, NEW t, NEW fam, NEW sub, NEW v
    PROVE  /\ IsSeq(SetOp(t, fam, sub, v))
           /\ After(S, SetOp(t, fam, sub, v)) = With(S, fam, t, sub, v)
           /\ Plain(S) /\ (sub = NoLabel \/ fam \in Labelled) => Plain(With(S, fam, t, sub, v))
<1> DEFINE o == Op("set", fam, buildLabels(t), sub, v)
<1>1. \A s : Touches(o, s) <=> s.fam = fam /\ s.key = buildLabels(t) /\ s.sub = sub
  BY DEF Touches, Op
<1>2. o.op = "set" /\ Written(o) = [fam |-> fam, key |-> buildLabels(t), sub |-> sub, val |-> v]
  BY DEF Written, Op
<1> HIDE DEF o
<1>3. After(S, <<o>>) = {s \in S : ~Touches(o, s)} \union {Written(o)}
  BY <1>2, SingleFinal DEF After
<1>4. After(S, <<o>>) = With(S, fam, t, sub, v)
  BY <1>1, <1>2, <1>3 DEF With
<1>5. Plain(S) /\ (sub = NoLabel \/ fam \in Labelled) => Plain(With(S, fam, t, sub, v))
  <2>1. \A s \in With(S, fam, t, sub, v) : s \in S \/ (s.fam = fam /\ s.sub = sub)
    BY WithElements
  <2> QED
    BY <2>1 DEF Plain
<1> QED
  BY <1>4, <1>5, SingleSeq DEF SetOp, o

LEMMA AfterPlainSet ==
    ASSUME NEW S, NEW t, NEW fam, NEW v, Plain(S)
    PROVE  /\ IsSeq(SetOp(t, fam, NoLabel, v))
           /\ After(S, SetOp(t, fam, NoLabel, v)) = With(S, fam, t, NoLabel, v)
           /\ Plain(With(S, fam, t, NoLabel, v))
BY AfterSet

LEMMA AfterLabelledSet ==
    ASSUME NEW S, NEW t, NEW fam, NEW sub, NEW v, Plain(S), fam \in Labelled
    PROVE  /\ IsSeq(SetOp(t, fam, sub, v))
           /\ After(S, SetOp(t, fam, sub, v)) = With(S, fam, t, sub, v)
           /\ Plain(With(S, fam, t, sub, v))
BY AfterSet

\* The effect of Delete, and of DeletePartialMatch, is that of Metrics.
LEMMA AfterDelete ==
    ASSUME NEW S, NEW t, NEW fam
    PROVE  /\ IsSeq(DeleteOp(t, fam, NoLabel))
           /\ Plain(S) /\ fam \notin Labelled
                => After(S, DeleteOp(t, fam, NoLabel)) = Delete(S, fam, t)
           /\ IsSeq(DeletePartialMatchOp(t, fam))
           /\ After(S, DeletePartialMatchOp(t, fam)) = Delete(S, fam, t)
           /\ Plain(S) => Plain(Delete(S, fam, t))
<1> DEFINE o == Op("delete", fam, buildLabels(t), NoLabel, None)
           p == Op("deleteAll", fam, buildLabels(t), NoLabel, None)
<1>1. /\ \A s : Touches(o, s) <=> s.fam = fam /\ s.key = buildLabels(t) /\ s.sub = NoLabel
      /\ \A s : Touches(p, s) <=> s.fam = fam /\ s.key = buildLabels(t)
      /\ o.op # "set" /\ p.op # "set"
  BY DEF Touches, Op
<1> HIDE DEF o, p
<1>2. /\ After(S, <<o>>) = {s \in S : ~Touches(o, s)}
      /\ After(S, <<p>>) = {s \in S : ~Touches(p, s)}
  BY <1>1, SingleFinal DEF After
<1>3. Plain(S) /\ fam \notin Labelled => After(S, <<o>>) = Delete(S, fam, t)
  BY <1>1, <1>2 DEF Plain, Delete
<1>4. After(S, <<p>>) = Delete(S, fam, t)
  BY <1>1, <1>2 DEF Delete
<1>5. Plain(S) => Plain(Delete(S, fam, t))
  BY DEF Plain, Delete
<1> QED
  BY <1>3, <1>4, <1>5, SingleSeq DEF DeleteOp, DeletePartialMatchOp, o, p

\* The pattern of every conditional metric has the effect it has in Metrics.
LEMMA AfterSetOrDelete ==
    ASSUME NEW S, NEW t, NEW fam, NEW b \in BOOLEAN, NEW v, Plain(S), fam \notin Labelled
    PROVE  /\ IsSeq(SetOrDeleteOp(t, fam, b, v))
           /\ After(S, SetOrDeleteOp(t, fam, b, v)) = SetOrDelete(S, fam, t, b, v)
           /\ Plain(SetOrDelete(S, fam, t, b, v))
<1>1. CASE b
  BY <1>1, AfterSet DEF SetOrDeleteOp, SetOrDelete
<1>2. CASE ~b
  BY <1>2, AfterDelete DEF SetOrDeleteOp, SetOrDelete
<1> QED
  BY <1>1, <1>2

\* The list of known phases has them all.
LEMMA KnownPhases ==
    /\ DOMAIN knownPhases = 1..9 /\ Len(knownPhases) = 9
    /\ {knownPhases[i] : i \in 1..9} = AllPhases
<1>1. DOMAIN knownPhases = 1..9 /\ Len(knownPhases) = 9
  BY DEF knownPhases
<1>2. /\ knownPhases[1] = "dns_resolve" /\ knownPhases[2] = "tcp_connect"
      /\ knownPhases[3] = "tls_handshake" /\ knownPhases[4] = "request_write"
      /\ knownPhases[5] = "ttfb" /\ knownPhases[6] = "transfer"
      /\ knownPhases[7] = "proxy_dial" /\ knownPhases[8] = "proxy_tls"
      /\ knownPhases[9] = "proxy_connect"
  BY DEF knownPhases
<1>3. \A i \in 1..9 : i \in {1, 2, 3, 4, 5, 6, 7, 8, 9}
  OBVIOUS
<1> HIDE DEF knownPhases
<1>4. \A i \in 1..9 : knownPhases[i] \in AllPhases
  BY <1>2, <1>3 DEF AllPhases
<1>5. \A p \in AllPhases : \E i \in 1..9 : p = knownPhases[i]
  BY <1>2 DEF AllPhases
<1> QED
  BY <1>1, <1>4, <1>5

\* Sets of phases are finite, so they have an order of iteration.
LEMMA FinitePhases == ASSUME NEW P \in SUBSET AllPhases PROVE IsFiniteSet(P)
<1>1. 9 \in Nat /\ ExistsSurjection(1..9, AllPhases)
  <2> DEFINE f == [i \in 1..9 |-> knownPhases[i]]
  <2>1. f \in Surjection(1..9, AllPhases)
    BY KnownPhases DEF Surjection
  <2> QED
    BY <2>1 DEF ExistsSurjection
<1>2. IsFiniteSet(AllPhases)
  BY <1>1, FS_NatSurjection
<1> QED
  BY <1>2, FS_Subset

\* An order of the phases has each of them once.
LEMMA PhaseOrder ==
    ASSUME NEW P \in SUBSET AllPhases, NEW order \in SetToSeqs(P)
    PROVE  \E n \in Nat : /\ DOMAIN order = 1..n /\ order = [i \in 1..n |-> order[i]]
                          /\ {order[i] : i \in 1..n} = P
                          /\ \A i, j \in 1..n : order[i] = order[j] => i = j
<1> DEFINE n == Cardinality(P)
<1>1. IsFiniteSet(P) /\ n \in Nat
  BY FinitePhases, FS_CardinalityType
<1>2. order \in [1..n -> P] /\ \A i, j \in 1..n : i # j => order[i] # order[j]
  BY DEF SetToSeqs
<1>3. IsFiniteSet(1..n) /\ Cardinality(1..n) = n
  BY <1>1, FS_Interval
<1> HIDE DEF n
<1>4. order \in Injection(1..n, P)
  BY <1>2 DEF Injection, IsInjective
<1>5. order \in Surjection(1..n, P)
  BY <1>1, <1>3, <1>4, FS_Injection DEF n
<1>6. {order[i] : i \in 1..n} = P
  BY <1>2, <1>5 DEF Surjection
<1> QED
  BY <1>1, <1>2, <1>6

\* The two halves of phaseOps.
DeletesPhases(t, q) ==
    /\ IsSeq(q)
    /\ \A o \in Elems(q) : \E p \in AllPhases : o = Op("delete", "phase", buildLabels(t), p, None)
    /\ \A p \in AllPhases : Op("delete", "phase", buildLabels(t), p, None) \in Elems(q)

\* recordPhases and DeleteTarget delete every known phase.
LEMMA DeletePhases == ASSUME NEW t PROVE DeletesPhases(t, deletePhaseOps(t))
<1> DEFINE q == deletePhaseOps(t)
<1>1. q = [i \in 1..9 |-> Op("delete", "phase", buildLabels(t), knownPhases[i], None)]
  BY KnownPhases DEF deletePhaseOps
<1>2. /\ \A i \in 1..9 : q[i] = Op("delete", "phase", buildLabels(t), knownPhases[i], None)
      /\ q = [i \in 1..9 |-> q[i]]
  BY <1>1
<1> HIDE DEF q
<1>3. IsSeq(q) /\ DOMAIN q = 1..9
  BY <1>2, FunctionSeq
<1>4. \A o \in Elems(q) : \E p \in AllPhases : o = Op("delete", "phase", buildLabels(t), p, None)
  BY <1>2, <1>3, KnownPhases DEF Elems
<1>5. \A p \in AllPhases : Op("delete", "phase", buildLabels(t), p, None) \in Elems(q)
  BY <1>2, <1>3, KnownPhases DEF Elems
<1> QED
  BY <1>3, <1>4, <1>5 DEF DeletesPhases, q

PhaseSets(t, r, order) ==
    [i \in DOMAIN order |-> Op("set", "phase", buildLabels(t), order[i], Val(r))]

\* Whatever the order of iteration, the observed phases are set, each once.
LEMMA SetPhases ==
    ASSUME NEW t, NEW r, r.phases \subseteq AllPhases, NEW order \in SetToSeqs(r.phases)
    PROVE  LET q == PhaseSets(t, r, order) IN
           /\ IsSeq(q)
           /\ \A o \in Elems(q) : \E p \in r.phases : o = Op("set", "phase", buildLabels(t), p, Val(r))
           /\ \A s : TouchedBy(q, s) <=> s.fam = "phase" /\ s.key = buildLabels(t) /\ s.sub \in r.phases
           /\ Final(q) = {[fam |-> "phase", key |-> buildLabels(t), sub |-> p, val |-> Val(r)]
                            : p \in r.phases}
<1> DEFINE q == PhaseSets(t, r, order)
           op(p) == Op("set", "phase", buildLabels(t), p, Val(r))
<1>1. PICK n \in Nat : /\ DOMAIN order = 1..n /\ order = [i \in 1..n |-> order[i]]
                       /\ {order[i] : i \in 1..n} = r.phases
                       /\ \A i, j \in 1..n : order[i] = order[j] => i = j
  BY PhaseOrder
<1>2. (\A i \in 1..n : q[i] = op(order[i])) /\ q = [i \in 1..n |-> q[i]]
  BY <1>1 DEF PhaseSets
<1>3. \A p, s : Touches(op(p), s) <=> s.fam = "phase" /\ s.key = buildLabels(t) /\ s.sub = p
  BY DEF Touches, Op
<1>4. \A p : /\ op(p).op = "set"
             /\ Written(op(p)) = [fam |-> "phase", key |-> buildLabels(t), sub |-> p, val |-> Val(r)]
  BY DEF Written, Op
<1> HIDE DEF q, op
<1>5. IsSeq(q) /\ Len(q) = n /\ DOMAIN q = 1..n
  BY <1>2, FunctionSeq
<1>6. \A o \in Elems(q) : \E p \in r.phases : o = op(p)
  BY <1>1, <1>2, <1>5 DEF Elems
<1>7. \A s : TouchedBy(q, s) <=> s.fam = "phase" /\ s.key = buildLabels(t) /\ s.sub \in r.phases
  BY <1>1, <1>2, <1>3, <1>5 DEF TouchedBy
<1>8. ASSUME NEW s PROVE s \in Final(q) <=> \E p \in r.phases : s = Written(op(p))
  <2>1. s \in Final(q) <=> \E k \in 1..n :
             /\ q[k].op = "set" /\ s = Written(q[k])
             /\ \A j \in 1..n : j > k => ~Touches(q[j], s)
    BY <1>5, FinalElement
  <2>2. ASSUME NEW k \in 1..n, s = Written(q[k])
        PROVE  q[k].op = "set" /\ \A j \in 1..n : j > k => ~Touches(q[j], s)
    <3>1. q[k] = op(order[k]) /\ q[k].op = "set" /\ s.sub = order[k]
      BY <1>2, <1>4, <2>2
    <3>2. \A j \in 1..n : j > k => order[j] # order[k]
      BY <1>1
    <3> QED
      BY <1>2, <1>3, <3>1, <3>2
  <2>3. s \in Final(q) <=> \E k \in 1..n : s = Written(q[k])
    BY <2>1, <2>2
  <2> QED
    BY <1>1, <1>2, <2>3
<1>9. Final(q) = {[fam |-> "phase", key |-> buildLabels(t), sub |-> p, val |-> Val(r)]
                    : p \in r.phases}
  BY <1>4, <1>8
<1> QED
  BY <1>5, <1>6, <1>7, <1>9 DEF q, op

\* The effect of the phase operations does not depend on the order of the map.
LEMMA AfterPhases ==
    ASSUME NEW S, NEW t, NEW r, r.phases \subseteq AllPhases, NEW order \in SetToSeqs(r.phases)
    PROVE  /\ IsSeq(phaseOps(t, r, order))
           /\ After(S, phaseOps(t, r, order)) = recordPhases(S, t, r)
           /\ Plain(S) => Plain(recordPhases(S, t, r))
<1> DEFINE d == deletePhaseOps(t)
           q == PhaseSets(t, r, order)
<1>1. phaseOps(t, r, order) = d \o q
  BY DEF phaseOps, PhaseSets
<1>2. /\ IsSeq(d)
      /\ \A o \in Elems(d) : \E p \in AllPhases : o = Op("delete", "phase", buildLabels(t), p, None)
      /\ \A p \in AllPhases : Op("delete", "phase", buildLabels(t), p, None) \in Elems(d)
  BY DeletePhases DEF DeletesPhases
<1>3. /\ IsSeq(q)
      /\ \A s : TouchedBy(q, s) <=> s.fam = "phase" /\ s.key = buildLabels(t) /\ s.sub \in r.phases
      /\ Final(q) = {[fam |-> "phase", key |-> buildLabels(t), sub |-> p, val |-> Val(r)]
                       : p \in r.phases}
  BY SetPhases
<1> HIDE DEF d, q
<1>4. \A s : TouchedBy(d, s) <=> \E o \in Elems(d) : Touches(o, s)
  BY DEF TouchedBy, Elems
<1>5. \A p, s : Touches(Op("delete", "phase", buildLabels(t), p, None), s)
                  <=> s.fam = "phase" /\ s.key = buildLabels(t) /\ s.sub = p
  BY DEF Touches, Op
<1>6. \A s : TouchedBy(d, s) <=> s.fam = "phase" /\ s.key = buildLabels(t) /\ s.sub \in AllPhases
  BY <1>2, <1>4, <1>5
<1>7. Final(d) = {}
  <2>1. \A o \in Elems(d) : o.op # "set"
    BY <1>2 DEF Op
  <2> QED
    BY <2>1 DEF Final, Elems
<1>8. After(S, d) = {s \in S : ~(s.fam = "phase" /\ s.key = buildLabels(t) /\ s.sub \in AllPhases)}
  BY <1>6, <1>7 DEF After
<1>9. After(S, d \o q) = {s \in After(S, d) : ~TouchedBy(q, s)} \union Final(q)
  BY <1>2, <1>3, AfterConcat DEF After
<1>10. {s \in After(S, d) : ~TouchedBy(q, s)} = After(S, d)
  BY <1>3, <1>8
<1>11. After(S, d \o q) = recordPhases(S, t, r)
  BY <1>3, <1>8, <1>9, <1>10 DEF recordPhases
<1>12. Plain(S) => Plain(recordPhases(S, t, r))
  <2>1. \A s \in recordPhases(S, t, r) : s \in S \/ s.fam = "phase"
    BY DEF recordPhases
  <2> QED
    BY <2>1 DEF Plain, Labelled
<1> QED
  BY <1>1, <1>2, <1>3, <1>11, <1>12, ConcatSeq

\* An effect after an effect.
LEMMA AfterThen ==
    ASSUME NEW S, NEW T, NEW U, NEW a, NEW b, IsSeq(a), IsSeq(b),
           After(S, a) = T, After(T, b) = U
    PROVE  IsSeq(a \o b) /\ After(S, a \o b) = U
BY ConcatSeq, AfterConcat

\* The effect of recordCommon.
LEMMA AfterCommon ==
    ASSUME NEW S, NEW t, NEW r, Plain(S)
    PROVE  /\ IsSeq(commonOps(t, r))
           /\ After(S, commonOps(t, r)) = recordCommon(S, t, r)
           /\ Plain(recordCommon(S, t, r))
<1> DEFINE a == SetOp(t, "success", NoLabel, Val(r))
           b == SetOp(t, "duration", NoLabel, Val(r))
           c == SetOp(t, "timedOut", NoLabel, Val(r))
           A == With(S, "success", t, NoLabel, Val(r))
           B == With(A, "duration", t, NoLabel, Val(r))
           C == With(B, "timedOut", t, NoLabel, Val(r))
<1> HIDE DEF a, b, c, A, B, C
<1>1. IsSeq(a) /\ Plain(A)
  BY AfterPlainSet DEF a, A
<1>2. After(S, a) = A
  BY AfterPlainSet DEF a, A
<1>3. IsSeq(b) /\ Plain(B)
  BY <1>1, AfterPlainSet DEF b, B
<1>4. After(A, b) = B
  BY <1>1, AfterPlainSet DEF b, B
<1>5. IsSeq(c) /\ Plain(C)
  BY <1>3, AfterPlainSet DEF c, C
<1>6. After(B, c) = C
  BY <1>3, AfterPlainSet DEF c, C
<1>7. IsSeq(a \o b) /\ After(S, a \o b) = B
  BY <1>1, <1>2, <1>3, <1>4, AfterThen
<1>8. IsSeq((a \o b) \o c) /\ After(S, (a \o b) \o c) = C
  BY <1>5, <1>6, <1>7, AfterThen
<1> QED
  BY <1>5, <1>8 DEF commonOps, recordCommon, a, b, c, A, B, C

\* The effect of clearTLSResult.
LEMMA AfterClearTLS ==
    ASSUME NEW S, NEW t, Plain(S)
    PROVE  /\ IsSeq(clearTLSOps(t))
           /\ After(S, clearTLSOps(t)) = clearTLSResult(S, t)
           /\ Plain(clearTLSResult(S, t))
<1> DEFINE a == DeleteOp(t, "certExpiry", NoLabel)
           b == DeletePartialMatchOp(t, "chain")
           A == Delete(S, "certExpiry", t)
           B == Delete(A, "chain", t)
<1> HIDE DEF a, b, A, B
<1>1. IsSeq(a) /\ Plain(A)
  BY AfterDelete DEF Labelled, a, A
<1>2. After(S, a) = A
  BY AfterDelete DEF Labelled, a, A
<1>3. IsSeq(b) /\ Plain(B)
  BY <1>1, AfterDelete DEF b, B
<1>4. After(A, b) = B
  BY <1>1, AfterDelete DEF b, B
<1>5. IsSeq(a \o b) /\ After(S, a \o b) = B
  BY <1>1, <1>2, <1>3, <1>4, AfterThen
<1> QED
  BY <1>3, <1>5 DEF clearTLSOps, clearTLSResult, a, b, A, B

\* A certificate of the chain, where the chain was cleared before.
Certificate(t, r, c) == [fam |-> "chain", key |-> buildLabels(t), sub |-> c, val |-> Val(r)]

LEMMA AfterCertificate ==
    ASSUME NEW S, NEW t, NEW r, NEW c, Plain(S),
           \A s \in S : ~(s.fam = "chain" /\ s.key = buildLabels(t) /\ s.sub = c)
    PROVE  LET T == S \union (IF c \in r.chain THEN {Certificate(t, r, c)} ELSE {}) IN
           /\ IsSeq(chainOp(t, r, c)) /\ After(S, chainOp(t, r, c)) = T
           /\ Plain(T)
<1>1. CASE c \in r.chain
  <2>1. /\ IsSeq(chainOp(t, r, c))
        /\ After(S, chainOp(t, r, c)) = With(S, "chain", t, c, Val(r))
        /\ Plain(With(S, "chain", t, c, Val(r)))
    BY <1>1, AfterSet DEF chainOp, Labelled
  <2>2. With(S, "chain", t, c, Val(r)) = S \union {Certificate(t, r, c)}
    BY DEF With, Certificate
  <2> QED
    BY <1>1, <2>1, <2>2
<1>2. CASE c \notin r.chain
  BY <1>2, AfterNothing, NoOps DEF chainOp
<1> QED
  BY <1>1, <1>2

\* The effect of recordTLSResult.
LEMMA AfterTLS ==
    ASSUME NEW S, NEW t, NEW r, Plain(S), r.chain \subseteq {"leaf", "intermediate", "root"}
    PROVE  /\ IsSeq(tlsOps(t, r))
           /\ After(S, tlsOps(t, r)) = recordTLSResult(S, t, r)
           /\ Plain(recordTLSResult(S, t, r))
<1> DEFINE C == clearTLSResult(S, t)
           e == IF r.chain # {} THEN SetOp(t, "certExpiry", NoLabel, Val(r)) ELSE <<>>
           E == IF r.chain # {} THEN With(C, "certExpiry", t, NoLabel, Val(r)) ELSE C
           cert(c) == IF c \in r.chain THEN {Certificate(t, r, c)} ELSE {}
           A1 == E \union cert("leaf")
           A2 == A1 \union cert("intermediate")
           A3 == A2 \union cert("root")
           a0 == clearTLSOps(t) \o e
           a1 == a0 \o chainOp(t, r, "leaf")
           a2 == a1 \o chainOp(t, r, "intermediate")
           a3 == a2 \o chainOp(t, r, "root")
<1>1. IsSeq(clearTLSOps(t)) /\ After(S, clearTLSOps(t)) = C
  BY AfterClearTLS
<1>0. Plain(C)
  BY AfterClearTLS
<1>2. \A s \in C : ~(s.fam = "chain" /\ s.key = buildLabels(t))
  BY DEF clearTLSResult, Delete
<1> HIDE DEF C
<1>3. IsSeq(e) /\ After(C, e) = E /\ Plain(E)
  <2>1. CASE r.chain # {}
    <3>1. /\ IsSeq(SetOp(t, "certExpiry", NoLabel, Val(r)))
          /\ After(C, SetOp(t, "certExpiry", NoLabel, Val(r))) = With(C, "certExpiry", t, NoLabel, Val(r))
          /\ Plain(With(C, "certExpiry", t, NoLabel, Val(r)))
      BY <1>0, AfterPlainSet
    <3> QED
      BY <2>1, <3>1
  <2>2. CASE r.chain = {}
    BY <1>0, <2>2, AfterNothing, NoOps
  <2> QED
    BY <2>1, <2>2
<1>4. \A s \in E : ~(s.fam = "chain" /\ s.key = buildLabels(t))
  <2>1. \A s \in With(C, "certExpiry", t, NoLabel, Val(r)) : s \in C \/ s.fam = "certExpiry"
    <3>1. ASSUME NEW f, NEW sub, NEW v
          PROVE  \A s \in With(C, f, t, sub, v) : s \in C \/ s.fam = f
      BY WithElements
    <3> QED
      BY <3>1
  <2> QED
    BY <1>2, <2>1
<1> HIDE DEF e, E
<1>5. IsSeq(a0) /\ After(S, a0) = E
  BY <1>1, <1>3, AfterThen
<1>6. \A c : \A s \in cert(c) : s.sub = c /\ s.fam = "chain"
  BY DEF Certificate
<1> HIDE DEF cert, a0
<1>7. /\ IsSeq(chainOp(t, r, "leaf")) /\ After(E, chainOp(t, r, "leaf")) = A1
      /\ Plain(A1)
  BY <1>3, <1>4, AfterCertificate DEF cert
<1>8. IsSeq(a1) /\ After(S, a1) = A1
  BY <1>5, <1>7, AfterThen
<1>9. \A s \in A1 : ~(s.fam = "chain" /\ s.key = buildLabels(t) /\ s.sub = "intermediate")
  BY <1>4, <1>6
<1> HIDE DEF A1, a1
<1>10. /\ IsSeq(chainOp(t, r, "intermediate")) /\ After(A1, chainOp(t, r, "intermediate")) = A2
       /\ Plain(A2)
  BY <1>7, <1>9, AfterCertificate DEF cert
<1>11. IsSeq(a2) /\ After(S, a2) = A2
  BY <1>8, <1>10, AfterThen
<1>12. \A s \in A2 : ~(s.fam = "chain" /\ s.key = buildLabels(t) /\ s.sub = "root")
  BY <1>4, <1>6 DEF A1
<1> HIDE DEF A2, a2
<1>13. /\ IsSeq(chainOp(t, r, "root")) /\ After(A2, chainOp(t, r, "root")) = A3
       /\ Plain(A3)
  <2>1. Plain(A2)
    BY <1>10
  <2> QED
    BY <2>1, <1>12, AfterCertificate DEF cert
<1>14. IsSeq(a3) /\ After(S, a3) = A3
  BY <1>11, <1>13, AfterThen
<1>15. A3 = E \union {Certificate(t, r, c) : c \in r.chain}
  BY DEF A1, A2, cert
<1>16. A3 = recordTLSResult(S, t, r)
  <2>1. CASE r.chain = {}
    BY <1>15, <2>1 DEF E, C, recordTLSResult
  <2>2. CASE r.chain # {}
    BY <1>15, <2>2, Zenon DEF E, C, recordTLSResult, Certificate
  <2> QED
    BY <2>1, <2>2
<1>17. tlsOps(t, r) = a3
  BY Zenon DEF tlsOps, a0, a1, a2, a3, e
<1> QED
  BY <1>13, <1>14, <1>16, <1>17

\* The effect of recordMTUResult.
LEMMA AfterMTU ==
    ASSUME NEW S, NEW t, NEW r, Plain(S), r.mtu \in BOOLEAN
    PROVE  /\ IsSeq(mtuOps(t, r))
           /\ After(S, mtuOps(t, r)) = recordMTUResult(S, t, r)
           /\ Plain(recordMTUResult(S, t, r))
<1> DEFINE a == DeletePartialMatchOp(t, "mtuState")
           b == SetOrDeleteOp(t, "mtuBytes", r.mtu, Val(r))
           c == SetOp(t, "mtuState", r.mtuState, One)
           A == Delete(S, "mtuState", t)
           B == SetOrDelete(A, "mtuBytes", t, r.mtu, Val(r))
           C == With(B, "mtuState", t, r.mtuState, One)
<1> HIDE DEF a, b, c, A, B, C
<1>1. IsSeq(a) /\ After(S, a) = A /\ Plain(A)
  BY AfterDelete DEF a, A
<1>2. IsSeq(b) /\ After(A, b) = B /\ Plain(B)
  <2>1. Plain(A)
    BY <1>1
  <2> QED
    BY <2>1, AfterSetOrDelete DEF b, B, Labelled
<1>3. IsSeq(c) /\ After(B, c) = C /\ Plain(C)
  <2>1. Plain(B) /\ "mtuState" \in Labelled
    BY <1>2 DEF Labelled
  <2> QED
    BY <2>1, AfterLabelledSet DEF c, C
<1>4. IsSeq(a \o b) /\ After(S, a \o b) = B
  BY <1>1, <1>2, AfterThen
<1>5. IsSeq((a \o b) \o c) /\ After(S, (a \o b) \o c) = C
  BY <1>3, <1>4, AfterThen
<1> QED
  BY <1>3, <1>5 DEF mtuOps, recordMTUResult, a, b, c, A, B, C

LEMMA AfterConnect ==
    ASSUME NEW S, NEW t, NEW r, Plain(S), r.connect \in BOOLEAN
    PROVE  /\ IsSeq(connectOps(t, r))
           /\ After(S, connectOps(t, r)) = recordProxyConnect(S, t, r)
           /\ Plain(recordProxyConnect(S, t, r))
<1>1. CASE t.type \in {"proxy_connect", "http", "http_body", "tls_cert"}
  <2>1. "connectStatus" \notin Labelled
    BY DEF Labelled
  <2> QED
    BY <1>1, <2>1, AfterSetOrDelete DEF connectOps, recordProxyConnect
<1>2. CASE t.type \notin {"proxy_connect", "http", "http_body", "tls_cert"}
  BY <1>2, AfterNothing, NoOps DEF connectOps, recordProxyConnect
<1> QED
  BY <1>1, <1>2

LEMMA AfterAvg ==
    ASSUME NEW S, NEW t, NEW r, Plain(S), r.replies \in Nat
    PROVE  /\ IsSeq(avgOps(t, r))
           /\ After(S, avgOps(t, r)) = recordICMPAvgRTT(S, t, r)
           /\ Plain(recordICMPAvgRTT(S, t, r))
<1> DEFINE some == r.replies >= 1
<1>1. "avgRTT" \notin Labelled /\ some \in BOOLEAN
  BY DEF Labelled
<1> HIDE DEF some
<1>2. /\ IsSeq(SetOrDeleteOp(t, "avgRTT", some, Val(r)))
      /\ After(S, SetOrDeleteOp(t, "avgRTT", some, Val(r)))
           = SetOrDelete(S, "avgRTT", t, some, Val(r))
      /\ Plain(SetOrDelete(S, "avgRTT", t, some, Val(r)))
  BY <1>1, AfterSetOrDelete
<1> QED
  BY <1>2, Zenon DEF avgOps, recordICMPAvgRTT, some

LEMMA AfterTypeHTTP ==
    ASSUME NEW S, NEW t, NEW r, Plain(S), t.type = "http", t.emitCert \in BOOLEAN,
           r.http \in BOOLEAN, r.trunc \in BOOLEAN,
           r.chain \subseteq {"leaf", "intermediate", "root"}
    PROVE  /\ IsSeq(typeOps(t, r))
           /\ After(S, typeOps(t, r)) = recordByType(S, t, r)
           /\ Plain(recordByType(S, t, r))
<1> DEFINE a == SetOrDeleteOp(t, "httpStatus", r.http, Val(r))
           b == IF t.emitCert THEN tlsOps(t, r) ELSE clearTLSOps(t)
           c == SetOrDeleteOp(t, "truncated", r.trunc, Val(r))
           A == SetOrDelete(S, "httpStatus", t, r.http, Val(r))
           B == IF t.emitCert THEN recordTLSResult(A, t, r) ELSE clearTLSResult(A, t)
           C == SetOrDelete(B, "truncated", t, r.trunc, Val(r))
<1> HIDE DEF a, b, c, A, B, C
<1>0. "httpStatus" \notin Labelled /\ "truncated" \notin Labelled
  BY DEF Labelled
<1>1. IsSeq(a) /\ Plain(A)
  BY <1>0, AfterSetOrDelete DEF a, A
<1>2. After(S, a) = A
  BY <1>0, AfterSetOrDelete DEF a, A
<1>3. IsSeq(b) /\ Plain(B)
  BY <1>1, AfterTLS, AfterClearTLS DEF b, B
<1>4. After(A, b) = B
  BY <1>1, AfterTLS, AfterClearTLS DEF b, B
<1>5. IsSeq(c) /\ Plain(C)
  BY <1>0, <1>3, AfterSetOrDelete DEF c, C
<1>6. After(B, c) = C
  BY <1>0, <1>3, AfterSetOrDelete DEF c, C
<1>7. IsSeq(a \o b) /\ After(S, a \o b) = B
  BY <1>1, <1>2, <1>3, <1>4, AfterThen
<1>8. IsSeq((a \o b) \o c) /\ After(S, (a \o b) \o c) = C
  BY <1>5, <1>6, <1>7, AfterThen
<1>9. typeOps(t, r) = (a \o b) \o c
  BY DEF typeOps, a, b, c
<1>10. recordByType(S, t, r) = C
  BY DEF recordByType, A, B, C
<1> QED
  BY <1>5, <1>8, <1>9, <1>10

LEMMA AfterTypeICMP ==
    ASSUME NEW S, NEW t, NEW r, Plain(S), t.type = "icmp", r.replies \in Nat
    PROVE  /\ IsSeq(typeOps(t, r))
           /\ After(S, typeOps(t, r)) = recordByType(S, t, r)
           /\ Plain(recordByType(S, t, r))
<1> DEFINE a == SetOp(t, "packetLoss", NoLabel, Val(r))
           b == avgOps(t, r)
           some == r.replies >= 2
           c == SetOrDeleteOp(t, "stddevRTT", some, Val(r))
           A == With(S, "packetLoss", t, NoLabel, Val(r))
           B == recordICMPAvgRTT(A, t, r)
           C == SetOrDelete(B, "stddevRTT", t, some, Val(r))
<1>0. "stddevRTT" \notin Labelled /\ some \in BOOLEAN
  BY DEF Labelled
<1> HIDE DEF a, b, c, A, B, C, some
<1>1. IsSeq(a) /\ Plain(A)
  BY AfterPlainSet DEF a, A
<1>2. After(S, a) = A
  BY AfterPlainSet DEF a, A
<1>3. IsSeq(b) /\ Plain(B)
  BY <1>1, AfterAvg DEF b, B
<1>4. After(A, b) = B
  BY <1>1, AfterAvg DEF b, B
<1>5. IsSeq(c) /\ Plain(C)
  BY <1>0, <1>3, AfterSetOrDelete DEF c, C
<1>6. After(B, c) = C
  BY <1>0, <1>3, AfterSetOrDelete DEF c, C
<1>7. IsSeq(a \o b) /\ After(S, a \o b) = B
  BY <1>1, <1>2, <1>3, <1>4, AfterThen
<1>8. IsSeq((a \o b) \o c) /\ After(S, (a \o b) \o c) = C
  BY <1>5, <1>6, <1>7, AfterThen
<1>9. typeOps(t, r) = (a \o b) \o c
  BY DEF typeOps, a, b, c, some
<1>10. recordByType(S, t, r) = C
  BY DEF recordByType, recordICMPStddevRTT, A, B, C, some
<1> QED
  BY <1>5, <1>8, <1>9, <1>10

LEMMA AfterTypeTwo ==
    ASSUME NEW S, NEW t, NEW r, Plain(S), t.type \in {"mtu", "dns", "http_body"},
           r.replies \in Nat, r.mtu \in BOOLEAN, r.dnsEval \in BOOLEAN,
           r.bodyEval \in BOOLEAN, r.http \in BOOLEAN
    PROVE  /\ IsSeq(typeOps(t, r))
           /\ After(S, typeOps(t, r)) = recordByType(S, t, r)
           /\ Plain(recordByType(S, t, r))
<1>0. "dnsMatch" \notin Labelled /\ "bodyMatch" \notin Labelled /\ "httpStatus" \notin Labelled
  BY DEF Labelled
<1>1. CASE t.type = "mtu"
  <2> DEFINE A == recordMTUResult(S, t, r)
  <2> HIDE DEF A
  <2>1. IsSeq(mtuOps(t, r)) /\ Plain(A)
    BY AfterMTU DEF A
  <2>2. After(S, mtuOps(t, r)) = A
    BY AfterMTU DEF A
  <2>3. /\ IsSeq(avgOps(t, r)) /\ After(A, avgOps(t, r)) = recordICMPAvgRTT(A, t, r)
        /\ Plain(recordICMPAvgRTT(A, t, r))
    BY <2>1, AfterAvg
  <2>4. After(S, mtuOps(t, r) \o avgOps(t, r)) = recordICMPAvgRTT(A, t, r)
    BY <2>1, <2>2, <2>3, AfterThen
  <2>5. typeOps(t, r) = mtuOps(t, r) \o avgOps(t, r)
    BY <1>1 DEF typeOps
  <2>6. recordByType(S, t, r) = recordICMPAvgRTT(A, t, r)
    BY <1>1 DEF recordByType, A
  <2> QED
    BY <2>1, <2>3, <2>4, <2>5, <2>6, ConcatSeq
<1>2. CASE t.type = "dns"
  <2> DEFINE a == SetOp(t, "dnsTime", NoLabel, Val(r))
             b == SetOrDeleteOp(t, "dnsMatch", r.dnsEval, Val(r))
             A == With(S, "dnsTime", t, NoLabel, Val(r))
             B == SetOrDelete(A, "dnsMatch", t, r.dnsEval, Val(r))
  <2> HIDE DEF a, b, A, B
  <2>1. IsSeq(a) /\ Plain(A)
    BY AfterPlainSet DEF a, A
  <2>2. After(S, a) = A
    BY AfterPlainSet DEF a, A
  <2>3. IsSeq(b) /\ Plain(B) /\ After(A, b) = B
    BY <1>0, <2>1, AfterSetOrDelete DEF b, B
  <2>4. After(S, a \o b) = B
    BY <2>1, <2>2, <2>3, AfterThen
  <2>5. typeOps(t, r) = a \o b
    BY <1>2 DEF typeOps, a, b
  <2>6. recordByType(S, t, r) = B
    BY <1>2 DEF recordByType, A, B
  <2> QED
    BY <2>1, <2>3, <2>4, <2>5, <2>6, ConcatSeq
<1>3. CASE t.type = "http_body"
  <2> DEFINE a == SetOrDeleteOp(t, "bodyMatch", r.bodyEval, Val(r))
             b == SetOrDeleteOp(t, "httpStatus", r.http, Val(r))
             A == SetOrDelete(S, "bodyMatch", t, r.bodyEval, Val(r))
             B == SetOrDelete(A, "httpStatus", t, r.http, Val(r))
  <2> HIDE DEF a, b, A, B
  <2>1. IsSeq(a) /\ Plain(A)
    BY <1>0, AfterSetOrDelete DEF a, A
  <2>2. After(S, a) = A
    BY <1>0, AfterSetOrDelete DEF a, A
  <2>3. IsSeq(b) /\ Plain(B) /\ After(A, b) = B
    BY <1>0, <2>1, AfterSetOrDelete DEF b, B
  <2>4. After(S, a \o b) = B
    BY <2>1, <2>2, <2>3, AfterThen
  <2>5. typeOps(t, r) = a \o b
    BY <1>3 DEF typeOps, a, b
  <2>6. recordByType(S, t, r) = B
    BY <1>3 DEF recordByType, A, B
  <2> QED
    BY <2>1, <2>3, <2>4, <2>5, <2>6, ConcatSeq
<1> QED
  BY <1>1, <1>2, <1>3

\* The results of the probe types, for every step below.
ResultOf(t, r) ==
    /\ t.type \in ProbeTypes /\ t.emitCert \in BOOLEAN
    /\ r.phases \subseteq AllPhases
    /\ r.chain \subseteq {"leaf", "intermediate", "root"}
    /\ r.replies \in Nat
    /\ r.connect \in BOOLEAN /\ r.http \in BOOLEAN /\ r.trunc \in BOOLEAN
    /\ r.mtu \in BOOLEAN /\ r.dnsEval \in BOOLEAN /\ r.bodyEval \in BOOLEAN

\* A result of the type of a target has the types the operations need.
LEMMA ResultTypes ==
    ASSUME NEW t \in Targets, NEW r \in Results(t.type)
    PROVE  ResultOf(t, r) /\ r # None /\ t.labels # NoLabel
BY TargetsAssumption, ResultsAssumption DEF ResultOf

\* The effect of the operations that depend on the probe type.
LEMMA AfterType ==
    ASSUME NEW S, NEW t, NEW r, Plain(S), ResultOf(t, r)
    PROVE  /\ IsSeq(typeOps(t, r))
           /\ After(S, typeOps(t, r)) = recordByType(S, t, r)
           /\ Plain(recordByType(S, t, r))
<1>1. CASE t.type = "http"
  BY <1>1, AfterTypeHTTP DEF ResultOf
<1>2. CASE t.type = "icmp"
  BY <1>2, AfterTypeICMP DEF ResultOf
<1>3. CASE t.type \in {"mtu", "dns", "http_body"}
  BY <1>3, AfterTypeTwo DEF ResultOf
<1>4. CASE t.type = "tls_cert"
  <2>1. typeOps(t, r) = tlsOps(t, r) /\ recordByType(S, t, r) = recordTLSResult(S, t, r)
    BY <1>4 DEF typeOps, recordByType
  <2> QED
    BY <2>1, AfterTLS DEF ResultOf
<1>5. CASE t.type \in {"tcp", "proxy_connect"}
  <2>1. typeOps(t, r) = <<>> /\ recordByType(S, t, r) = S
    BY <1>5 DEF typeOps, recordByType
  <2> QED
    BY <2>1, AfterNothing, NoOps
<1> QED
  BY <1>1, <1>2, <1>3, <1>4, <1>5 DEF ResultOf, ProbeTypes

Recorded(S, t, r) ==
    recordByType(recordPhases(recordProxyConnect(recordCommon(S, t, r), t, r), t, r), t, r)

\* The operations of Record, performed one after the other, are Record.
LEMMA AfterRecord ==
    ASSUME NEW S, NEW t, NEW r, Plain(S), ResultOf(t, r), NEW order \in SetToSeqs(r.phases)
    PROVE  /\ IsSeq(recordOps(t, r, order))
           /\ After(S, recordOps(t, r, order)) = Recorded(S, t, r)
<1> DEFINE a == commonOps(t, r)
           b == connectOps(t, r)
           c == phaseOps(t, r, order)
           d == typeOps(t, r)
           A == recordCommon(S, t, r)
           B == recordProxyConnect(A, t, r)
           C == recordPhases(B, t, r)
           D == recordByType(C, t, r)
<1>1. IsSeq(a) /\ Plain(A)
  BY AfterCommon
<1>2. After(S, a) = A
  BY AfterCommon
<1> HIDE DEF a, A
<1>3. IsSeq(b) /\ Plain(B)
  BY <1>1, AfterConnect DEF ResultOf
<1>4. After(A, b) = B
  BY <1>1, AfterConnect DEF ResultOf
<1> HIDE DEF b, B
<1>5. IsSeq(c) /\ Plain(C)
  BY <1>3, AfterPhases DEF ResultOf
<1>6. After(B, c) = C
  BY <1>3, AfterPhases DEF ResultOf
<1> HIDE DEF c, C
<1>7. IsSeq(d) /\ After(C, d) = D
  BY <1>5, AfterType
<1> HIDE DEF d, D
<1>8. IsSeq(a \o b) /\ After(S, a \o b) = B
  BY <1>1, <1>2, <1>3, <1>4, AfterThen
<1>9. IsSeq((a \o b) \o c) /\ After(S, (a \o b) \o c) = C
  BY <1>5, <1>6, <1>8, AfterThen
<1>10. IsSeq(((a \o b) \o c) \o d) /\ After(S, ((a \o b) \o c) \o d) = D
  BY <1>7, <1>9, AfterThen
<1> QED
  BY <1>10 DEF recordOps, Recorded, a, b, c, d, A, B, C, D

----------------------------------------------------------------------------
(* What Record leaves of the vectors *)

\* The series of an emitted pair <<family, sub>>.
ValueOf(r, fam) == IF fam = "mtuState" THEN One ELSE Val(r)
Series(t, r, e) == [fam |-> e[1], key |-> buildLabels(t), sub |-> e[2], val |-> ValueOf(r, e[1])]

\* S with the families F of the target refreshed to the pairs E.
Refreshed(S, t, r, F, E) ==
    {s \in S : ~(s.key = buildLabels(t) /\ s.fam \in F)} \union {Series(t, r, e) : e \in E}

Opt(b, E) == IF b THEN E ELSE {}

\* Setting a series refreshes its family.
LEMMA RefreshSet ==
    ASSUME NEW S, NEW t, NEW r, NEW F, NEW E, NEW f, \A e \in E : e[1] \in F /\ e[1] # f,
           NEW sub,
           f \in F \/ \A s \in S : s.key = buildLabels(t) /\ s.fam = f => s.sub = sub
    PROVE  LET T == Refreshed(S, t, r, F \union {f}, E \union {<<f, sub>>}) IN
           /\ With(Refreshed(S, t, r, F, E), f, t, sub, ValueOf(r, f)) = T
           /\ \A e \in E \union {<<f, sub>>} : e[1] \in F \union {f}
<1> DEFINE X == Refreshed(S, t, r, F, E)
           n == [fam |-> f, key |-> buildLabels(t), sub |-> sub, val |-> ValueOf(r, f)]
           rest == {s \in S : ~(s.key = buildLabels(t) /\ s.fam \in F)}
           old == {Series(t, r, e) : e \in E}
<1>1. X = rest \union old
  BY DEF Refreshed
<1>2. \A s \in old : s.key = buildLabels(t) /\ s.fam \in F /\ s.fam # f
  BY DEF Series
<1>3. n = Series(t, r, <<f, sub>>)
  BY DEF Series
<1>4. {Series(t, r, e) : e \in E \union {<<f, sub>>}} = old \union {n}
  <2> HIDE DEF n
  <2> QED
    BY <1>3
<1>5. With(X, f, t, sub, ValueOf(r, f))
        = {s \in X : ~(s.fam = f /\ s.key = buildLabels(t) /\ s.sub = sub)} \union {n}
  BY DEF With
<1> HIDE DEF X, n, old
<1>6. {s \in X : ~(s.fam = f /\ s.key = buildLabels(t) /\ s.sub = sub)}
        = {s \in S : ~(s.key = buildLabels(t) /\ s.fam \in F \union {f})} \union old
  BY <1>1, <1>2
<1> QED
  BY <1>4, <1>5, <1>6 DEF Refreshed, X

\* Deleting a family refreshes it to nothing.
LEMMA RefreshDelete ==
    ASSUME NEW S, NEW t, NEW r, NEW F, NEW E, NEW f, \A e \in E : e[1] \in F /\ e[1] # f
    PROVE  /\ Delete(Refreshed(S, t, r, F, E), f, t) = Refreshed(S, t, r, F \union {f}, E)
           /\ \A e \in E : e[1] \in F \union {f}
<1> DEFINE old == {Series(t, r, e) : e \in E}
<1>1. \A s \in old : s.key = buildLabels(t) /\ s.fam \in F /\ s.fam # f
  BY DEF Series
<1> HIDE DEF old
<1>2. {s \in {x \in S : ~(x.key = buildLabels(t) /\ x.fam \in F)} \union old :
          ~(s.fam = f /\ s.key = buildLabels(t))}
        = {s \in S : ~(s.key = buildLabels(t) /\ s.fam \in F \union {f})} \union old
  BY <1>1
<1> QED
  BY <1>2 DEF Refreshed, Delete, old


\* X is S with the families F of the target refreshed to the pairs E of F.
Refreshes(X, S, t, r, F, E) ==
    X = Refreshed(S, t, r, F, E) /\ \A e \in E : e[1] \in F

LEMMA RefreshesSet ==
    ASSUME NEW X, NEW S, NEW t, NEW r, NEW F, NEW E, Refreshes(X, S, t, r, F, E),
           NEW f, \A e \in E : e[1] # f, NEW sub,
           f \in F \/ \A s \in S : s.key = buildLabels(t) /\ s.fam = f => s.sub = sub
    PROVE  Refreshes(With(X, f, t, sub, ValueOf(r, f)), S, t, r, F \union {f}, E \union {<<f, sub>>})
BY RefreshSet DEF Refreshes

LEMMA RefreshesDelete ==
    ASSUME NEW X, NEW S, NEW t, NEW r, NEW F, NEW E, Refreshes(X, S, t, r, F, E),
           NEW f, \A e \in E : e[1] # f
    PROVE  Refreshes(Delete(X, f, t), S, t, r, F \union {f}, E)
BY RefreshDelete DEF Refreshes

LEMMA RefreshesNone ==
    ASSUME NEW X, NEW S, NEW t, NEW r, NEW F, NEW E, Refreshes(X, S, t, r, F, E)
    PROVE  Refreshes(X, S, t, r, F, E \union {})
<1>1. E \union {} = E
  OBVIOUS
<1> QED
  BY <1>1

\* The same for families without labels of their own that were not refreshed yet.
LEMMA RefreshesPlain ==
    ASSUME NEW X, NEW S, NEW t, NEW r, NEW F, NEW E, Refreshes(X, S, t, r, F, E), Plain(S),
           NEW f, f \notin F, f \notin Labelled
    PROVE  Refreshes(With(X, f, t, NoLabel, Val(r)), S, t, r, F \union {f}, E \union {<<f, NoLabel>>})
<1> DEFINE z == NoLabel
<1>1. Val(r) = ValueOf(r, f)
  BY DEF ValueOf, Labelled
<1>2. \A s \in S : s.key = buildLabels(t) /\ s.fam = f => s.sub = z
  BY DEF Plain
<1>4. \A e \in E : e[1] # f
  BY DEF Refreshes
<1> HIDE DEF z
<1>3. Refreshes(With(X, f, t, z, ValueOf(r, f)), S, t, r, F \union {f}, E \union {<<f, z>>})
  BY <1>2, <1>4, RefreshesSet
<1> QED
  BY <1>1, <1>3, Zenon DEF z

LEMMA RefreshesOptional ==
    ASSUME NEW X, NEW S, NEW t, NEW r, NEW F, NEW E, Refreshes(X, S, t, r, F, E), Plain(S),
           NEW f, f \notin F, f \notin Labelled, NEW b \in BOOLEAN
    PROVE  Refreshes(SetOrDelete(X, f, t, b, Val(r)), S, t, r, F \union {f},
                     E \union Opt(b, {<<f, NoLabel>>}))
<1>0. \A e \in E : e[1] # f
  BY DEF Refreshes
<1>1. CASE b
  <2>1. Opt(b, {<<f, NoLabel>>}) = {<<f, NoLabel>>}
    BY <1>1 DEF Opt
  <2>2. SetOrDelete(X, f, t, b, Val(r)) = With(X, f, t, NoLabel, Val(r))
    BY <1>1 DEF SetOrDelete
  <2>3. Refreshes(With(X, f, t, NoLabel, Val(r)), S, t, r, F \union {f}, E \union {<<f, NoLabel>>})
    BY RefreshesPlain, Zenon
  <2> QED
    BY <2>1, <2>2, <2>3, Zenon
<1>2. CASE ~b
  <2>1. Opt(b, {<<f, NoLabel>>}) = {}
    BY <1>2 DEF Opt
  <2>2. SetOrDelete(X, f, t, b, Val(r)) = Delete(X, f, t)
    BY <1>2 DEF SetOrDelete
  <2>3. Refreshes(Delete(X, f, t), S, t, r, F \union {f}, E)
    BY <1>0, RefreshesDelete
  <2>4. Refreshes(Delete(X, f, t), S, t, r, F \union {f}, E \union {})
    BY <2>3, RefreshesNone
  <2> QED
    BY <2>1, <2>2, <2>4, Zenon
<1> QED
  BY <1>1, <1>2

LEMMA RefreshesAdd ==
    ASSUME NEW X, NEW S, NEW t, NEW r, NEW F, NEW E, Refreshes(X, S, t, r, F, E),
           NEW N, NEW P, N = {Series(t, r, e) : e \in P}, \A e \in P : e[1] \in F
    PROVE  Refreshes(X \union N, S, t, r, F, E \union P)
<1>1. {Series(t, r, e) : e \in E \union P} = {Series(t, r, e) : e \in E} \union N
  OBVIOUS
<1>2. \A e \in E \union P : e[1] \in F
  BY DEF Refreshes
<1> QED
  BY <1>1, <1>2 DEF Refreshes, Refreshed

LEMMA LabelledSeries ==
    ASSUME NEW t, NEW r, NEW f, NEW C
    PROVE  /\ {[fam |-> f, key |-> buildLabels(t), sub |-> c, val |-> ValueOf(r, f)] : c \in C}
                = {Series(t, r, e) : e \in {<<f, c>> : c \in C}}
           /\ \A e \in {<<f, c>> : c \in C} : e[1] = f
<1> DEFINE n(c) == [fam |-> f, key |-> buildLabels(t), sub |-> c, val |-> ValueOf(r, f)]
<1>1. \A c : n(c) = Series(t, r, <<f, c>>)
  BY DEF Series
<1> HIDE DEF n
<1>2. {Series(t, r, e) : e \in {<<f, c>> : c \in C}} = {n(c) : c \in C}
  BY <1>1
<1> QED
  BY <1>2 DEF n

\* The phases are known ones.
KnownSubs(S) == \A s \in S : s.fam = "phase" => s.sub \in AllPhases

\* recordPhases refreshes the phases to the observed ones.
LEMMA RefreshesPhases ==
    ASSUME NEW X, NEW S, NEW t, NEW r, NEW F, NEW E, Refreshes(X, S, t, r, F, E), KnownSubs(S),
           "phase" \notin F
    PROVE  Refreshes(recordPhases(X, t, r), S, t, r, F \union {"phase"},
                     E \union {<<"phase", p>> : p \in r.phases})
<1> DEFINE G == F \union {"phase"}
           k == buildLabels(t)
           D == Delete(X, "phase", t)
<1>0. \A e \in E : e[1] # "phase"
  BY DEF Refreshes
<1>1. Val(r) = ValueOf(r, "phase")
  BY DEF ValueOf
<1>2. Refreshes(D, S, t, r, G, E)
  BY <1>0, RefreshesDelete
<1>3. \A s \in X : s.fam = "phase" => s \in S
  BY <1>0 DEF Refreshes, Refreshed, Series
<1>4. {s \in X : ~(s.fam = "phase" /\ s.key = k /\ s.sub \in AllPhases)} = D
  BY <1>3 DEF Delete, KnownSubs
<1>5. recordPhases(X, t, r)
        = D \union {[fam |-> "phase", key |-> k, sub |-> p, val |-> ValueOf(r, "phase")] : p \in r.phases}
  BY <1>1, <1>4 DEF recordPhases
<1>6. "phase" \in G
  OBVIOUS
<1> HIDE DEF G, D
<1> DEFINE N == {[fam |-> "phase", key |-> k, sub |-> p, val |-> ValueOf(r, "phase")] : p \in r.phases}
           P == {<<"phase", p>> : p \in r.phases}
<1>7. N = {Series(t, r, e) : e \in P} /\ \A e \in P : e[1] = "phase"
  BY LabelledSeries
<1> HIDE DEF N, P
<1>8. Refreshes(D \union N, S, t, r, G, E \union P)
  <2>1. \A e \in P : e[1] \in G
    BY <1>6, <1>7
  <2> QED
    BY <1>2, <1>7, <2>1, RefreshesAdd
<1> QED
  BY <1>5, <1>8, Zenon DEF G, N, P

LEMMA RefreshesClearTLS ==
    ASSUME NEW X, NEW S, NEW t, NEW r, NEW F, NEW E, Refreshes(X, S, t, r, F, E),
           "certExpiry" \notin F, "chain" \notin F
    PROVE  Refreshes(clearTLSResult(X, t), S, t, r, (F \union {"certExpiry"}) \union {"chain"}, E)
<1> DEFINE D == Delete(X, "certExpiry", t)
           G == F \union {"certExpiry"}
<1>0. (\A e \in E : e[1] # "certExpiry") /\ (\A e \in E : e[1] # "chain")
  BY DEF Refreshes
<1>1. Refreshes(D, S, t, r, G, E)
  BY <1>0, RefreshesDelete
<1> HIDE DEF D, G
<1>2. Refreshes(Delete(D, "chain", t), S, t, r, G \union {"chain"}, E)
  BY <1>0, <1>1, RefreshesDelete
<1> QED
  BY <1>2 DEF clearTLSResult, D, G

TLSPairs(r) == {<<"certExpiry", NoLabel>>} \union {<<"chain", c>> : c \in r.chain}

\* recordTLSResult refreshes the certificate metrics to the observed chain.
LEMMA RefreshesTLS ==
    ASSUME NEW X, NEW S, NEW t, NEW r, NEW F, NEW E, Refreshes(X, S, t, r, F, E),
           "certExpiry" \notin F, "chain" \notin F
    PROVE  Refreshes(recordTLSResult(X, t, r), S, t, r, (F \union {"certExpiry"}) \union {"chain"},
                     E \union Opt(r.chain # {}, TLSPairs(r)))
<1> DEFINE G == (F \union {"certExpiry"}) \union {"chain"}
           C == clearTLSResult(X, t)
           W == With(C, "certExpiry", t, NoLabel, Val(r))
<1>0. /\ \A e \in E : e[1] # "certExpiry"
      /\ "certExpiry" \in G /\ "chain" \in G /\ G \union {"certExpiry"} = G
  BY DEF Refreshes
<1>1. Refreshes(C, S, t, r, G, E)
  BY RefreshesClearTLS
<1> HIDE DEF G, C
<1>2. CASE r.chain = {}
  <2>1. recordTLSResult(X, t, r) = C
    BY <1>2 DEF recordTLSResult, C
  <2>2. Opt(r.chain # {}, TLSPairs(r)) = {}
    BY <1>2 DEF Opt
  <2>3. Refreshes(C, S, t, r, G, E \union {})
    BY <1>1, RefreshesNone
  <2> QED
    BY <2>1, <2>2, <2>3, Zenon DEF G
<1>3. CASE r.chain # {}
  <2> DEFINE z == NoLabel
             E1 == E \union {<<"certExpiry", z>>}
             new == {[fam |-> "chain", key |-> buildLabels(t), sub |-> c, val |-> ValueOf(r, "chain")]
                       : c \in r.chain}
             E2 == E1 \union {<<"chain", c>> : c \in r.chain}
  <2>1. Val(r) = ValueOf(r, "certExpiry") /\ Val(r) = ValueOf(r, "chain")
    BY DEF ValueOf
  <2>2. Refreshes(W, S, t, r, G, E1)
    <3> HIDE DEF z
    <3>1. Refreshes(With(C, "certExpiry", t, z, ValueOf(r, "certExpiry")), S, t, r,
                    G \union {"certExpiry"}, E \union {<<"certExpiry", z>>})
      BY <1>0, <1>1, RefreshesSet
    <3> QED
      BY <1>0, <2>1, <3>1, Zenon DEF z
  <2> HIDE DEF W, E1
  <2>3. Refreshes(W \union new, S, t, r, G, E2)
    <3> DEFINE P == {<<"chain", c>> : c \in r.chain}
    <3>1. new = {Series(t, r, e) : e \in P} /\ \A e \in P : e[1] = "chain"
      BY LabelledSeries
    <3> HIDE DEF P, new
    <3>2. \A e \in P : e[1] \in G
      BY <1>0, <3>1
    <3>3. Refreshes(W \union new, S, t, r, G, E1 \union P)
      BY <2>2, <3>1, <3>2, RefreshesAdd
    <3> QED
      BY <3>3, Zenon DEF P
  <2>4. recordTLSResult(X, t, r) = W \union new
    BY <1>3, <2>1 DEF recordTLSResult, W, C
  <2>5. E2 = E \union Opt(r.chain # {}, TLSPairs(r))
    BY <1>3 DEF Opt, TLSPairs, E1
  <2> QED
    BY <2>3, <2>4, <2>5, Zenon DEF G
<1> QED
  BY <1>2, <1>3

\* recordMTUResult refreshes the state to the one that was found.
LEMMA RefreshesMTU ==
    ASSUME NEW X, NEW S, NEW t, NEW r, NEW F, NEW E, Refreshes(X, S, t, r, F, E), Plain(S),
           "mtuState" \notin F, "mtuBytes" \notin F, r.mtu \in BOOLEAN
    PROVE  Refreshes(recordMTUResult(X, t, r), S, t, r, (F \union {"mtuState"}) \union {"mtuBytes"},
                     (E \union Opt(r.mtu, {<<"mtuBytes", NoLabel>>})) \union {<<"mtuState", r.mtuState>>})
<1> DEFINE G1 == F \union {"mtuState"}
           G == G1 \union {"mtuBytes"}
           E1 == E \union Opt(r.mtu, {<<"mtuBytes", NoLabel>>})
           D == Delete(X, "mtuState", t)
           B == SetOrDelete(D, "mtuBytes", t, r.mtu, Val(r))
<1>0. /\ \A e \in E : e[1] # "mtuState"
      /\ "mtuState" \in G /\ G \union {"mtuState"} = G /\ "mtuBytes" \notin G1
      /\ "mtuBytes" \notin Labelled
  BY DEF Refreshes, Labelled
<1>1. Refreshes(D, S, t, r, G1, E)
  BY <1>0, RefreshesDelete
<1>2. \A e \in E1 : e[1] # "mtuState"
  <2>1. \A e \in {<<"mtuBytes", NoLabel>>} : e[1] # "mtuState"
    OBVIOUS
  <2>2. CASE r.mtu
    BY <1>0, <2>1, <2>2 DEF Opt
  <2>3. CASE ~r.mtu
    BY <1>0, <2>3 DEF Opt
  <2> QED
    BY <2>2, <2>3
<1> HIDE DEF D, G1
<1>3. Refreshes(B, S, t, r, G, E1)
  BY <1>0, <1>1, RefreshesOptional
<1> HIDE DEF B, G, E1
<1>4. Refreshes(With(B, "mtuState", t, r.mtuState, ValueOf(r, "mtuState")), S, t, r,
                G \union {"mtuState"}, E1 \union {<<"mtuState", r.mtuState>>})
  BY <1>0, <1>2, <1>3, RefreshesSet
<1>5. ValueOf(r, "mtuState") = One
  BY DEF ValueOf
<1> QED
  BY <1>0, <1>4, <1>5, Zenon DEF recordMTUResult, B, D, G, G1, E1

Tunnelled == {"proxy_connect", "http", "http_body", "tls_cert"}

\* The families Record refreshes, by probe type.
Families(t) ==
    {"success", "duration", "timedOut", "phase"}
    \union Opt(t.type \in Tunnelled, {"connectStatus"})
    \union Opt(t.type \in {"http", "http_body"}, {"httpStatus"})
    \union Opt(t.type = "http", {"truncated"})
    \union Opt(t.type = "http_body", {"bodyMatch"})
    \union Opt(t.type \in {"tls_cert", "http"}, {"certExpiry", "chain"})
    \union Opt(t.type = "icmp", {"packetLoss", "stddevRTT"})
    \union Opt(t.type \in {"icmp", "mtu"}, {"avgRTT"})
    \union Opt(t.type = "mtu", {"mtuState", "mtuBytes"})
    \union Opt(t.type = "dns", {"dnsTime", "dnsMatch"})

\* What every type has.
FirstFamilies(t) ==
    {"success", "duration", "timedOut", "phase"} \union Opt(t.type \in Tunnelled, {"connectStatus"})
FirstEmitted(t, r) ==
    {<<f, NoLabel>> : f \in {"success", "duration", "timedOut"}}
    \union {<<"phase", p>> : p \in r.phases}
    \union Opt(r.connect /\ t.type \in Tunnelled, {<<"connectStatus", NoLabel>>})

\* What Record refreshes whatever the type.
LEMMA RefreshesFirst ==
    ASSUME NEW S, NEW t, NEW r, Plain(S), KnownSubs(S), ResultOf(t, r)
    PROVE  Refreshes(recordPhases(recordProxyConnect(recordCommon(S, t, r), t, r), t, r),
                     S, t, r, FirstFamilies(t), FirstEmitted(t, r))
<1> DEFINE F1 == {} \union {"success"}
           F2 == F1 \union {"duration"}
           F3 == F2 \union {"timedOut"}
           F4 == F3 \union Opt(t.type \in Tunnelled, {"connectStatus"})
           E1 == {} \union {<<"success", NoLabel>>}
           E2 == E1 \union {<<"duration", NoLabel>>}
           E3 == E2 \union {<<"timedOut", NoLabel>>}
           E4 == E3 \union Opt(r.connect /\ t.type \in Tunnelled, {<<"connectStatus", NoLabel>>})
           X1 == With(S, "success", t, NoLabel, Val(r))
           X2 == With(X1, "duration", t, NoLabel, Val(r))
           X3 == With(X2, "timedOut", t, NoLabel, Val(r))
           X4 == recordProxyConnect(X3, t, r)
<1>1. Refreshes(S, S, t, r, {}, {})
  BY DEF Refreshes, Refreshed
<1>2. /\ "success" \notin {} /\ "duration" \notin F1 /\ "timedOut" \notin F2
      /\ "connectStatus" \notin F3 /\ "phase" \notin F4
      /\ "success" \notin Labelled /\ "duration" \notin Labelled /\ "timedOut" \notin Labelled
      /\ "connectStatus" \notin Labelled
  BY DEF Labelled, Opt
<1> HIDE DEF F1, F2, F3, F4, E1, E2, E3, E4, X1, X2, X3, X4
<1>3. Refreshes(X1, S, t, r, F1, E1)
  BY <1>1, <1>2, RefreshesPlain DEF X1, F1, E1
<1>4. Refreshes(X2, S, t, r, F2, E2)
  BY <1>2, <1>3, RefreshesPlain DEF X2, F2, E2
<1>5. Refreshes(X3, S, t, r, F3, E3)
  BY <1>2, <1>4, RefreshesPlain DEF X3, F3, E3
<1>6. Refreshes(X4, S, t, r, F4, E4)
  <2>1. CASE t.type \in Tunnelled
    <3>1. X4 = SetOrDelete(X3, "connectStatus", t, r.connect, Val(r))
      BY <2>1 DEF X4, recordProxyConnect, Tunnelled
    <3>2. F4 = F3 \union {"connectStatus"} /\ E4 = E3 \union Opt(r.connect, {<<"connectStatus", NoLabel>>})
      BY <2>1 DEF F4, E4, Opt
    <3>3. r.connect \in BOOLEAN
      BY DEF ResultOf
    <3>4. Refreshes(SetOrDelete(X3, "connectStatus", t, r.connect, Val(r)), S, t, r,
                    F3 \union {"connectStatus"}, E3 \union Opt(r.connect, {<<"connectStatus", NoLabel>>}))
      BY <1>2, <1>5, <3>3, RefreshesOptional
    <3> QED
      BY <3>1, <3>2, <3>4
  <2>2. CASE t.type \notin Tunnelled
    <3>1. X4 = X3
      BY <2>2 DEF X4, recordProxyConnect, Tunnelled
    <3>2. F4 = F3 /\ E4 = E3
      BY <2>2 DEF F4, E4, Opt
    <3> QED
      BY <1>5, <3>1, <3>2
  <2> QED
    BY <2>1, <2>2
<1>7. Refreshes(recordPhases(X4, t, r), S, t, r, F4 \union {"phase"},
                E4 \union {<<"phase", p>> : p \in r.phases})
  BY <1>2, <1>6, RefreshesPhases
<1>8. F4 \union {"phase"} = FirstFamilies(t)
  BY DEF F1, F2, F3, F4, FirstFamilies
<1>9. E4 \union {<<"phase", p>> : p \in r.phases} = FirstEmitted(t, r)
  <2>1. E3 = {<<f, NoLabel>> : f \in {"success", "duration", "timedOut"}}
    BY DEF E1, E2, E3
  <2> QED
    BY <2>1 DEF E4, FirstEmitted
<1> QED
  BY <1>7, <1>8, <1>9 DEF recordCommon, X1, X2, X3, X4

\* What Record refreshes for each probe type.
LEMMA RefreshesHTTP ==
    ASSUME NEW X, NEW S, NEW t, NEW r, Plain(S), ResultOf(t, r), t.type = "http",
           Refreshes(X, S, t, r, FirstFamilies(t), FirstEmitted(t, r))
    PROVE  Refreshes(recordByType(X, t, r), S, t, r, Families(t), Emitted(t, r))
<1> DEFINE F0 == FirstFamilies(t)
           E0 == FirstEmitted(t, r)
           F1 == F0 \union {"httpStatus"}
           F2 == (F1 \union {"certExpiry"}) \union {"chain"}
           F3 == F2 \union {"truncated"}
           E1 == E0 \union Opt(r.http, {<<"httpStatus", NoLabel>>})
           E2 == E1 \union Opt(r.chain # {} /\ t.emitCert, TLSPairs(r))
           E3 == E2 \union Opt(r.trunc, {<<"truncated", NoLabel>>})
           X1 == SetOrDelete(X, "httpStatus", t, r.http, Val(r))
           X2 == IF t.emitCert THEN recordTLSResult(X1, t, r) ELSE clearTLSResult(X1, t)
           X3 == SetOrDelete(X2, "truncated", t, r.trunc, Val(r))
<1>1. /\ "httpStatus" \notin F0 /\ "certExpiry" \notin F1 /\ "chain" \notin F1
      /\ "truncated" \notin F2
      /\ "httpStatus" \notin Labelled /\ "truncated" \notin Labelled
  BY DEF Labelled, Opt, FirstFamilies
<1>2. r.http \in BOOLEAN /\ r.trunc \in BOOLEAN /\ t.emitCert \in BOOLEAN
  BY DEF ResultOf
<1>3. F3 = Families(t)
  BY DEF FirstFamilies, Families, Opt
<1>4. E3 = Emitted(t, r)
  <2>1. E3 = FirstEmitted(t, r) \union (IF r.http THEN {<<"httpStatus", NoLabel>>} ELSE {})
              \union (IF r.chain # {} /\ t.emitCert THEN TLSPairs(r) ELSE {})
              \union (IF r.trunc THEN {<<"truncated", NoLabel>>} ELSE {})
    BY DEF Opt
  <2> QED
    BY <2>1 DEF Emitted, FirstEmitted, TLSPairs, Opt, Tunnelled
<1> HIDE DEF F0, F1, F2, F3, E0, E1, E2, E3, X1, X2, X3
<1>5. Refreshes(X1, S, t, r, F1, E1)
  BY <1>1, <1>2, RefreshesOptional DEF X1, F1, E1, F0, E0
<1>6. Refreshes(X2, S, t, r, F2, E2)
  <2>1. CASE t.emitCert
    <3>1. X2 = recordTLSResult(X1, t, r) /\ E2 = E1 \union Opt(r.chain # {}, TLSPairs(r))
      BY <2>1 DEF X2, E2, Opt
    <3>2. Refreshes(recordTLSResult(X1, t, r), S, t, r, F2, E1 \union Opt(r.chain # {}, TLSPairs(r)))
      BY <1>1, <1>5, RefreshesTLS DEF F2
    <3> QED
      BY <3>1, <3>2
  <2>2. CASE ~t.emitCert
    <3>1. X2 = clearTLSResult(X1, t) /\ E2 = E1
      BY <2>2 DEF X2, E2, Opt
    <3>2. Refreshes(clearTLSResult(X1, t), S, t, r, F2, E1)
      BY <1>1, <1>5, RefreshesClearTLS DEF F2
    <3> QED
      BY <3>1, <3>2
  <2> QED
    BY <2>1, <2>2
<1>7. Refreshes(X3, S, t, r, F3, E3)
  BY <1>1, <1>2, <1>6, RefreshesOptional DEF X3, F3, E3
<1>8. recordByType(X, t, r) = X3
  BY DEF recordByType, X1, X2, X3
<1> QED
  BY <1>3, <1>4, <1>7, <1>8

LEMMA RefreshesICMP ==
    ASSUME NEW X, NEW S, NEW t, NEW r, Plain(S), ResultOf(t, r), t.type = "icmp",
           Refreshes(X, S, t, r, FirstFamilies(t), FirstEmitted(t, r))
    PROVE  Refreshes(recordByType(X, t, r), S, t, r, Families(t), Emitted(t, r))
<1> DEFINE F0 == FirstFamilies(t)
           E0 == FirstEmitted(t, r)
           one == r.replies >= 1
           two == r.replies >= 2
           F1 == F0 \union {"packetLoss"}
           F2 == F1 \union {"avgRTT"}
           F3 == F2 \union {"stddevRTT"}
           E1 == E0 \union {<<"packetLoss", NoLabel>>}
           E2 == E1 \union Opt(one, {<<"avgRTT", NoLabel>>})
           E3 == E2 \union Opt(two, {<<"stddevRTT", NoLabel>>})
           X1 == With(X, "packetLoss", t, NoLabel, Val(r))
           X2 == SetOrDelete(X1, "avgRTT", t, one, Val(r))
           X3 == SetOrDelete(X2, "stddevRTT", t, two, Val(r))
<1>1. /\ "packetLoss" \notin F0 /\ "avgRTT" \notin F1 /\ "stddevRTT" \notin F2
      /\ "packetLoss" \notin Labelled /\ "avgRTT" \notin Labelled /\ "stddevRTT" \notin Labelled
  BY DEF Labelled, Opt, FirstFamilies
<1>2. one \in BOOLEAN /\ two \in BOOLEAN
  BY DEF ResultOf
<1>3. F3 = Families(t)
  BY DEF FirstFamilies, Families, Opt, Tunnelled
<1>4. E3 = Emitted(t, r)
  BY DEF Emitted, FirstEmitted, Opt, Tunnelled
<1>8. recordByType(X, t, r) = X3
  BY DEF recordByType, recordICMPAvgRTT, recordICMPStddevRTT
<1> HIDE DEF F0, F1, F2, F3, E0, E1, E2, E3, X1, X2, X3, one, two
<1>5. Refreshes(X1, S, t, r, F1, E1)
  BY <1>1, RefreshesPlain DEF X1, F1, E1, F0, E0
<1>6. Refreshes(X2, S, t, r, F2, E2)
  BY <1>1, <1>2, <1>5, RefreshesOptional DEF X2, F2, E2
<1>7. Refreshes(X3, S, t, r, F3, E3)
  BY <1>1, <1>2, <1>6, RefreshesOptional DEF X3, F3, E3
<1> QED
  BY <1>3, <1>4, <1>7, <1>8

LEMMA RefreshesMTUType ==
    ASSUME NEW X, NEW S, NEW t, NEW r, Plain(S), ResultOf(t, r), t.type = "mtu",
           Refreshes(X, S, t, r, FirstFamilies(t), FirstEmitted(t, r))
    PROVE  Refreshes(recordByType(X, t, r), S, t, r, Families(t), Emitted(t, r))
<1> DEFINE F0 == FirstFamilies(t)
           E0 == FirstEmitted(t, r)
           one == r.replies >= 1
           F1 == (F0 \union {"mtuState"}) \union {"mtuBytes"}
           F2 == F1 \union {"avgRTT"}
           E1 == (E0 \union Opt(r.mtu, {<<"mtuBytes", NoLabel>>})) \union {<<"mtuState", r.mtuState>>}
           E2 == E1 \union Opt(one, {<<"avgRTT", NoLabel>>})
           X1 == recordMTUResult(X, t, r)
           X2 == SetOrDelete(X1, "avgRTT", t, one, Val(r))
<1>1. /\ "mtuState" \notin F0 /\ "mtuBytes" \notin F0 /\ "avgRTT" \notin F1
      /\ "avgRTT" \notin Labelled
  BY DEF Labelled, Opt, FirstFamilies
<1>2. one \in BOOLEAN /\ r.mtu \in BOOLEAN
  BY DEF ResultOf
<1>3. F2 = Families(t)
  BY DEF FirstFamilies, Families, Opt, Tunnelled
<1>4. E2 = Emitted(t, r)
  BY DEF Emitted, FirstEmitted, Opt, Tunnelled
<1>8. recordByType(X, t, r) = X2
  BY DEF recordByType, recordICMPAvgRTT
<1> HIDE DEF F0, F1, F2, E0, E1, E2, X1, X2, one
<1>5. Refreshes(X1, S, t, r, F1, E1)
  BY <1>1, <1>2, RefreshesMTU DEF X1, F1, E1, F0, E0
<1>6. Refreshes(X2, S, t, r, F2, E2)
  BY <1>1, <1>2, <1>5, RefreshesOptional DEF X2, F2, E2
<1> QED
  BY <1>3, <1>4, <1>6, <1>8

LEMMA RefreshesDNS ==
    ASSUME NEW X, NEW S, NEW t, NEW r, Plain(S), ResultOf(t, r), t.type = "dns",
           Refreshes(X, S, t, r, FirstFamilies(t), FirstEmitted(t, r))
    PROVE  Refreshes(recordByType(X, t, r), S, t, r, Families(t), Emitted(t, r))
<1> DEFINE F0 == FirstFamilies(t)
           E0 == FirstEmitted(t, r)
           F1 == F0 \union {"dnsTime"}
           F2 == F1 \union {"dnsMatch"}
           E1 == E0 \union {<<"dnsTime", NoLabel>>}
           E2 == E1 \union Opt(r.dnsEval, {<<"dnsMatch", NoLabel>>})
           X1 == With(X, "dnsTime", t, NoLabel, Val(r))
           X2 == SetOrDelete(X1, "dnsMatch", t, r.dnsEval, Val(r))
<1>1. /\ "dnsTime" \notin F0 /\ "dnsMatch" \notin F1
      /\ "dnsTime" \notin Labelled /\ "dnsMatch" \notin Labelled
  BY DEF Labelled, Opt, FirstFamilies
<1>2. r.dnsEval \in BOOLEAN
  BY DEF ResultOf
<1>3. F2 = Families(t)
  BY DEF FirstFamilies, Families, Opt, Tunnelled
<1>4. E2 = Emitted(t, r)
  BY DEF Emitted, FirstEmitted, Opt, Tunnelled
<1>8. recordByType(X, t, r) = X2
  BY DEF recordByType
<1> HIDE DEF F0, F1, F2, E0, E1, E2, X1, X2
<1>5. Refreshes(X1, S, t, r, F1, E1)
  BY <1>1, <1>2, RefreshesPlain DEF X1, F1, E1, F0, E0
<1>6. Refreshes(X2, S, t, r, F2, E2)
  BY <1>1, <1>2, <1>5, RefreshesOptional DEF X2, F2, E2
<1> QED
  BY <1>3, <1>4, <1>6, <1>8

LEMMA RefreshesBody ==
    ASSUME NEW X, NEW S, NEW t, NEW r, Plain(S), ResultOf(t, r), t.type = "http_body",
           Refreshes(X, S, t, r, FirstFamilies(t), FirstEmitted(t, r))
    PROVE  Refreshes(recordByType(X, t, r), S, t, r, Families(t), Emitted(t, r))
<1> DEFINE F0 == FirstFamilies(t)
           E0 == FirstEmitted(t, r)
           F1 == F0 \union {"bodyMatch"}
           F2 == F1 \union {"httpStatus"}
           E1 == E0 \union Opt(r.bodyEval, {<<"bodyMatch", NoLabel>>})
           E2 == E1 \union Opt(r.http, {<<"httpStatus", NoLabel>>})
           X1 == SetOrDelete(X, "bodyMatch", t, r.bodyEval, Val(r))
           X2 == SetOrDelete(X1, "httpStatus", t, r.http, Val(r))
<1>1. /\ "bodyMatch" \notin F0 /\ "httpStatus" \notin F1
      /\ "bodyMatch" \notin Labelled /\ "httpStatus" \notin Labelled
  BY DEF Labelled, Opt, FirstFamilies
<1>2. r.bodyEval \in BOOLEAN /\ r.http \in BOOLEAN
  BY DEF ResultOf
<1>3. F2 = Families(t)
  BY DEF FirstFamilies, Families, Opt, Tunnelled
<1>4. E2 = Emitted(t, r)
  BY DEF Emitted, FirstEmitted, Opt, Tunnelled
<1>8. recordByType(X, t, r) = X2
  BY DEF recordByType
<1> HIDE DEF F0, F1, F2, E0, E1, E2, X1, X2
<1>5. Refreshes(X1, S, t, r, F1, E1)
  BY <1>1, <1>2, RefreshesOptional DEF X1, F1, E1, F0, E0
<1>6. Refreshes(X2, S, t, r, F2, E2)
  BY <1>1, <1>2, <1>5, RefreshesOptional DEF X2, F2, E2
<1> QED
  BY <1>3, <1>4, <1>6, <1>8

LEMMA RefreshesOther ==
    ASSUME NEW X, NEW S, NEW t, NEW r, Plain(S), ResultOf(t, r),
           t.type \in {"tls_cert", "tcp", "proxy_connect"},
           Refreshes(X, S, t, r, FirstFamilies(t), FirstEmitted(t, r))
    PROVE  Refreshes(recordByType(X, t, r), S, t, r, Families(t), Emitted(t, r))
<1>1. CASE t.type = "tls_cert"
  <2> DEFINE G == (FirstFamilies(t) \union {"certExpiry"}) \union {"chain"}
             H == FirstEmitted(t, r) \union Opt(r.chain # {}, TLSPairs(r))
  <2>1. "certExpiry" \notin FirstFamilies(t) /\ "chain" \notin FirstFamilies(t)
    BY DEF FirstFamilies, Opt
  <2>2. Refreshes(recordTLSResult(X, t, r), S, t, r, G, H)
    BY <2>1, RefreshesTLS
  <2>3. G = Families(t)
    BY <1>1 DEF FirstFamilies, Families, Opt, Tunnelled
  <2>4. H = Emitted(t, r)
    BY <1>1 DEF Emitted, FirstEmitted, TLSPairs, Opt, Tunnelled
  <2>5. recordByType(X, t, r) = recordTLSResult(X, t, r)
    BY <1>1 DEF recordByType
  <2> QED
    BY <2>2, <2>3, <2>4, <2>5
<1>2. CASE t.type \in {"tcp", "proxy_connect"}
  <2>1. FirstFamilies(t) = Families(t)
    BY <1>2 DEF FirstFamilies, Families, Opt, Tunnelled
  <2>2. FirstEmitted(t, r) = Emitted(t, r)
    BY <1>2 DEF Emitted, FirstEmitted, Opt, Tunnelled
  <2>3. recordByType(X, t, r) = X
    BY <1>2 DEF recordByType
  <2> QED
    BY <2>1, <2>2, <2>3
<1> QED
  BY <1>1, <1>2

\* Record leaves the latest result's series and those of other keys and families.
LEMMA RecordedIs ==
    ASSUME NEW S, NEW t, NEW r, Plain(S), KnownSubs(S), ResultOf(t, r)
    PROVE  /\ Recorded(S, t, r) = Refreshed(S, t, r, Families(t), Emitted(t, r))
           /\ \A e \in Emitted(t, r) : e[1] \in Families(t)
<1> DEFINE X == recordPhases(recordProxyConnect(recordCommon(S, t, r), t, r), t, r)
<1>1. Refreshes(X, S, t, r, FirstFamilies(t), FirstEmitted(t, r))
  BY RefreshesFirst
<1> HIDE DEF X
<1>2. t.type \in ProbeTypes
  BY DEF ResultOf
<1>3. Refreshes(recordByType(X, t, r), S, t, r, Families(t), Emitted(t, r))
  BY <1>1, <1>2, RefreshesHTTP, RefreshesICMP, RefreshesMTUType, RefreshesDNS, RefreshesBody,
     RefreshesOther DEF ProbeTypes
<1> QED
  BY <1>3 DEF Refreshes, Recorded, X

----------------------------------------------------------------------------
(* What is exported *)

ConfigOf(t, f, v) == [fam |-> f, key |-> buildLabels(t), sub |-> NoLabel, val |-> v]

ConfigFamilies == {"timeout", "interval", "overlap"}

\* Series s is one of a target with latest result r and n skipped ticks.
Belongs(s, t, r, n) ==
    \/ s = ConfigOf(t, "timeout", ConfigVal)
    \/ s = ConfigOf(t, "interval", ConfigVal)
    \/ s = ConfigOf(t, "overlap", Count(n))
    \/ r # None /\ \E e \in Emitted(t, r) : s = Series(t, r, e)
    \/ t.proxy # None /\ s = proxyInfo(t)

\* S holds exactly the series of the targets A.
Exact(S, A, L, K) == \A s : s \in S <=> \E t \in A : Belongs(s, t, L[t], K[t])

\* Result families are no configuration families, and DeleteTarget knows them all.
LEMMA FamilyNames ==
    ASSUME NEW t
    PROVE  /\ Families(t) \intersect ConfigFamilies = {}
           /\ "proxyInfo" \notin Families(t)
           /\ Families(t) \subseteq deletedFamilies
<1>1. Families(t) \subseteq {"success", "duration", "timedOut", "phase", "connectStatus",
        "httpStatus", "truncated", "bodyMatch", "certExpiry", "chain", "packetLoss", "stddevRTT",
        "avgRTT", "mtuState", "mtuBytes", "dnsTime", "dnsMatch"}
  BY DEF Families, Opt
<1> QED
  BY <1>1 DEF ConfigFamilies, deletedFamilies

\* What a result emits is of the families of its target's type.
LEMMA EmittedPairs ==
    ASSUME NEW t, NEW r, ResultOf(t, r), NEW e \in Emitted(t, r)
    PROVE  /\ e = <<e[1], e[2]>>
           /\ e[1] \notin Labelled => e[2] = NoLabel
           /\ e[1] = "phase" => e[2] \in r.phases
           /\ e[1] \in Families(t)
<1>1. /\ e = <<e[1], e[2]>>
      /\ e[1] \notin Labelled => e[2] = NoLabel
      /\ e[1] = "phase" => e[2] \in r.phases
  BY DEF Emitted, Labelled
<1>2. e[1] \in Families(t)
  <2>1. Plain({}) /\ KnownSubs({})
    BY DEF Plain, KnownSubs
  <2> QED
    BY <2>1, RecordedIs
<1> QED
  BY <1>1, <1>2

\* How a series shows to which target and family it belongs.
LEMMA BelongsShape ==
    ASSUME NEW s, NEW t, NEW r, NEW n, r # None => ResultOf(t, r), Belongs(s, t, r, n),
           t.labels # NoLabel
    PROVE  /\ s.key[1] = t.name
           /\ s.fam = "proxyInfo" => t.proxy # None /\ s = proxyInfo(t)
           /\ s.fam # "proxyInfo" => s.key = buildLabels(t)
           /\ s.fam \notin Labelled => s.sub = NoLabel
           /\ s.fam = "phase" => s.sub \in AllPhases
           /\ s.fam \notin ConfigFamilies \union {"proxyInfo"} =>
                r # None /\ s.fam \in Families(t) /\ \E e \in Emitted(t, r) : s = Series(t, r, e)
           /\ s.fam \in ConfigFamilies => s = ConfigOf(t, s.fam, IF s.fam = "overlap" THEN Count(n) ELSE ConfigVal)
           /\ s.fam \in ConfigFamilies \union Families(t) \union {"proxyInfo"}
<1>1. CASE s.fam \in ConfigFamilies /\ \E f \in ConfigFamilies : \E v : s = ConfigOf(t, f, v)
  <2>1. s = ConfigOf(t, s.fam, IF s.fam = "overlap" THEN Count(n) ELSE ConfigVal)
    <3>1. \A e \in Emitted(t, r) : r # None => Series(t, r, e).fam \notin ConfigFamilies
      BY EmittedPairs, FamilyNames DEF Series
    <3> QED
      BY <1>1, <3>1 DEF Belongs, ConfigOf, proxyInfo, ConfigFamilies
  <2>2. s.key = buildLabels(t) /\ s.key[1] = t.name /\ s.sub = NoLabel
    BY <2>1 DEF ConfigOf, buildLabels
  <2>3. s.fam # "proxyInfo" /\ s.fam # "phase"
    BY <1>1 DEF ConfigFamilies
  <2> QED
    BY <1>1, <2>1, <2>2, <2>3
<1>2. CASE r # None /\ \E e \in Emitted(t, r) : s = Series(t, r, e)
  <2>1. PICK e \in Emitted(t, r) : s = Series(t, r, e)
    BY <1>2
  <2>2. /\ e[1] \notin Labelled => e[2] = NoLabel
        /\ e[1] = "phase" => e[2] \in r.phases
        /\ e[1] \in Families(t)
    BY <1>2, EmittedPairs
  <2>3. s.fam = e[1] /\ s.sub = e[2] /\ s.key = buildLabels(t) /\ s.key[1] = t.name
    BY <2>1 DEF Series, buildLabels
  <2>4. s.fam \notin ConfigFamilies /\ s.fam # "proxyInfo"
    BY <2>2, <2>3, FamilyNames
  <2>5. r.phases \subseteq AllPhases
    BY <1>2 DEF ResultOf
  <2> QED
    BY <1>2, <2>2, <2>3, <2>4, <2>5
<1>3. CASE t.proxy # None /\ s = proxyInfo(t)
  <2>1. s.fam = "proxyInfo" /\ s.key[1] = t.name
    BY <1>3 DEF proxyInfo
  <2>2. "proxyInfo" \in Labelled /\ "proxyInfo" \notin ConfigFamilies
    BY DEF Labelled, ConfigFamilies
  <2> QED
    BY <1>3, <2>1, <2>2
<1>4. \A f \in ConfigFamilies : \A v : ConfigOf(t, f, v).fam \in ConfigFamilies
  BY DEF ConfigOf
<1> QED
  BY <1>1, <1>2, <1>3, <1>4 DEF Belongs, ConfigFamilies

\* The state of the exporter: targets with different names, results of their type.
Registered(A, L) ==
    /\ A \subseteq Targets
    /\ \A t, u \in A : t.name = u.name => t = u
    /\ \A t \in A : L[t] = None \/ L[t] \in Results(t.type)

\* The latest result of a registered target is one of its type.
LEMMA RegisteredResults ==
    ASSUME NEW A, NEW L, Registered(A, L), NEW t \in A
    PROVE  t.labels # NoLabel /\ (L[t] # None => ResultOf(t, L[t]))
BY ResultTypes, TargetsAssumption DEF Registered

\* Exact vectors have the labels their families have.
LEMMA ExactShape ==
    ASSUME NEW S, NEW A, NEW L, NEW K, Registered(A, L), Exact(S, A, L, K)
    PROVE  Plain(S) /\ KnownSubs(S)
<1> SUFFICES ASSUME NEW s \in S
             PROVE  (s.fam \notin Labelled => s.sub = NoLabel) /\ (s.fam = "phase" => s.sub \in AllPhases)
  BY DEF Plain, KnownSubs
<1>1. PICK t \in A : Belongs(s, t, L[t], K[t])
  BY DEF Exact
<1> QED
  BY <1>1, RegisteredResults, BelongsShape

\* A series outside the result families does not depend on the result.
LEMMA BelongsConfig ==
    ASSUME NEW s, NEW t, NEW n, NEW r, NEW q, Belongs(s, t, r, n),
           r # None => ResultOf(t, r), t.labels # NoLabel, s.fam \notin Families(t)
    PROVE  Belongs(s, t, q, n)
<1>1. ~(r # None /\ \E e \in Emitted(t, r) : s = Series(t, r, e))
  BY EmittedPairs DEF Series
<1> QED
  BY <1>1 DEF Belongs

\* Record keeps the exposition exact.
LEMMA ExactRecord ==
    ASSUME NEW S, NEW A, NEW L, NEW K, Registered(A, L), Exact(S, A, L, K),
           NEW t \in A, NEW r \in Results(t.type),
           NEW M, M[t] = r, \A u \in A : u # t => M[u] = L[u]
    PROVE  Registered(A, M) /\ Exact(Recorded(S, t, r), A, M, K)
<1>1. Registered(A, M)
  BY DEF Registered
<1>2. t \in Targets
  BY DEF Registered
<1>3. ResultOf(t, r) /\ r # None /\ t.labels # NoLabel
  BY <1>2, ResultTypes
<1>4. Recorded(S, t, r) = Refreshed(S, t, r, Families(t), Emitted(t, r))
  BY <1>3, ExactShape, RecordedIs
<1>5. ASSUME NEW s PROVE s \in Recorded(S, t, r) <=>
          \/ s \in S /\ ~(s.key = buildLabels(t) /\ s.fam \in Families(t))
          \/ \E e \in Emitted(t, r) : s = Series(t, r, e)
  BY <1>4 DEF Refreshed
<1>6. ASSUME NEW s \in S, ~(s.key = buildLabels(t) /\ s.fam \in Families(t))
      PROVE  \E u \in A : Belongs(s, u, M[u], K[u])
  <2>1. PICK u \in A : Belongs(s, u, L[u], K[u])
    BY DEF Exact
  <2>2. u.labels # NoLabel /\ (L[u] # None => ResultOf(u, L[u]))
    BY RegisteredResults
  <2>3. CASE u # t
    BY <2>1, <2>3
  <2>4. CASE u = t
    <3>1. s.fam \notin Families(t)
      BY <1>6, <2>1, <2>2, <2>4, BelongsShape, FamilyNames
    <3> QED
      BY <2>1, <2>2, <2>4, <3>1, BelongsConfig
  <2> QED
    BY <2>3, <2>4
<1>7. ASSUME NEW s, NEW u \in A, Belongs(s, u, M[u], K[u])
      PROVE  \/ s \in S /\ ~(s.key = buildLabels(t) /\ s.fam \in Families(t))
             \/ \E e \in Emitted(t, r) : s = Series(t, r, e)
  <2>1. u.labels # NoLabel /\ (M[u] # None => ResultOf(u, M[u]))
    BY <1>1, RegisteredResults
  <2>2. CASE u # t
    <3>1. s \in S
      BY <1>7, <2>2 DEF Exact
    <3>2. s.key[1] = u.name
      BY <1>7, <2>1, BelongsShape
    <3>3. buildLabels(t)[1] = t.name /\ u.name # t.name
      BY <2>2 DEF buildLabels, Registered
    <3> QED
      BY <3>1, <3>2, <3>3
  <2>3. CASE u = t
    <3>1. CASE s.fam \in Families(t)
      <4>1. s.fam \notin ConfigFamilies \union {"proxyInfo"}
        BY <3>1, FamilyNames
      <4> QED
        BY <1>7, <2>1, <2>3, <4>1, BelongsShape
    <3>2. CASE s.fam \notin Families(t)
      <4>1. Belongs(s, t, L[t], K[t])
        BY <1>7, <2>1, <2>3, <3>2, BelongsConfig
      <4> QED
        BY <3>2, <4>1 DEF Exact
    <3> QED
      BY <3>1, <3>2
  <2> QED
    BY <2>2, <2>3
<1>8. ASSUME NEW e \in Emitted(t, r) PROVE Belongs(Series(t, r, e), t, M[t], K[t])
  BY <1>3 DEF Belongs
<1> QED
  BY <1>1, <1>5, <1>6, <1>7, <1>8 DEF Exact

\* EnsureTarget and DeleteTarget of Metrics, as functions of the series.
EnsuredSeries(S, t) ==
    ensureCounter(With(With(S, "timeout", t, NoLabel, ConfigVal), "interval", t, NoLabel, ConfigVal), t)
        \union (IF t.proxy # None THEN {proxyInfo(t)} ELSE {})
DeletedSeries(S, t) ==
    deleteTargetProxyInfo({s \in S : ~(s.fam \in deletedFamilies /\ s.key = buildLabels(t))}, t)

\* What EnsureTarget adds.
StartSeries(t) ==
    {ConfigOf(t, "timeout", ConfigVal), ConfigOf(t, "interval", ConfigVal),
     ConfigOf(t, "overlap", Count(0))} \union (IF t.proxy # None THEN {proxyInfo(t)} ELSE {})

\* Before it is ensured a target has no series.
LEMMA NoSeriesYet ==
    ASSUME NEW S, NEW A, NEW L, NEW K, Registered(A, L), Exact(S, A, L, K),
           NEW t, \A u \in A : u.name # t.name
    PROVE  \A s \in S : s.key[1] # t.name
<1> SUFFICES ASSUME NEW s \in S PROVE s.key[1] # t.name
  OBVIOUS
<1>1. PICK u \in A : Belongs(s, u, L[u], K[u])
  BY DEF Exact
<1> QED
  BY <1>1, RegisteredResults, BelongsShape

\* EnsureTarget adds its series to vectors without series of the target.
LEMMA EnsuredIs ==
    ASSUME NEW S, NEW t, \A s \in S : s.key # buildLabels(t)
    PROVE  EnsuredSeries(S, t) = S \union StartSeries(t)
<1> DEFINE a == ConfigOf(t, "timeout", ConfigVal)
           b == ConfigOf(t, "interval", ConfigVal)
           c == ConfigOf(t, "overlap", Count(0))
           X == With(S, "timeout", t, NoLabel, ConfigVal)
           Y == With(X, "interval", t, NoLabel, ConfigVal)
<1>1. X = S \union {a}
  BY DEF With, ConfigOf
<1>2. a.fam = "timeout" /\ b.fam = "interval"
  BY DEF ConfigOf
<1>3. Y = {s \in X : ~(s.fam = "interval" /\ s.key = buildLabels(t) /\ s.sub = NoLabel)} \union {b}
  BY DEF With, ConfigOf
<1> HIDE DEF a, b, X, Y
<1>4. Y = S \union {a, b}
  BY <1>1, <1>2, <1>3
<1>5. \A s \in Y : ~(s.fam = "overlap" /\ s.key = buildLabels(t))
  BY <1>2, <1>4
<1>6. ensureCounter(Y, t) = Y \union {c}
  BY <1>5 DEF ensureCounter, With, ConfigOf
<1> QED
  BY <1>4, <1>6 DEF EnsuredSeries, StartSeries, X, Y, a, b

\* EnsureTarget keeps the exposition exact.
LEMMA ExactEnsure ==
    ASSUME NEW S, NEW A, NEW L, NEW K, Registered(A, L), Exact(S, A, L, K),
           NEW t \in Targets, \A u \in A : u.name # t.name,
           NEW M, M[t] = None, \A u \in A : M[u] = L[u],
           NEW N, N[t] = 0, \A u \in A : N[u] = K[u]
    PROVE  /\ Registered(A \union {t}, M)
           /\ EnsuredSeries(S, t) = S \union StartSeries(t)
           /\ Exact(EnsuredSeries(S, t), A \union {t}, M, N)
<1>1. Registered(A \union {t}, M)
  BY DEF Registered
<1>2. \A s \in S : s.key # buildLabels(t)
  BY NoSeriesYet DEF buildLabels
<1>3. EnsuredSeries(S, t) = S \union StartSeries(t)
  BY <1>2, EnsuredIs
<1>4. \A s : s \in StartSeries(t) <=> Belongs(s, t, None, 0)
  BY DEF StartSeries, Belongs
<1>5. \A u \in A : u # t
  OBVIOUS
<1>6. \A s : (\E u \in A \union {t} : Belongs(s, u, M[u], N[u])) <=>
             (\E u \in A : Belongs(s, u, L[u], K[u])) \/ Belongs(s, t, None, 0)
  BY <1>5
<1> QED
  BY <1>1, <1>3, <1>4, <1>6 DEF Exact

Without(S, t) == {s \in S : s.key[1] # t.name}

\* DeleteTarget keeps the exposition exact: what it removes is all the series
\* of the target's name and no other.
LEMMA ExactDelete ==
    ASSUME NEW S, NEW A, NEW L, NEW K, Registered(A, L), Exact(S, A, L, K),
           NEW t \in A, NEW M, \A u \in A \ {t} : M[u] = L[u],
           NEW N, \A u \in A \ {t} : N[u] = K[u]
    PROVE  /\ Registered(A \ {t}, M)
           /\ Exact(Without(S, t), A \ {t}, M, N)
           /\ DeletedSeries(S, t) = Without(S, t)
<1>1. Registered(A \ {t}, M)
  BY DEF Registered
<1>2. \A s, u : u \in A /\ Belongs(s, u, L[u], K[u]) => s.key[1] = u.name
  BY RegisteredResults, BelongsShape
<1>3. \A u \in A \ {t} : u.name # t.name
  BY DEF Registered
<1>4. Exact(Without(S, t), A \ {t}, M, N)
  BY <1>2, <1>3 DEF Exact, Without
<1>5. ASSUME NEW s \in S
      PROVE  s \in DeletedSeries(S, t) <=> s.key[1] # t.name
  <2>1. PICK u \in A : Belongs(s, u, L[u], K[u])
    BY DEF Exact
  <2>2. u.labels # NoLabel /\ (L[u] # None => ResultOf(u, L[u]))
    BY RegisteredResults
  <2>3. CASE u # t
    <3>1. s.key[1] # t.name
      BY <1>2, <1>3, <2>1, <2>3
    <3>2. s.key # buildLabels(t) /\ s.key # <<t.name, NoLabel>> /\ s # proxyInfo(t)
      BY <3>1 DEF buildLabels, proxyInfo
    <3> QED
      BY <3>1, <3>2 DEF DeletedSeries, deleteTargetProxyInfo
  <2>4. CASE u = t
    <3>1. s.key[1] = t.name
      BY <1>2, <2>1, <2>4
    <3>2. CASE s.fam = "proxyInfo"
      <4>1. t.proxy # None /\ s = proxyInfo(t)
        BY <2>1, <2>2, <2>4, <3>2, BelongsShape
      <4> QED
        BY <3>1, <4>1 DEF DeletedSeries, deleteTargetProxyInfo
    <3>3. CASE s.fam # "proxyInfo"
      <4>1. s.key = buildLabels(t) /\ s.fam \in ConfigFamilies \union Families(t) \union {"proxyInfo"}
        BY <2>1, <2>2, <2>4, <3>3, BelongsShape
      <4>2. s.fam \in deletedFamilies
        BY <3>3, <4>1, FamilyNames DEF ConfigFamilies, deletedFamilies
      <4> QED
        BY <3>1, <4>1, <4>2 DEF DeletedSeries, deleteTargetProxyInfo
    <3> QED
      BY <3>2, <3>3
  <2> QED
    BY <2>3, <2>4
<1>6. DeletedSeries(S, t) \subseteq S
  BY DEF DeletedSeries, deleteTargetProxyInfo
<1> QED
  BY <1>1, <1>4, <1>5, <1>6 DEF Without

\* IncrSkippedOverlap keeps the exposition exact.
LEMMA ExactOverlap ==
    ASSUME NEW S, NEW A, NEW L, NEW K, Registered(A, L), Exact(S, A, L, K),
           NEW t \in A, NEW N, N[t] = K[t] + 1, \A u \in A : u # t => N[u] = K[u]
    PROVE  Exact(With(S, "overlap", t, NoLabel, Count(K[t] + 1)), A, L, N)
<1> DEFINE W == With(S, "overlap", t, NoLabel, Count(K[t] + 1))
           c == ConfigOf(t, "overlap", Count(K[t] + 1))
<1>1. \A s : s \in W <=> \/ s \in S /\ ~(s.fam = "overlap" /\ s.key = buildLabels(t) /\ s.sub = NoLabel)
                         \/ s = c
  BY DEF With, ConfigOf
<1>2. Belongs(c, t, L[t], N[t])
  BY DEF Belongs
<1> HIDE DEF W, c
<1>3. ASSUME NEW s \in S, ~(s.fam = "overlap" /\ s.key = buildLabels(t) /\ s.sub = NoLabel)
      PROVE  \E u \in A : Belongs(s, u, L[u], N[u])
  <2>1. PICK u \in A : Belongs(s, u, L[u], K[u])
    BY DEF Exact
  <2>2. CASE u = t
    <3>1. s # ConfigOf(t, "overlap", Count(K[t]))
      BY <1>3 DEF ConfigOf
    <3> QED
      BY <2>1, <2>2, <3>1 DEF Belongs
  <2> QED
    BY <2>1, <2>2
<1>4. ASSUME NEW s, NEW u \in A, Belongs(s, u, L[u], N[u]) PROVE s \in W
  <2>1. u.labels # NoLabel /\ (L[u] # None => ResultOf(u, L[u]))
    BY RegisteredResults
  <2>2. CASE u # t
    <3>1. s \in S
      BY <1>4, <2>2 DEF Exact
    <3>2. s.key[1] = u.name
      BY <1>4, <2>1, BelongsShape
    <3>3. u.name # t.name /\ buildLabels(t)[1] = t.name
      BY <2>2 DEF buildLabels, Registered
    <3> QED
      BY <1>1, <3>1, <3>2, <3>3
  <2>3. CASE u = t
    <3>1. CASE s.fam = "overlap"
      <4>1. s = ConfigOf(t, "overlap", Count(N[t]))
        BY <1>4, <2>1, <2>3, <3>1, BelongsShape DEF ConfigFamilies
      <4> QED
        BY <1>1, <4>1 DEF c
    <3>2. CASE s.fam # "overlap"
      <4>1. s # ConfigOf(t, "overlap", Count(N[t]))
        BY <3>2 DEF ConfigOf
      <4>2. Belongs(s, t, L[t], K[t])
        BY <1>4, <2>3, <4>1 DEF Belongs
      <4> QED
        BY <1>1, <3>2, <4>2 DEF Exact
    <3> QED
      BY <3>1, <3>2
  <2> QED
    BY <2>2, <2>3
<1> QED
  BY <1>1, <1>2, <1>3, <1>4 DEF Exact, W

----------------------------------------------------------------------------
(* The calls under way *)

\* What a call touches and leaves, after its first operation.
LEMMA HeadTail ==
    ASSUME NEW q, IsSeq(q), q # <<>>
    PROVE  /\ IsSeq(Tail(q)) /\ Elems(q) = {Head(q)} \union Elems(Tail(q))
           /\ \A s : TouchedBy(q, s) <=> Touches(Head(q), s) \/ TouchedBy(Tail(q), s)
           /\ \A s : s \in Final(q) <=>
                \/ s \in Final(Tail(q))
                \/ Head(q).op = "set" /\ s = Written(Head(q)) /\ ~TouchedBy(Tail(q), s)
<1> DEFINE o == Head(q)
           r == Tail(q)
<1>1. IsSeq(r)
  BY TailSeq
<1>2. q = <<o>> \o r
  BY DEF IsSeq
<1> HIDE DEF o, r
<1>3. IsSeq(<<o>>) /\ Elems(<<o>>) = {o}
  BY SingleSeq
<1>4. Elems(q) = {o} \union Elems(r)
  BY <1>1, <1>2, <1>3, ConcatSeq
<1>5. \A s : TouchedBy(q, s) <=> Touches(o, s) \/ TouchedBy(r, s)
  BY <1>1, <1>2, <1>3, ConcatTouches, SingleFinal
<1>6. \A s : s \in Final(q) <=> s \in Final(r) \/ (o.op = "set" /\ s = Written(o) /\ ~TouchedBy(r, s))
  BY <1>1, <1>2, <1>3, ConcatFinal, SingleFinal
<1> QED
  BY <1>1, <1>4, <1>5, <1>6 DEF o, r

LEMMA EnsuredElement ==
    ASSUME NEW S, NEW q, NEW s
    PROVE  s \in Ensured(S, q) <=>
             \E o \in Elems(q) : /\ o.op = "ensure" /\ s = Written(o)
                                 /\ \A x \in S : ~(x.fam = o.fam /\ x.key = o.key)
BY DEF Ensured, Elems

LEMMA TouchedElement ==
    ASSUME NEW q, NEW s
    PROVE  TouchedBy(q, s) <=> \E o \in Elems(q) : Touches(o, s)
BY DEF TouchedBy, Elems

LEMMA FinalOfElement ==
    ASSUME NEW q, IsSeq(q), NEW s \in Final(q)
    PROVE  \E o \in Elems(q) : o.op = "set" /\ s = Written(o)
BY FinalElement, SeqDomain

LEMMA WrittenFields ==
    ASSUME NEW o
    PROVE  /\ Written(o).fam = o.fam /\ Written(o).key = o.key
           /\ Written(o).sub = o.sub /\ Written(o).val = o.val
BY DEF Written

\* All operations of q are on series of the target named n.
On(q, n) == IsSeq(q) /\ \A o \in Elems(q) : o.key[1] = n

\* A call on one target touches and leaves series of that target only.
LEMMA OnSeries ==
    ASSUME NEW q, NEW n, On(q, n)
    PROVE  /\ \A s : TouchedBy(q, s) => s.key[1] = n
           /\ \A s \in Final(q) : s.key[1] = n
           /\ \A S : \A s \in Ensured(S, q) : s.key[1] = n
<1>1. \A s : TouchedBy(q, s) => s.key[1] = n
  BY TouchedElement DEF On, Touches
<1>2. \A s \in Final(q) : s.key[1] = n
  BY FinalOfElement, WrittenFields DEF On
<1>3. \A S : \A s \in Ensured(S, q) : s.key[1] = n
  BY EnsuredElement, WrittenFields DEF On
<1> QED
  BY <1>1, <1>2, <1>3

\* Completed, as a function of the vectors and the calls under way.
Done(S, main, rec) ==
    {s \in S : ~TouchedBy(main, s) /\ \A t \in Targets : ~TouchedBy(rec[t], s)}
        \union Ensured(S, main) \union Final(main) \union UNION {Final(rec[t]) : t \in Targets}

\* Completed is a function of the vectors and of what is left of the calls.
LEMMA CompletedIs == Completed = Done(series, mainOps, recOps)
<1> DEFINE Q == {mainOps} \union {recOps[t] : t \in Targets}
<1>1. {s \in series : \A q \in Q : ~TouchedBy(q, s)}
        = {s \in series : ~TouchedBy(mainOps, s) /\ \A t \in Targets : ~TouchedBy(recOps[t], s)}
  OBVIOUS
<1>2. UNION {Final(q) : q \in Q} = Final(mainOps) \union UNION {Final(recOps[t]) : t \in Targets}
  OBVIOUS
<1> QED
  BY <1>1, <1>2 DEF Completed, Done

LEMMA DoneElement ==
    ASSUME NEW S, NEW main, NEW rec, NEW s
    PROVE  s \in Done(S, main, rec) <=>
             \/ s \in S /\ ~TouchedBy(main, s) /\ \A t \in Targets : ~TouchedBy(rec[t], s)
             \/ s \in Ensured(S, main) \/ s \in Final(main)
             \/ \E t \in Targets : s \in Final(rec[t])
BY DEF Done

\* The Record calls under way: each on the series of its own target.
Recorders(rec) ==
    /\ rec = [t \in Targets |-> rec[t]]
    /\ \A t \in Targets : On(rec[t], t.name)
    /\ \A t, u \in Targets : rec[t] # <<>> /\ rec[u] # <<>> /\ t.name = u.name => t = u
    /\ \A t \in Targets : \A o \in Elems(rec[t]) :
          o.key = buildLabels(t) /\ o.fam \in Families(t) /\ o.op \in {"set", "delete", "deleteAll"}

\* The main goroutine's call: no operation shares a family with an "ensure".
Main(main, n) ==
    /\ On(main, n)
    /\ \A i \in 1..Len(main) :
          /\ main[i].op \in {"set", "delete", "deleteAll", "ensure"}
          /\ main[i].op = "ensure" => \A j \in 1..Len(main) : j # i => main[j].fam # main[i].fam

\* No Record is under way of the target the main goroutine is at.
Apart(rec, n) == \A t \in Targets : rec[t] # <<>> => t.name # n

\* A Record touches the result families of its own target only.
LEMMA RecordersOn ==
    ASSUME NEW rec, Recorders(rec), NEW t \in Targets
    PROVE  /\ \A s : TouchedBy(rec[t], s) => s.key[1] = t.name /\ rec[t] # <<>> /\ s.fam \in Families(t)
           /\ \A s \in Final(rec[t]) : s.key[1] = t.name /\ rec[t] # <<>> /\ s.fam \in Families(t)
           /\ \A S : Ensured(S, rec[t]) = {}
<1>1. On(rec[t], t.name)
  BY DEF Recorders
<1>2. rec[t] = <<>> => (\A s : ~TouchedBy(rec[t], s)) /\ Final(rec[t]) = {}
  BY EmptyFinal
<1>3. \A s : TouchedBy(rec[t], s) => s.fam \in Families(t)
  BY TouchedElement DEF Recorders, Touches
<1>4. \A s \in Final(rec[t]) : s.fam \in Families(t)
  BY <1>1, FinalOfElement, WrittenFields DEF Recorders, On
<1>5. \A S : Ensured(S, rec[t]) = {}
  BY EnsuredElement DEF Recorders
<1> QED
  BY <1>1, <1>2, <1>3, <1>4, <1>5, OnSeries

\* The vectors after one operation.
LEMMA PerformElement ==
    ASSUME NEW S, NEW o, o.op \in {"set", "delete", "deleteAll", "ensure"}, NEW s
    PROVE  s \in Perform(S, o) <=>
             \/ s \in S /\ ~Touches(o, s)
             \/ o.op = "set" /\ s = Written(o)
             \/ /\ o.op = "ensure" /\ s = Written(o)
                /\ \A x \in S : ~(x.fam = o.fam /\ x.key = o.key)
<1>1. o.op = "ensure" => ~Touches(o, s)
  BY DEF Touches
<1> QED
  BY <1>1 DEF Perform

\* What is left of the Record of t becomes q.
Becomes(more, rec, t, q) ==
    /\ more = [u \in Targets |-> more[u]] /\ more[t] = q
    /\ \A u \in Targets : u # t => more[u] = rec[u]

\* No Record is under way of t, or of one of its name.
Quiet(rec, t) == rec[t] = <<>> /\ Apart(rec, t.name)

\* An operation of a Record under way leaves what will have been exported.
LEMMA DoneRecordStep ==
    ASSUME NEW S, NEW main, NEW rec, NEW n, Recorders(rec), Main(main, n), Apart(rec, n),
           NEW t \in Targets, rec[t] # <<>>,
           NEW rest, Becomes(rest, rec, t, Tail(rec[t]))
    PROVE  /\ Recorders(rest) /\ Apart(rest, n)
           /\ Done(Perform(S, Head(rec[t])), main, rest) = Done(S, main, rec)
<1> DEFINE o == Head(rec[t])
           q == rec[t]
           r == Tail(rec[t])
           T == Perform(S, o)
<1>1. IsSeq(q) /\ q # <<>>
  BY DEF Recorders, On
<1>2. /\ IsSeq(r) /\ Elems(q) = {o} \union Elems(r)
      /\ \A s : TouchedBy(q, s) <=> Touches(o, s) \/ TouchedBy(r, s)
      /\ \A s : s \in Final(q) <=>
           s \in Final(r) \/ (o.op = "set" /\ s = Written(o) /\ ~TouchedBy(r, s))
  BY <1>1, HeadTail
<1>3. rest[t] = r /\ \A u \in Targets : u # t => rest[u] = rec[u]
  BY DEF Becomes
<1>4. rest = [u \in Targets |-> rest[u]]
  BY DEF Becomes
<1>5. Recorders(rest)
  <2>1. \A u \in Targets : Elems(rest[u]) \subseteq Elems(rec[u]) /\ IsSeq(rest[u])
    BY <1>2, <1>3 DEF Recorders, On
  <2>2. \A u \in Targets : rest[u] # <<>> => rec[u] # <<>>
    BY <1>3
  <2> QED
    BY <1>4, <2>1, <2>2 DEF Recorders, On
<1>6. Apart(rest, n)
  BY <1>3 DEF Apart
<1>7. /\ o.op \in {"set", "delete", "deleteAll"} /\ o.key = buildLabels(t)
      /\ o.key[1] = t.name /\ o.fam \in Families(t)
  BY <1>2 DEF Recorders, On
<1> HIDE DEF o, q, r, T
<1>8. \A s : s \in T <=> (s \in S /\ ~Touches(o, s)) \/ (o.op = "set" /\ s = Written(o))
  BY <1>7, PerformElement DEF T
<1>9. Written(o).key[1] = t.name /\ Written(o).key = o.key
  BY <1>7, WrittenFields
<1>10. t.name # n /\ On(main, n)
  BY DEF Apart, Main
<1>11. \A s : s.key[1] = t.name => ~TouchedBy(main, s)
  BY <1>10, OnSeries
<1>12. \A u \in Targets : u # t => \A s : s.key[1] = t.name => ~TouchedBy(rec[u], s)
  <2> SUFFICES ASSUME NEW u \in Targets, u # t, NEW s, s.key[1] = t.name, TouchedBy(rec[u], s)
               PROVE  FALSE
    OBVIOUS
  <2>1. s.key[1] = u.name /\ rec[u] # <<>>
    BY RecordersOn
  <2> QED
    BY <1>1, <2>1 DEF Recorders, q
<1>13. ASSUME NEW s PROVE s \in Ensured(T, main) <=> s \in Ensured(S, main)
  <2>1. ASSUME NEW p \in Elems(main)
        PROVE  (\A x \in T : ~(x.fam = p.fam /\ x.key = p.key))
                 <=> (\A x \in S : ~(x.fam = p.fam /\ x.key = p.key))
    <3>1. p.key # o.key
      BY <1>7, <1>10 DEF On
    <3>2. \A x : x.key = p.key => ~Touches(o, x)
      BY <3>1 DEF Touches
    <3> QED
      BY <1>8, <1>9, <3>1, <3>2
  <2> QED
    BY <2>1, EnsuredElement
<1>14. ASSUME NEW s PROVE s \in Done(T, main, rest) <=> s \in Done(S, main, rec)
  <2> DEFINE othersTouch == \E u \in Targets : u # t /\ TouchedBy(rec[u], s)
             othersLeave == \E u \in Targets : u # t /\ s \in Final(rec[u])
  <2>1. (\A u \in Targets : ~TouchedBy(rest[u], s)) <=> ~othersTouch /\ ~TouchedBy(r, s)
    BY <1>3
  <2>2. (\A u \in Targets : ~TouchedBy(rec[u], s)) <=> ~othersTouch /\ ~TouchedBy(q, s)
    BY DEF q
  <2>3. (\E u \in Targets : s \in Final(rest[u])) <=> othersLeave \/ s \in Final(r)
    BY <1>3
  <2>4. (\E u \in Targets : s \in Final(rec[u])) <=> othersLeave \/ s \in Final(q)
    BY DEF q
  <2>5. s.key[1] = t.name => ~othersTouch
    BY <1>12
  <2> HIDE DEF othersTouch, othersLeave
  <2>6. s \in Done(T, main, rest) <=>
          \/ s \in T /\ ~TouchedBy(main, s) /\ ~othersTouch /\ ~TouchedBy(r, s)
          \/ s \in Ensured(S, main) \/ s \in Final(main) \/ othersLeave \/ s \in Final(r)
    BY <1>13, <2>1, <2>3, DoneElement
  <2>7. s \in Done(S, main, rec) <=>
          \/ s \in S /\ ~TouchedBy(main, s) /\ ~othersTouch /\ ~TouchedBy(q, s)
          \/ s \in Ensured(S, main) \/ s \in Final(main) \/ othersLeave \/ s \in Final(q)
    BY <2>2, <2>4, DoneElement
  <2> QED
    BY <1>2, <1>8, <1>9, <1>11, <2>5, <2>6, <2>7
<1>15. Done(T, main, rest) = Done(S, main, rec)
  BY <1>14
<1> QED
  BY <1>5, <1>6, <1>15 DEF T, o

\* So does an operation of the main goroutine.
LEMMA DoneMainStep ==
    ASSUME NEW S, NEW main, NEW rec, NEW n, Recorders(rec), Main(main, n), Apart(rec, n),
           main # <<>>
    PROVE  /\ Main(Tail(main), n)
           /\ Done(Perform(S, Head(main)), Tail(main), rec) = Done(S, main, rec)
<1> DEFINE o == Head(main)
           r == Tail(main)
           T == Perform(S, o)
<1>1. IsSeq(main) /\ On(main, n)
  BY DEF Main, On
<1>2. /\ IsSeq(r) /\ Elems(main) = {o} \union Elems(r)
      /\ \A s : TouchedBy(main, s) <=> Touches(o, s) \/ TouchedBy(r, s)
      /\ \A s : s \in Final(main) <=>
           s \in Final(r) \/ (o.op = "set" /\ s = Written(o) /\ ~TouchedBy(r, s))
  BY <1>1, HeadTail
<1>3. /\ Len(main) = Len(r) + 1 /\ Len(r) \in Nat /\ o = main[1] /\ DOMAIN r = 1..Len(r)
      /\ \A i \in 1..Len(r) : r[i] = main[i + 1]
  BY <1>1, <1>2, TailSeq, SeqDomain
<1> HIDE DEF o, r
<1>4. \A i \in 1..Len(r) : i + 1 \in 1..Len(main) /\ i + 1 # 1 /\ 1 \in 1..Len(main)
  BY <1>3
<1>5. Main(r, n)
  <2>1. On(r, n)
    BY <1>1, <1>2 DEF On
  <2>2. ASSUME NEW i \in 1..Len(r)
        PROVE  /\ r[i].op \in {"set", "delete", "deleteAll", "ensure"}
               /\ r[i].op = "ensure" => \A j \in 1..Len(r) : j # i => r[j].fam # r[i].fam
    <3>1. r[i] = main[i + 1] /\ i + 1 \in 1..Len(main)
      BY <1>3, <1>4
    <3>2. ASSUME NEW j \in 1..Len(r), j # i, main[i + 1].op = "ensure" PROVE r[j].fam # r[i].fam
      <4>1. r[j] = main[j + 1] /\ j + 1 \in 1..Len(main) /\ j + 1 # i + 1
        BY <1>3, <1>4, <3>2
      <4> QED
        BY <3>1, <3>2, <4>1 DEF Main
    <3> QED
      BY <3>1, <3>2 DEF Main
  <2> QED
    BY <2>1, <2>2 DEF Main
<1>6. o.op \in {"set", "delete", "deleteAll", "ensure"} /\ o.key[1] = n
  <2>1. 1 \in 1..Len(main)
    BY <1>3
  <2> QED
    BY <1>1, <1>2, <1>3, <2>1 DEF Main, On
<1>7. \A p \in Elems(r) : (p.op = "ensure" \/ o.op = "ensure") => p.fam # o.fam
  <2> SUFFICES ASSUME NEW i \in 1..Len(r), r[i].op = "ensure" \/ o.op = "ensure"
               PROVE  r[i].fam # o.fam
    BY <1>3 DEF Elems
  <2> QED
    BY <1>3, <1>4 DEF Main
<1>8. \A s : s \in T <=> \/ s \in S /\ ~Touches(o, s)
                         \/ o.op = "set" /\ s = Written(o)
                         \/ /\ o.op = "ensure" /\ s = Written(o)
                            /\ \A x \in S : ~(x.fam = o.fam /\ x.key = o.key)
  BY <1>6, PerformElement
<1> HIDE DEF T
<1>9. Written(o).key[1] = n /\ Written(o).fam = o.fam
  BY <1>6, WrittenFields
<1>10. \A s : s.key[1] = n => \A t \in Targets : ~TouchedBy(rec[t], s)
  BY RecordersOn DEF Apart
<1>11. ASSUME NEW s PROVE s \in Ensured(T, r) <=> s \in Ensured(S, r)
  <2>1. ASSUME NEW p \in Elems(r), p.op = "ensure"
        PROVE  (\A x \in T : ~(x.fam = p.fam /\ x.key = p.key))
                 <=> (\A x \in S : ~(x.fam = p.fam /\ x.key = p.key))
    <3>1. p.fam # o.fam
      BY <1>7, <2>1
    <3>2. \A x : x.fam = p.fam => ~Touches(o, x)
      BY <3>1 DEF Touches
    <3> QED
      BY <1>8, <1>9, <3>1, <3>2
  <2> QED
    BY <2>1, EnsuredElement
<1>12. ASSUME NEW s
       PROVE  s \in Ensured(S, main) <=>
                \/ s \in Ensured(S, r)
                \/ /\ o.op = "ensure" /\ s = Written(o)
                   /\ \A x \in S : ~(x.fam = o.fam /\ x.key = o.key)
  BY <1>2, EnsuredElement
<1>13. o.op = "ensure" => ~TouchedBy(r, Written(o)) /\ \A s : ~Touches(o, s)
  <2>1. ASSUME o.op = "ensure", NEW p \in Elems(r), Touches(p, Written(o)) PROVE FALSE
    BY <1>7, <1>9, <2>1 DEF Touches
  <2>2. o.op = "ensure" => \A s : ~Touches(o, s)
    BY DEF Touches
  <2> QED
    BY <2>1, <2>2, TouchedElement
<1>14. ASSUME NEW s PROVE s \in Done(T, r, rec) <=> s \in Done(S, main, rec)
  <2> DEFINE othersTouch == \E u \in Targets : TouchedBy(rec[u], s)
             othersLeave == \E u \in Targets : s \in Final(rec[u])
  <2>1. (\A u \in Targets : ~TouchedBy(rec[u], s)) <=> ~othersTouch
    OBVIOUS
  <2>5. s.key[1] = n => ~othersTouch
    BY <1>10
  <2>6. s \in Done(T, r, rec) <=>
          \/ s \in T /\ ~TouchedBy(r, s) /\ ~othersTouch
          \/ s \in Ensured(S, r) \/ s \in Final(r) \/ othersLeave
    BY <1>11, <2>1, DoneElement
  <2>7. s \in Done(S, main, rec) <=>
          \/ s \in S /\ ~TouchedBy(main, s) /\ ~othersTouch
          \/ s \in Ensured(S, main) \/ s \in Final(main) \/ othersLeave
    BY <2>1, DoneElement
  <2> HIDE DEF othersTouch, othersLeave
  <2>8. s = Written(o) => s.key[1] = n
    BY <1>9
  <2> QED
    BY <1>2, <1>8, <1>12, <1>13, <2>5, <2>6, <2>7, <2>8
<1>15. Done(T, r, rec) = Done(S, main, rec)
  BY <1>14
<1> QED
  BY <1>5, <1>15 DEF T, o, r

\* A call that begins, of the main goroutine or of a target's goroutine, will
\* have had its effect after those under way.
LEMMA DoneMainBegin ==
    ASSUME NEW S, NEW q, NEW rec, NEW n, Recorders(rec), Apart(rec, n), On(q, n), NEW s
    PROVE  s \in Done(S, q, rec) <=>
             \/ s \in Done(S, <<>>, rec) /\ ~TouchedBy(q, s)
             \/ s \in Ensured(S, q) \/ s \in Final(q)
<1>1. ~TouchedBy(<<>>, s) /\ Final(<<>>) = {} /\ s \notin Ensured(S, <<>>)
  BY EmptyFinal DEF Ensured
<1>2. \A t \in Targets : s \in Final(rec[t]) => ~TouchedBy(q, s)
  BY RecordersOn, OnSeries DEF Apart
<1> QED
  BY <1>1, <1>2, DoneElement

\* A Record that begins will have its effect on what was to be exported.
LEMMA DoneRecordBegin ==
    ASSUME NEW S, NEW main, NEW rec, NEW n, Recorders(rec), Main(main, n), Apart(rec, n),
           NEW t \in Targets, Quiet(rec, t), t.name # n,
           NEW q, On(q, t.name),
           \A o \in Elems(q) :
              o.key = buildLabels(t) /\ o.fam \in Families(t) /\ o.op \in {"set", "delete", "deleteAll"},
           NEW more, Becomes(more, rec, t, q)
    PROVE  /\ Recorders(more) /\ Apart(more, n)
           /\ Done(S, main, more) = After(Done(S, main, rec), q)
<1>1. more[t] = q /\ (\A u \in Targets : u # t => more[u] = rec[u]) /\ more = [u \in Targets |-> more[u]]
  BY DEF Becomes
<1>2. Recorders(more)
  BY <1>1 DEF Recorders, Quiet, Apart
<1>3. Apart(more, n)
  BY <1>1 DEF Apart
<1>4. ASSUME NEW s PROVE s \in Done(S, main, more) <=> s \in After(Done(S, main, rec), q)
  <2> DEFINE othersTouch == \E u \in Targets : u # t /\ TouchedBy(rec[u], s)
             othersLeave == \E u \in Targets : u # t /\ s \in Final(rec[u])
  <2>0. ~TouchedBy(rec[t], s) /\ Final(rec[t]) = {}
    BY EmptyFinal DEF Quiet
  <2>1. (\A u \in Targets : ~TouchedBy(more[u], s)) <=> ~othersTouch /\ ~TouchedBy(q, s)
    BY <1>1
  <2>2. (\A u \in Targets : ~TouchedBy(rec[u], s)) <=> ~othersTouch
    BY <2>0
  <2>3. (\E u \in Targets : s \in Final(more[u])) <=> othersLeave \/ s \in Final(q)
    BY <1>1
  <2>4. (\E u \in Targets : s \in Final(rec[u])) <=> othersLeave
    BY <2>0
  <2>5. othersLeave => s.key[1] # t.name
    BY RecordersOn DEF Quiet, Apart
  <2> HIDE DEF othersTouch, othersLeave
  <2>6. s \in Ensured(S, main) \/ s \in Final(main) => s.key[1] # t.name
    BY OnSeries DEF Main
  <2>7. TouchedBy(q, s) => s.key[1] = t.name
    BY OnSeries
  <2>8. s \in Done(S, main, more) <=>
          \/ s \in S /\ ~TouchedBy(main, s) /\ ~othersTouch /\ ~TouchedBy(q, s)
          \/ s \in Ensured(S, main) \/ s \in Final(main) \/ othersLeave \/ s \in Final(q)
    BY <2>1, <2>3, DoneElement
  <2>9. s \in Done(S, main, rec) <=>
          \/ s \in S /\ ~TouchedBy(main, s) /\ ~othersTouch
          \/ s \in Ensured(S, main) \/ s \in Final(main) \/ othersLeave
    BY <2>2, <2>4, DoneElement
  <2>10. s \in After(Done(S, main, rec), q) <=> (s \in Done(S, main, rec) /\ ~TouchedBy(q, s)) \/ s \in Final(q)
    BY DEF After
  <2> QED
    BY <2>5, <2>6, <2>7, <2>8, <2>9, <2>10
<1>5. Done(S, main, more) = After(Done(S, main, rec), q)
  BY <1>4
<1> QED
  BY <1>2, <1>3, <1>5

----------------------------------------------------------------------------
(* The operations of one Record *)

\* Series of family f that the target can have.
Shape(s, t, f) ==
    /\ s.fam = f /\ s.key = buildLabels(t)
    /\ f \notin Labelled => s.sub = NoLabel
    /\ f = "phase" => s.sub \in AllPhases

\* An operation that records r: what it sets r has observed, what it deletes r
\* has not, unless it is of a family that is deleted before it is set.
Records(o, t, r) ==
    /\ o.key = buildLabels(t) /\ o.fam \in Families(t)
    /\ \/ /\ o.op = "set" /\ <<o.fam, o.sub>> \in Emitted(t, r) /\ o.val = ValueOf(r, o.fam)
       \/ /\ o.op \in {"delete", "deleteAll"}
          /\ o.fam \in Cleared \/ <<o.fam, NoLabel>> \notin Emitted(t, r)

\* No series of a family is older than one that is set.
Covered(q, t) ==
    \A k \in 1..Len(q) : q[k].op = "set" =>
        \A s : Shape(s, t, q[k].fam) => \E j \in 1..k : Touches(q[j], s)

Recordings(q, t, r) == IsSeq(q) /\ (\A o \in Elems(q) : Records(o, t, r)) /\ Covered(q, t)

\* Two parts of a Record, the second relying on what the first has cleared.
LEMMA RecordingConcat ==
    ASSUME NEW t, NEW r, NEW a, Recordings(a, t, r), NEW b, IsSeq(b),
           \A o \in Elems(b) : Records(o, t, r),
           \A k \in 1..Len(b) : b[k].op = "set" =>
             \A s : Shape(s, t, b[k].fam) => TouchedBy(a, s) \/ \E j \in 1..k : Touches(b[j], s)
    PROVE  Recordings(a \o b, t, r)
<1> DEFINE c == a \o b
           n == Len(a)
           m == Len(b)
<1>1. /\ IsSeq(c) /\ Elems(c) = Elems(a) \union Elems(b) /\ Len(c) = n + m
      /\ n \in Nat /\ m \in Nat /\ DOMAIN a = 1..n
      /\ \A i \in 1..n : c[i] = a[i]
      /\ \A i \in 1..m : c[n + i] = b[i]
  BY ConcatSeq, SeqDomain DEF Recordings
<1> HIDE DEF c, n, m
<1>2. \A o \in Elems(c) : Records(o, t, r)
  BY <1>1 DEF Recordings
<1>3. Covered(c, t)
  <2> SUFFICES ASSUME NEW k \in 1..(n + m), c[k].op = "set", NEW s, Shape(s, t, c[k].fam)
               PROVE  \E j \in 1..k : Touches(c[j], s)
    BY <1>1 DEF Covered
  <2>1. CASE k \in 1..n
    <3>1. \E j \in 1..k : Touches(a[j], s)
      BY <1>1, <2>1 DEF Recordings, Covered, n
    <3>2. \A j \in 1..k : j \in 1..n
      BY <1>1, <2>1
    <3> QED
      BY <1>1, <3>1, <3>2
  <2>2. CASE k \notin 1..n
    <3>1. PICK i \in 1..m : k = n + i
      BY <1>1, <2>2
    <3>2. TouchedBy(a, s) \/ \E j \in 1..i : Touches(b[j], s)
      BY <1>1, <3>1 DEF m
    <3>3. CASE TouchedBy(a, s)
      <4>1. PICK j \in 1..n : Touches(a[j], s)
        BY <1>1, <3>3 DEF TouchedBy
      <4>2. j \in 1..k
        BY <1>1, <3>1
      <4> QED
        BY <1>1, <4>1, <4>2
    <3>4. CASE \E j \in 1..i : Touches(b[j], s)
      <4>1. PICK j \in 1..i : Touches(b[j], s)
        BY <3>4
      <4>2. j \in 1..m /\ n + j \in 1..k
        BY <1>1, <3>1
      <4> QED
        BY <1>1, <4>1, <4>2
    <3> QED
      BY <3>2, <3>3, <3>4
  <2> QED
    BY <2>1, <2>2
<1> QED
  BY <1>1, <1>2, <1>3 DEF Recordings, c

\* Two parts of a Record that are each complete.
LEMMA RecordingJoin ==
    ASSUME NEW t, NEW r, NEW a, Recordings(a, t, r), NEW b, Recordings(b, t, r)
    PROVE  Recordings(a \o b, t, r)
<1>1. \A k \in 1..Len(b) : b[k].op = "set" =>
        \A s : Shape(s, t, b[k].fam) => TouchedBy(a, s) \/ \E j \in 1..k : Touches(b[j], s)
  BY DEF Recordings, Covered
<1> QED
  BY <1>1, RecordingConcat DEF Recordings

LEMMA RecordingNothing == ASSUME NEW t, NEW r PROVE Recordings(<<>>, t, r)
BY NoOps DEF Recordings, Covered

LEMMA RecordingSingle ==
    ASSUME NEW t, NEW r, NEW o, Records(o, t, r),
           o.op = "set" => \A s : Shape(s, t, o.fam) => Touches(o, s)
    PROVE  Recordings(<<o>>, t, r)
<1>1. IsSeq(<<o>>) /\ Elems(<<o>>) = {o} /\ Len(<<o>>) = 1 /\ <<o>>[1] = o
  BY SingleSeq
<1>2. \A k \in 1..1 : k = 1 /\ 1 \in 1..k
  OBVIOUS
<1> QED
  BY <1>1, <1>2 DEF Recordings, Covered

\* Setting a gauge without labels of its own.
LEMMA RecordingSet ==
    ASSUME NEW t, NEW r, ResultOf(t, r), NEW f, f \notin Labelled, <<f, NoLabel>> \in Emitted(t, r)
    PROVE  Recordings(SetOp(t, f, NoLabel, Val(r)), t, r)
<1> DEFINE o == Op("set", f, buildLabels(t), NoLabel, Val(r))
           e == <<f, NoLabel>>
<1>1. o.op = "set" /\ o.fam = f /\ o.key = buildLabels(t) /\ o.sub = NoLabel /\ o.val = Val(r)
  BY DEF Op
<1>2. Val(r) = ValueOf(r, f)
  BY DEF ValueOf, Labelled
<1>3. f \in Families(t)
  <2>1. e \in Emitted(t, r) /\ e[1] = f
    OBVIOUS
  <2> HIDE DEF e
  <2> QED
    BY <2>1, EmittedPairs
<1> HIDE DEF o
<1>4. Records(o, t, r)
  BY <1>1, <1>2, <1>3 DEF Records
<1>5. \A s : Shape(s, t, o.fam) => Touches(o, s)
  BY <1>1 DEF Shape, Touches
<1> QED
  BY <1>4, <1>5, RecordingSingle DEF SetOp, o

\* Deleting a family that the result did not observe or that is cleared first.
LEMMA RecordingDelete ==
    ASSUME NEW t, NEW r, NEW f \in Families(t),
           f \in Cleared \/ <<f, NoLabel>> \notin Emitted(t, r)
    PROVE  /\ Recordings(DeleteOp(t, f, NoLabel), t, r)
           /\ Recordings(DeletePartialMatchOp(t, f), t, r)
           /\ \A s : Shape(s, t, f) => TouchedBy(DeletePartialMatchOp(t, f), s)
<1> DEFINE o == Op("delete", f, buildLabels(t), NoLabel, None)
           p == Op("deleteAll", f, buildLabels(t), NoLabel, None)
<1>1. /\ o.op = "delete" /\ o.fam = f /\ o.key = buildLabels(t)
      /\ p.op = "deleteAll" /\ p.fam = f /\ p.key = buildLabels(t)
  BY DEF Op
<1> HIDE DEF o, p
<1>2. Records(o, t, r) /\ Records(p, t, r)
  BY <1>1 DEF Records
<1>3. Recordings(<<o>>, t, r) /\ Recordings(<<p>>, t, r)
  BY <1>1, <1>2, RecordingSingle
<1>4. \A s : Shape(s, t, f) => TouchedBy(<<p>>, s)
  BY <1>1, SingleFinal DEF Shape, Touches
<1> QED
  BY <1>3, <1>4 DEF DeleteOp, DeletePartialMatchOp, o, p

\* A conditional gauge.
LEMMA RecordingSetOrDelete ==
    ASSUME NEW t, NEW r, ResultOf(t, r), NEW f \in Families(t), f \notin Labelled,
           NEW b \in BOOLEAN, b <=> <<f, NoLabel>> \in Emitted(t, r)
    PROVE  Recordings(SetOrDeleteOp(t, f, b, Val(r)), t, r)
<1>1. CASE b
  BY <1>1, RecordingSet DEF SetOrDeleteOp
<1>2. CASE ~b
  BY <1>2, RecordingDelete DEF SetOrDeleteOp
<1> QED
  BY <1>1, <1>2

\* Which conditional metrics a result emits.
LEMMA EmittedPlain ==
    ASSUME NEW t, NEW r, ResultOf(t, r)
    PROVE  /\ \A f \in {"success", "duration", "timedOut"} : <<f, NoLabel>> \in Emitted(t, r)
           /\ <<"connectStatus", NoLabel>> \in Emitted(t, r) <=> r.connect /\ t.type \in Tunnelled
           /\ <<"httpStatus", NoLabel>> \in Emitted(t, r) <=> r.http /\ t.type \in {"http", "http_body"}
           /\ <<"truncated", NoLabel>> \in Emitted(t, r) <=> r.trunc /\ t.type = "http"
           /\ <<"bodyMatch", NoLabel>> \in Emitted(t, r) <=> r.bodyEval /\ t.type = "http_body"
           /\ <<"packetLoss", NoLabel>> \in Emitted(t, r) <=> t.type = "icmp"
           /\ <<"avgRTT", NoLabel>> \in Emitted(t, r) <=> t.type \in {"icmp", "mtu"} /\ r.replies >= 1
           /\ <<"stddevRTT", NoLabel>> \in Emitted(t, r) <=> t.type = "icmp" /\ r.replies >= 2
           /\ <<"mtuBytes", NoLabel>> \in Emitted(t, r) <=> t.type = "mtu" /\ r.mtu
           /\ <<"dnsTime", NoLabel>> \in Emitted(t, r) <=> t.type = "dns"
           /\ <<"dnsMatch", NoLabel>> \in Emitted(t, r) <=> t.type = "dns" /\ r.dnsEval
           /\ \A p \in r.phases : <<"phase", p>> \in Emitted(t, r)
           /\ t.type = "mtu" => <<"mtuState", r.mtuState>> \in Emitted(t, r)
           /\ r.chain # {} /\ (t.type = "tls_cert" \/ (t.type = "http" /\ t.emitCert)) =>
                /\ <<"certExpiry", NoLabel>> \in Emitted(t, r)
                /\ \A c \in r.chain : <<"chain", c>> \in Emitted(t, r)
BY DEF Emitted, Tunnelled

\* The phases: every known phase is deleted before one is set.
LEMMA RecordingsPhases ==
    ASSUME NEW t, NEW r, ResultOf(t, r), NEW order \in SetToSeqs(r.phases)
    PROVE  Recordings(phaseOps(t, r, order), t, r)
<1> DEFINE d == deletePhaseOps(t)
           q == PhaseSets(t, r, order)
           del(p) == Op("delete", "phase", buildLabels(t), p, None)
           put(p) == Op("set", "phase", buildLabels(t), p, Val(r))
<1>1. phaseOps(t, r, order) = d \o q
  BY DEF phaseOps, PhaseSets
<1>2. /\ IsSeq(d)
      /\ \A o \in Elems(d) : \E p \in AllPhases : o = del(p)
      /\ \A p \in AllPhases : del(p) \in Elems(d)
  BY DeletePhases DEF DeletesPhases
<1>3. IsSeq(q) /\ \A o \in Elems(q) : \E p \in r.phases : o = put(p)
  BY SetPhases DEF ResultOf
<1> HIDE DEF d, q
<1>4. /\ \A p : /\ del(p).op = "delete" /\ del(p).fam = "phase" /\ del(p).key = buildLabels(t)
                /\ del(p).sub = p
      /\ \A p : /\ put(p).op = "set" /\ put(p).fam = "phase" /\ put(p).key = buildLabels(t)
                /\ put(p).sub = p /\ put(p).val = Val(r)
  BY DEF Op
<1>5. "phase" \in Families(t) /\ "phase" \in Cleared /\ Val(r) = ValueOf(r, "phase")
  BY DEF Families, Cleared, ValueOf
<1>6. \A p \in r.phases : <<"phase", p>> \in Emitted(t, r)
  BY EmittedPlain
<1> HIDE DEF del, put
<1>7. \A o \in Elems(d) : Records(o, t, r) /\ o.op # "set"
  BY <1>2, <1>4, <1>5 DEF Records
<1>8. \A o \in Elems(q) : Records(o, t, r) /\ o.fam = "phase"
  BY <1>3, <1>4, <1>5, <1>6 DEF Records
<1>9. Recordings(d, t, r)
  <2>1. \A k \in 1..Len(d) : d[k] \in Elems(d)
    BY <1>2, SeqDomain
  <2> QED
    BY <1>2, <1>7, <2>1 DEF Recordings, Covered
<1>10. ASSUME NEW s, Shape(s, t, "phase") PROVE TouchedBy(d, s)
  <2>1. s.sub \in AllPhases /\ s.fam = "phase" /\ s.key = buildLabels(t)
    BY <1>10 DEF Shape
  <2>2. del(s.sub) \in Elems(d) /\ Touches(del(s.sub), s)
    BY <1>2, <1>4, <2>1 DEF Touches
  <2> QED
    BY <2>2, TouchedElement
<1>11. \A k \in 1..Len(q) : q[k].fam = "phase"
  BY <1>3, <1>8, SeqDomain
<1>12. Recordings(d \o q, t, r)
  BY <1>3, <1>8, <1>9, <1>10, <1>11, RecordingConcat
<1> QED
  BY <1>1, <1>12

\* A family with labels is deleted before it is set.
LEMMA RecordingsLabelled ==
    ASSUME NEW t, NEW r, ResultOf(t, r), NEW a, Recordings(a, t, r),
           NEW f \in Labelled, \A s : Shape(s, t, f) => TouchedBy(a, s),
           NEW sub, <<f, sub>> \in Emitted(t, r), NEW v, v = ValueOf(r, f)
    PROVE  /\ Recordings(a \o SetOp(t, f, sub, v), t, r)
           /\ \A s : Shape(s, t, f) => TouchedBy(a \o SetOp(t, f, sub, v), s)
<1> DEFINE o == Op("set", f, buildLabels(t), sub, v)
           e == <<f, sub>>
<1>1. o.op = "set" /\ o.fam = f /\ o.key = buildLabels(t) /\ o.sub = sub /\ o.val = v
  BY DEF Op
<1>2. f \in Families(t)
  <2>1. e \in Emitted(t, r) /\ e[1] = f
    OBVIOUS
  <2> HIDE DEF e
  <2> QED
    BY <2>1, EmittedPairs
<1>3. IsSeq(<<o>>) /\ Elems(<<o>>) = {o} /\ Len(<<o>>) = 1 /\ <<o>>[1] = o
  BY SingleSeq
<1> HIDE DEF o
<1>4. Records(o, t, r)
  BY <1>1, <1>2 DEF Records
<1>5. \A k \in 1..Len(<<o>>) : <<o>>[k].fam = f
  <2>1. \A k \in 1..1 : k = 1
    OBVIOUS
  <2> QED
    BY <1>1, <1>3, <2>1
<1>6. Recordings(a \o <<o>>, t, r)
  BY <1>3, <1>4, <1>5, RecordingConcat
<1>7. \A s : Shape(s, t, f) => TouchedBy(a \o <<o>>, s)
  BY <1>3, ConcatTouches DEF Recordings
<1> QED
  BY <1>6, <1>7 DEF SetOp, o

LEMMA RecordingsClearTLS ==
    ASSUME NEW t, NEW r, ResultOf(t, r), t.type \in {"http", "tls_cert"}
    PROVE  /\ Recordings(clearTLSOps(t), t, r)
           /\ \A s : Shape(s, t, "chain") => TouchedBy(clearTLSOps(t), s)
<1>1. /\ "certExpiry" \in Families(t) /\ "chain" \in Families(t)
      /\ "certExpiry" \in Cleared /\ "chain" \in Cleared
  BY DEF Families, Opt, Cleared
<1> DEFINE a == DeleteOp(t, "certExpiry", NoLabel)
           b == DeletePartialMatchOp(t, "chain")
<1>2. Recordings(a, t, r)
  BY <1>1, RecordingDelete
<1>3. Recordings(b, t, r) /\ \A s : Shape(s, t, "chain") => TouchedBy(b, s)
  BY <1>1, RecordingDelete
<1> HIDE DEF a, b
<1>4. Recordings(a \o b, t, r)
  BY <1>2, <1>3, RecordingJoin
<1>5. \A s : Shape(s, t, "chain") => TouchedBy(a \o b, s)
  BY <1>2, <1>3, ConcatTouches DEF Recordings
<1> QED
  BY <1>4, <1>5 DEF clearTLSOps, a, b

\* The certificates: the chain is deleted before a certificate is set.
LEMMA RecordingsTLS ==
    ASSUME NEW t, NEW r, ResultOf(t, r), t.type = "tls_cert" \/ (t.type = "http" /\ t.emitCert)
    PROVE  Recordings(tlsOps(t, r), t, r)
<1> DEFINE Good(q) == Recordings(q, t, r) /\ \A s : Shape(s, t, "chain") => TouchedBy(q, s)
           e == IF r.chain # {} THEN SetOp(t, "certExpiry", NoLabel, Val(r)) ELSE <<>>
           a0 == clearTLSOps(t) \o e
           a1 == a0 \o chainOp(t, r, "leaf")
           a2 == a1 \o chainOp(t, r, "intermediate")
           a3 == a2 \o chainOp(t, r, "root")
<1>1. Good(clearTLSOps(t))
  BY RecordingsClearTLS
<1>2. Recordings(e, t, r)
  <2>1. CASE r.chain # {}
    <3>1. <<"certExpiry", NoLabel>> \in Emitted(t, r) /\ "certExpiry" \notin Labelled
      BY <2>1, EmittedPlain DEF Labelled
    <3> QED
      BY <2>1, <3>1, RecordingSet
  <2>2. CASE r.chain = {}
    BY <2>2, RecordingNothing
  <2> QED
    BY <2>1, <2>2
<1>3. \A q, p : Good(q) /\ Recordings(p, t, r) => Good(q \o p)
  BY RecordingJoin, ConcatTouches DEF Recordings
<1>4. Good(a0)
  <2> HIDE DEF Good, e
  <2> QED
    BY <1>1, <1>2, <1>3
<1>5. ASSUME NEW q, Good(q), NEW c PROVE Good(q \o chainOp(t, r, c))
  <2>1. CASE c \in r.chain
    <3>1. <<"chain", c>> \in Emitted(t, r) /\ "chain" \in Labelled /\ Val(r) = ValueOf(r, "chain")
      BY <2>1, EmittedPlain DEF Labelled, ValueOf
    <3>2. /\ Recordings(q \o SetOp(t, "chain", c, Val(r)), t, r)
          /\ \A s : Shape(s, t, "chain") => TouchedBy(q \o SetOp(t, "chain", c, Val(r)), s)
      BY <1>5, <3>1, RecordingsLabelled
    <3> QED
      BY <2>1, <3>2 DEF chainOp
  <2>2. CASE c \notin r.chain
    <3> HIDE DEF Good
    <3> QED
      BY <1>3, <1>5, <2>2, RecordingNothing DEF chainOp
  <2> QED
    BY <2>1, <2>2
<1> HIDE DEF Good, a0, e
<1>6. Good(a1)
  BY <1>4, <1>5
<1> HIDE DEF a1
<1>7. Good(a2)
  BY <1>5, <1>6
<1> HIDE DEF a2
<1>8. Good(a3)
  BY <1>5, <1>7
<1>9. tlsOps(t, r) = a3
  BY Zenon DEF tlsOps, a0, a1, a2, a3, e
<1> QED
  BY <1>8, <1>9 DEF Good

\* The MTU state: all states are deleted before the new one is set.
LEMMA RecordingsMTU ==
    ASSUME NEW t, NEW r, ResultOf(t, r), t.type = "mtu"
    PROVE  Recordings(mtuOps(t, r), t, r)
<1> DEFINE a == DeletePartialMatchOp(t, "mtuState")
           b == SetOrDeleteOp(t, "mtuBytes", r.mtu, Val(r))
           c == SetOp(t, "mtuState", r.mtuState, One)
<1>1. /\ "mtuState" \in Families(t) /\ "mtuState" \in Cleared /\ "mtuState" \in Labelled
      /\ "mtuBytes" \in Families(t) /\ "mtuBytes" \notin Labelled /\ One = ValueOf(r, "mtuState")
      /\ r.mtu \in BOOLEAN
  BY DEF Families, Opt, Cleared, Labelled, ValueOf, ResultOf
<1>2. (r.mtu <=> <<"mtuBytes", NoLabel>> \in Emitted(t, r)) /\ <<"mtuState", r.mtuState>> \in Emitted(t, r)
  BY EmittedPlain
<1>3. Recordings(a, t, r) /\ \A s : Shape(s, t, "mtuState") => TouchedBy(a, s)
  BY <1>1, RecordingDelete
<1>4. Recordings(b, t, r)
  BY <1>1, <1>2, RecordingSetOrDelete
<1> HIDE DEF a, b
<1>5. Recordings(a \o b, t, r)
  BY <1>3, <1>4, RecordingJoin
<1>6. \A s : Shape(s, t, "mtuState") => TouchedBy(a \o b, s)
  BY <1>3, <1>4, ConcatTouches DEF Recordings
<1>7. Recordings((a \o b) \o c, t, r)
  BY <1>1, <1>2, <1>5, <1>6, RecordingsLabelled
<1> QED
  BY <1>7 DEF mtuOps, a, b

LEMMA RecordingsAvg ==
    ASSUME NEW t, NEW r, ResultOf(t, r), t.type \in {"icmp", "mtu"}
    PROVE  Recordings(avgOps(t, r), t, r)
<1> DEFINE some == r.replies >= 1
<1>1. "avgRTT" \in Families(t) /\ "avgRTT" \notin Labelled /\ some \in BOOLEAN
  BY DEF Families, Opt, Labelled
<1>2. some <=> <<"avgRTT", NoLabel>> \in Emitted(t, r)
  BY EmittedPlain
<1> HIDE DEF some
<1>3. Recordings(SetOrDeleteOp(t, "avgRTT", some, Val(r)), t, r)
  BY <1>1, <1>2, RecordingSetOrDelete
<1> QED
  BY <1>3 DEF avgOps, some

LEMMA RecordingsType ==
    ASSUME NEW t, NEW r, ResultOf(t, r)
    PROVE  Recordings(typeOps(t, r), t, r)
<1>1. CASE t.type = "http"
  <2> DEFINE a == SetOrDeleteOp(t, "httpStatus", r.http, Val(r))
             b == IF t.emitCert THEN tlsOps(t, r) ELSE clearTLSOps(t)
             c == SetOrDeleteOp(t, "truncated", r.trunc, Val(r))
  <2>1. /\ "httpStatus" \in Families(t) /\ "httpStatus" \notin Labelled /\ r.http \in BOOLEAN
        /\ "truncated" \in Families(t) /\ "truncated" \notin Labelled /\ r.trunc \in BOOLEAN
    BY <1>1 DEF Families, Opt, Labelled, ResultOf
  <2>2. /\ r.http <=> <<"httpStatus", NoLabel>> \in Emitted(t, r)
        /\ r.trunc <=> <<"truncated", NoLabel>> \in Emitted(t, r)
    BY <1>1, EmittedPlain
  <2>3. Recordings(a, t, r) /\ Recordings(c, t, r)
    BY <2>1, <2>2, RecordingSetOrDelete
  <2>4. Recordings(b, t, r)
    BY <1>1, RecordingsTLS, RecordingsClearTLS
  <2>5. typeOps(t, r) = (a \o b) \o c
    BY <1>1 DEF typeOps
  <2> HIDE DEF a, b, c
  <2> QED
    BY <2>3, <2>4, <2>5, RecordingJoin
<1>2. CASE t.type = "icmp"
  <2> DEFINE a == SetOp(t, "packetLoss", NoLabel, Val(r))
             b == avgOps(t, r)
             two == r.replies >= 2
             c == SetOrDeleteOp(t, "stddevRTT", two, Val(r))
  <2>1. /\ "packetLoss" \notin Labelled /\ <<"packetLoss", NoLabel>> \in Emitted(t, r)
        /\ "stddevRTT" \in Families(t) /\ "stddevRTT" \notin Labelled
    BY <1>2, EmittedPlain DEF Families, Opt, Labelled
  <2>6. two \in BOOLEAN
    OBVIOUS
  <2>2. two <=> <<"stddevRTT", NoLabel>> \in Emitted(t, r)
    BY <1>2, EmittedPlain
  <2>5. typeOps(t, r) = (a \o b) \o c
    BY <1>2 DEF typeOps
  <2> HIDE DEF two
  <2>3. Recordings(a, t, r) /\ Recordings(c, t, r)
    BY <2>1, <2>2, <2>6, RecordingSetOrDelete, RecordingSet
  <2>4. Recordings(b, t, r)
    BY <1>2, RecordingsAvg
  <2> HIDE DEF a, b, c
  <2> QED
    BY <2>3, <2>4, <2>5, RecordingJoin
<1>3. CASE t.type = "mtu"
  <2>1. typeOps(t, r) = mtuOps(t, r) \o avgOps(t, r)
    BY <1>3 DEF typeOps
  <2> QED
    BY <1>3, <2>1, RecordingsMTU, RecordingsAvg, RecordingJoin
<1>4. CASE t.type = "dns"
  <2> DEFINE a == SetOp(t, "dnsTime", NoLabel, Val(r))
             b == SetOrDeleteOp(t, "dnsMatch", r.dnsEval, Val(r))
  <2>1. /\ "dnsTime" \notin Labelled /\ <<"dnsTime", NoLabel>> \in Emitted(t, r)
        /\ "dnsMatch" \in Families(t) /\ "dnsMatch" \notin Labelled /\ r.dnsEval \in BOOLEAN
    BY <1>4, EmittedPlain DEF Families, Opt, Labelled, ResultOf
  <2>2. r.dnsEval <=> <<"dnsMatch", NoLabel>> \in Emitted(t, r)
    BY <1>4, EmittedPlain
  <2>3. Recordings(a, t, r) /\ Recordings(b, t, r)
    BY <2>1, <2>2, RecordingSetOrDelete, RecordingSet
  <2>4. typeOps(t, r) = a \o b
    BY <1>4 DEF typeOps
  <2> HIDE DEF a, b
  <2> QED
    BY <2>3, <2>4, RecordingJoin
<1>5. CASE t.type = "http_body"
  <2> DEFINE a == SetOrDeleteOp(t, "bodyMatch", r.bodyEval, Val(r))
             b == SetOrDeleteOp(t, "httpStatus", r.http, Val(r))
  <2>1. /\ "bodyMatch" \in Families(t) /\ "bodyMatch" \notin Labelled /\ r.bodyEval \in BOOLEAN
        /\ "httpStatus" \in Families(t) /\ "httpStatus" \notin Labelled /\ r.http \in BOOLEAN
    BY <1>5 DEF Families, Opt, Labelled, ResultOf
  <2>2. /\ r.bodyEval <=> <<"bodyMatch", NoLabel>> \in Emitted(t, r)
        /\ r.http <=> <<"httpStatus", NoLabel>> \in Emitted(t, r)
    BY <1>5, EmittedPlain
  <2>3. Recordings(a, t, r) /\ Recordings(b, t, r)
    BY <2>1, <2>2, RecordingSetOrDelete
  <2>4. typeOps(t, r) = a \o b
    BY <1>5 DEF typeOps
  <2> HIDE DEF a, b
  <2> QED
    BY <2>3, <2>4, RecordingJoin
<1>6. CASE t.type = "tls_cert"
  BY <1>6, RecordingsTLS DEF typeOps
<1>7. CASE t.type \in {"tcp", "proxy_connect"}
  <2>1. typeOps(t, r) = <<>>
    BY <1>7 DEF typeOps
  <2> QED
    BY <2>1, RecordingNothing
<1> QED
  BY <1>1, <1>2, <1>3, <1>4, <1>5, <1>6, <1>7 DEF ResultOf, ProbeTypes

\* Every operation of a Record records its result, and before a series is set
\* the older ones of its family are gone.
LEMMA RecordingsAll ==
    ASSUME NEW t, NEW r, ResultOf(t, r), NEW order \in SetToSeqs(r.phases)
    PROVE  Recordings(recordOps(t, r, order), t, r)
<1> DEFINE a == SetOp(t, "success", NoLabel, Val(r))
           b == SetOp(t, "duration", NoLabel, Val(r))
           c == SetOp(t, "timedOut", NoLabel, Val(r))
<1>1. Recordings(commonOps(t, r), t, r)
  <2>1. /\ <<"success", NoLabel>> \in Emitted(t, r) /\ "success" \notin Labelled
        /\ <<"duration", NoLabel>> \in Emitted(t, r) /\ "duration" \notin Labelled
        /\ <<"timedOut", NoLabel>> \in Emitted(t, r) /\ "timedOut" \notin Labelled
    BY EmittedPlain DEF Labelled
  <2>2. Recordings(a, t, r) /\ Recordings(b, t, r) /\ Recordings(c, t, r)
    BY <2>1, RecordingSet
  <2>3. commonOps(t, r) = (a \o b) \o c
    BY DEF commonOps
  <2> HIDE DEF a, b, c
  <2> QED
    BY <2>2, <2>3, RecordingJoin
<1>2. Recordings(connectOps(t, r), t, r)
  <2>1. CASE t.type \in Tunnelled
    <3>1. /\ "connectStatus" \in Families(t) /\ "connectStatus" \notin Labelled /\ r.connect \in BOOLEAN
          /\ r.connect <=> <<"connectStatus", NoLabel>> \in Emitted(t, r)
      BY <2>1, EmittedPlain DEF Families, Opt, Labelled, ResultOf
    <3>2. connectOps(t, r) = SetOrDeleteOp(t, "connectStatus", r.connect, Val(r))
      BY <2>1 DEF connectOps, Tunnelled
    <3> QED
      BY <3>1, <3>2, RecordingSetOrDelete
  <2>2. CASE t.type \notin Tunnelled
    BY <2>2, RecordingNothing DEF connectOps, Tunnelled
  <2> QED
    BY <2>1, <2>2
<1>3. Recordings(phaseOps(t, r, order), t, r)
  BY RecordingsPhases
<1>4. Recordings(typeOps(t, r), t, r)
  BY RecordingsType
<1> QED
  BY <1>1, <1>2, <1>3, <1>4, RecordingJoin DEF recordOps

----------------------------------------------------------------------------
(* EnsureTarget and DeleteTarget *)

\* The operations of EnsureTarget.
LEMMA EnsureOps ==
    ASSUME NEW t
    PROVE  LET q == ensureOps(t) IN
           /\ Main(q, t.name)
           /\ t.labels # NoLabel =>
                \A o \in Elems(q) : o.key = buildLabels(t) => o.fam \in ConfigFamilies
           /\ \A s : TouchedBy(q, s) => s.key[1] = t.name
           /\ \A s : s \in Final(q) \/ (s = ConfigOf(t, "overlap", Count(0))) <=> s \in StartSeries(t)
           /\ \A S, s : (\A x \in S : x.key[1] # t.name) =>
                (s \in Ensured(S, q) <=> s = ConfigOf(t, "overlap", Count(0)))
<1> DEFINE k == buildLabels(t)
           a == Op("set", "timeout", k, NoLabel, ConfigVal)
           b == Op("set", "interval", k, NoLabel, ConfigVal)
           c == Op("ensure", "overlap", k, NoLabel, Count(0))
           d == Op("set", "proxyInfo", <<t.name, NoLabel>>, t.proxy, One)
           tail == IF t.proxy # None THEN <<d>> ELSE <<>>
           abc == (<<a>> \o <<b>>) \o <<c>>
           q == abc \o tail
           counter == ConfigOf(t, "overlap", Count(0))
<1>1. ensureOps(t) = q
  BY DEF ensureOps, SetOp, proxyInfoOp
<1>2. /\ a.op = "set" /\ a.fam = "timeout" /\ a.key = k /\ Written(a) = ConfigOf(t, "timeout", ConfigVal)
      /\ b.op = "set" /\ b.fam = "interval" /\ b.key = k /\ Written(b) = ConfigOf(t, "interval", ConfigVal)
      /\ c.op = "ensure" /\ c.fam = "overlap" /\ c.key = k /\ Written(c) = counter
      /\ d.op = "set" /\ d.fam = "proxyInfo" /\ d.key = <<t.name, NoLabel>> /\ Written(d) = proxyInfo(t)
  BY DEF Op, Written, ConfigOf, proxyInfo
<1>3. k[1] = t.name /\ <<t.name, NoLabel>>[1] = t.name
  BY DEF buildLabels
<1> HIDE DEF a, b, c, d, k
<1>4. /\ IsSeq(abc) /\ Len(abc) = 3 /\ Elems(abc) = {a, b, c}
      /\ abc[1] = a /\ abc[2] = b /\ abc[3] = c
  <2> DEFINE A == <<a>>
             B == <<b>>
             C == <<c>>
             AB == A \o B
  <2>1. /\ IsSeq(A) /\ Elems(A) = {a} /\ Len(A) = 1 /\ A[1] = a
        /\ IsSeq(B) /\ Elems(B) = {b} /\ Len(B) = 1 /\ B[1] = b
        /\ IsSeq(C) /\ Elems(C) = {c} /\ Len(C) = 1 /\ C[1] = c
    BY SingleSeq
  <2> HIDE DEF A, B, C
  <2>6. IsSeq(A) /\ IsSeq(B) /\ IsSeq(C)
    BY <2>1
  <2>2. /\ IsSeq(AB) /\ Elems(AB) = Elems(A) \union Elems(B) /\ Len(AB) = Len(A) + Len(B)
        /\ \A i \in 1..Len(A) : AB[i] = A[i]
        /\ \A i \in 1..Len(B) : AB[Len(A) + i] = B[i]
    BY <2>6, ConcatSeq
  <2>3. Len(AB) = 2 /\ AB[1] = a /\ AB[1 + 1] = b /\ Elems(AB) = {a, b}
    BY <2>1, <2>2
  <2>7. IsSeq(AB)
    BY <2>2
  <2> HIDE DEF AB
  <2>4. /\ IsSeq(AB \o C) /\ Elems(AB \o C) = Elems(AB) \union Elems(C)
        /\ Len(AB \o C) = Len(AB) + Len(C)
        /\ \A i \in 1..Len(AB) : (AB \o C)[i] = AB[i]
        /\ \A i \in 1..Len(C) : (AB \o C)[Len(AB) + i] = C[i]
    BY <2>6, <2>7, ConcatSeq
  <2>5. /\ Len(AB \o C) = 3 /\ Elems(AB \o C) = {a, b, c}
        /\ (AB \o C)[1] = a /\ (AB \o C)[2] = b /\ (AB \o C)[2 + 1] = c
    BY <2>1, <2>3, <2>4
  <2>8. abc = AB \o C
    BY DEF AB, A, B, C
  <2> HIDE DEF abc
  <2> QED
    BY <2>4, <2>5, <2>8
<1>5. /\ IsSeq(tail) /\ Elems(tail) \subseteq {d} /\ Len(tail) \in {0, 1}
      /\ Len(tail) = 1 <=> t.proxy # None
      /\ Len(tail) = 1 => tail[1] = d /\ Elems(tail) = {d}
      /\ Len(tail) = 0 => Elems(tail) = {}
  <2>1. CASE t.proxy # None
    BY <2>1, SingleSeq
  <2>2. CASE t.proxy = None
    BY <2>2, NoOps
  <2> QED
    BY <2>1, <2>2
<1> HIDE DEF abc, tail
<1>6. /\ IsSeq(q) /\ Elems(q) = {a, b, c} \union Elems(tail) /\ Len(q) = 3 + Len(tail)
      /\ q[1] = a /\ q[2] = b /\ q[3] = c /\ (Len(tail) = 1 => q[4] = d)
  <2>1. /\ IsSeq(q) /\ Elems(q) = Elems(abc) \union Elems(tail) /\ Len(q) = Len(abc) + Len(tail)
        /\ \A i \in 1..Len(abc) : q[i] = abc[i]
        /\ \A i \in 1..Len(tail) : q[Len(abc) + i] = tail[i]
    <3>1. IsSeq(abc) /\ IsSeq(tail)
      BY <1>4, <1>5
    <3> QED
      BY <3>1, ConcatSeq
  <2> HIDE DEF q
  <2>2. q[1] = abc[1] /\ q[2] = abc[2] /\ q[3] = abc[3]
    BY <1>4, <2>1
  <2>3. Len(tail) = 1 => q[3 + 1] = tail[1]
    BY <1>4, <2>1
  <2> QED
    BY <1>4, <1>5, <2>1, <2>2, <2>3
<1> HIDE DEF q
<1>7. \A i \in 1..Len(q) : i \in {1, 2, 3} \/ (i = 4 /\ Len(tail) = 1)
  <2>1. Len(q) = 3 + Len(tail) /\ Len(tail) \in {0, 1}
    BY <1>5, <1>6
  <2>2. CASE Len(tail) = 0
    <3>1. Len(q) = 3
      BY <2>1, <2>2
    <3> QED
      BY <3>1
  <2>3. CASE Len(tail) = 1
    <3>1. Len(q) = 4
      BY <2>1, <2>3
    <3> QED
      BY <2>3, <3>1
  <2> QED
    BY <2>1, <2>2, <2>3
<1>8. On(q, t.name)
  BY <1>2, <1>3, <1>5, <1>6 DEF On
<1>9. Main(q, t.name)
  <2>1. ASSUME NEW i \in 1..Len(q) PROVE q[i].op \in {"set", "delete", "deleteAll", "ensure"}
    BY <1>2, <1>6, <1>7
  <2>2. ASSUME NEW i \in 1..Len(q), q[i].op = "ensure", NEW j \in 1..Len(q), j # i
        PROVE  q[j].fam # q[i].fam
    <3>1. i = 3
      BY <1>2, <1>6, <1>7, <2>2
    <3>2. j \in {1, 2} \/ (j = 4 /\ Len(tail) = 1)
      BY <1>7, <2>2, <3>1
    <3> QED
      BY <1>2, <1>6, <3>1, <3>2
  <2> QED
    BY <1>8, <2>1, <2>2 DEF Main
<1>10. t.labels # NoLabel => \A o \in Elems(q) : o.key = k => o.fam \in ConfigFamilies
  <2>1. t.labels # NoLabel => d.key # k
    BY <1>2 DEF k, buildLabels
  <2> QED
    BY <1>2, <1>5, <1>6, <2>1 DEF ConfigFamilies
<1>11. \A s : s \in Final(q) <=> \E o \in Elems(q) : o.op = "set" /\ s = Written(o)
  <2>1. \A s \in Final(q) : \E o \in Elems(q) : o.op = "set" /\ s = Written(o)
    BY <1>6, FinalOfElement
  <2>2. ASSUME NEW i \in 1..Len(q), q[i].op = "set" PROVE Written(q[i]) \in Final(q)
    <3>1. \A j \in 1..Len(q) : j > i => ~Touches(q[j], Written(q[i]))
      <4> SUFFICES ASSUME NEW j \in 1..Len(q), j > i PROVE q[j].fam # q[i].fam
        BY WrittenFields DEF Touches
      <4> QED
        BY <1>2, <1>6, <1>7
    <3> QED
      BY <1>6, <2>2, <3>1, FinalElement
  <2>3. \A o \in Elems(q) : \E i \in 1..Len(q) : o = q[i]
    BY <1>6, SeqDomain DEF Elems
  <2> QED
    BY <2>1, <2>2, <2>3
<1>12. \A s : s \in Final(q) \/ s = counter <=> s \in StartSeries(t)
  <2>1. \A s : s \in Final(q) <=>
          \/ s = Written(a) \/ s = Written(b) \/ (t.proxy # None /\ s = Written(d))
    BY <1>2, <1>5, <1>6, <1>11
  <2>2. \A s : s \in StartSeries(t) <=>
          \/ s = ConfigOf(t, "timeout", ConfigVal) \/ s = ConfigOf(t, "interval", ConfigVal)
          \/ s = counter \/ (t.proxy # None /\ s = proxyInfo(t))
    BY DEF StartSeries
  <2> HIDE DEF counter
  <2> QED
    BY <1>2, <2>1, <2>2
<1>13. ASSUME NEW S, NEW s, \A x \in S : x.key[1] # t.name
       PROVE  s \in Ensured(S, q) <=> s = counter
  <2>1. s \in Ensured(S, q) <=>
          c.op = "ensure" /\ s = Written(c) /\ \A x \in S : ~(x.fam = c.fam /\ x.key = c.key)
    BY <1>2, <1>5, <1>6, EnsuredElement
  <2>2. \A x \in S : x.key # k
    BY <1>3, <1>13
  <2> QED
    BY <1>2, <2>1, <2>2
<1>14. \A s : TouchedBy(q, s) => s.key[1] = t.name
  BY <1>8, OnSeries
<1> QED
  BY <1>1, <1>9, <1>10, <1>12, <1>13, <1>14 DEF k

\* The vectors of DeleteTarget are those of Metrics, but for the phases.
LEMMA DeleteOrder ==
    /\ DOMAIN deleteOrder = 1..19
    /\ {deleteOrder[i] : i \in 1..19} = deletedFamilies \ {"phase"}
<1>1. DOMAIN deleteOrder = 1..19
  BY DEF deleteOrder
<1>2. /\ deleteOrder[1] = "success" /\ deleteOrder[2] = "duration" /\ deleteOrder[3] = "timeout"
      /\ deleteOrder[4] = "interval" /\ deleteOrder[5] = "timedOut"
      /\ deleteOrder[6] = "connectStatus" /\ deleteOrder[7] = "httpStatus"
      /\ deleteOrder[8] = "certExpiry" /\ deleteOrder[9] = "chain"
      /\ deleteOrder[10] = "packetLoss" /\ deleteOrder[11] = "avgRTT"
      /\ deleteOrder[12] = "stddevRTT" /\ deleteOrder[13] = "mtuBytes"
      /\ deleteOrder[14] = "mtuState" /\ deleteOrder[15] = "overlap"
      /\ deleteOrder[16] = "dnsTime" /\ deleteOrder[17] = "dnsMatch"
      /\ deleteOrder[18] = "bodyMatch" /\ deleteOrder[19] = "truncated"
  BY DEF deleteOrder
<1>3. \A i \in 1..19 : i \in {1, 2, 3, 4, 5, 6, 7, 8, 9, 10, 11, 12, 13, 14, 15, 16, 17, 18, 19}
  OBVIOUS
<1> HIDE DEF deleteOrder
<1>4. \A i \in 1..19 : deleteOrder[i] \in deletedFamilies \ {"phase"}
  BY <1>2, <1>3 DEF deletedFamilies
<1>5. \A f \in deletedFamilies \ {"phase"} : \E i \in 1..19 : f = deleteOrder[i]
  BY <1>2 DEF deletedFamilies
<1> QED
  BY <1>1, <1>4, <1>5

\* The operations of DeleteTarget remove every series a target can have.
LEMMA DeleteOps ==
    ASSUME NEW t
    PROVE  LET q == deleteOps(t) IN
           /\ Main(q, t.name) /\ Final(q) = {} /\ \A S : Ensured(S, q) = {}
           /\ \A r, n, s : Belongs(s, t, r, n) /\ (r # None => ResultOf(t, r)) /\ t.labels # NoLabel
                              => TouchedBy(q, s)
<1> DEFINE k == buildLabels(t)
           a == [i \in DOMAIN deleteOrder |-> deleteFamily(t, deleteOrder[i])]
           o == Op(IF t.proxy = None THEN "deleteAll" ELSE "delete", "proxyInfo", <<t.name, NoLabel>>,
                   t.proxy, One)
           d == deletePhaseOps(t)
           q == (a \o <<o>>) \o d
<1>1. deleteOps(t) = q
  BY DEF deleteOps, proxyInfoOp
<1>2. /\ IsSeq(d)
      /\ \A p \in Elems(d) : \E x \in AllPhases : p = Op("delete", "phase", buildLabels(t), x, None)
      /\ \A x \in AllPhases : Op("delete", "phase", buildLabels(t), x, None) \in Elems(d)
  BY DeletePhases DEF DeletesPhases
<1>3. (\A i \in 1..19 : a[i] = deleteFamily(t, deleteOrder[i])) /\ a = [i \in 1..19 |-> a[i]]
  BY DeleteOrder
<1> HIDE DEF a, d
<1>4. IsSeq(a) /\ DOMAIN a = 1..19
  BY <1>3, FunctionSeq
<1>5. /\ \A p \in Elems(a) : \E f \in deletedFamilies : p = deleteFamily(t, f)
      /\ \A f \in deletedFamilies \ {"phase"} : deleteFamily(t, f) \in Elems(a)
  BY <1>3, <1>4, DeleteOrder DEF Elems
<1>6. IsSeq(<<o>>) /\ Elems(<<o>>) = {o}
  BY SingleSeq
<1>7. k[1] = t.name /\ <<t.name, NoLabel>>[1] = t.name
  BY DEF buildLabels
<1>8. /\ \A f : deleteFamily(t, f).op = "deleteAll" /\ deleteFamily(t, f).key = k /\ deleteFamily(t, f).fam = f
      /\ o.op = (IF t.proxy = None THEN "deleteAll" ELSE "delete")
      /\ o.fam = "proxyInfo" /\ o.key = <<t.name, NoLabel>> /\ o.sub = t.proxy
  BY DEF deleteFamily, Op
<1>9. \A x : LET p == Op("delete", "phase", buildLabels(t), x, None) IN
             p.op = "delete" /\ p.fam = "phase" /\ p.key = k /\ p.sub = x
  BY DEF Op
<1> HIDE DEF o, k
<1>10. IsSeq(q) /\ Elems(q) = (Elems(a) \union {o}) \union Elems(d)
  BY <1>2, <1>4, <1>6, ConcatSeq
<1> HIDE DEF q
<1>11. \A p \in Elems(q) : p.op \in {"delete", "deleteAll"} /\ p.key[1] = t.name
  BY <1>2, <1>5, <1>7, <1>8, <1>9, <1>10
<1>12. Main(q, t.name)
  <2>1. On(q, t.name)
    BY <1>10, <1>11 DEF On
  <2>2. \A i \in 1..Len(q) : q[i] \in Elems(q)
    BY <1>10, SeqDomain
  <2>3. \A i \in 1..Len(q) : q[i].op \in {"delete", "deleteAll"}
    BY <1>11, <2>2
  <2> QED
    BY <2>1, <2>3 DEF Main
<1>13. Final(q) = {}
  BY <1>10, <1>11, FinalOfElement
<1>14. \A S : Ensured(S, q) = {}
  BY <1>11, EnsuredElement
<1>15. \A r, n, s : Belongs(s, t, r, n) /\ (r # None => ResultOf(t, r)) /\ t.labels # NoLabel
                       => TouchedBy(q, s)
  <2> SUFFICES ASSUME NEW r, NEW n, NEW s, Belongs(s, t, r, n), r # None => ResultOf(t, r),
                      t.labels # NoLabel
               PROVE  TouchedBy(q, s)
    OBVIOUS
  <2>1. CASE s.fam = "proxyInfo"
    <3>1. t.proxy # None /\ s = proxyInfo(t)
      BY <2>1, BelongsShape
    <3>2. s.key = <<t.name, NoLabel>> /\ s.sub = t.proxy
      BY <3>1 DEF proxyInfo
    <3>3. Touches(o, s)
      BY <1>8, <2>1, <3>1, <3>2 DEF Touches
    <3> QED
      BY <1>10, <3>3, TouchedElement
  <2>2. CASE s.fam = "phase"
    <3>1. s.key = k /\ s.sub \in AllPhases
      BY <2>2, BelongsShape DEF k
    <3> DEFINE p == Op("delete", "phase", buildLabels(t), s.sub, None)
    <3>2. p \in Elems(d) /\ Touches(p, s)
      BY <1>2, <1>9, <2>2, <3>1 DEF Touches
    <3> HIDE DEF p
    <3> QED
      BY <1>10, <3>2, TouchedElement
  <2>3. CASE s.fam \notin {"proxyInfo", "phase"}
    <3>1. s.key = k /\ s.fam \in ConfigFamilies \union Families(t) \union {"proxyInfo"}
      BY <2>3, BelongsShape DEF k
    <3>2. s.fam \in deletedFamilies \ {"phase"}
      BY <2>3, <3>1, FamilyNames DEF ConfigFamilies, deletedFamilies
    <3>3. deleteFamily(t, s.fam) \in Elems(q) /\ Touches(deleteFamily(t, s.fam), s)
      BY <1>5, <1>8, <1>10, <3>1, <3>2 DEF Touches
    <3> QED
      BY <3>3, TouchedElement
  <2> QED
    BY <2>1, <2>2, <2>3
<1> HIDE DEF k
<1> QED
  BY <1>1, <1>12, <1>13, <1>14, <1>15

----------------------------------------------------------------------------
(* The inductive invariant *)

\* The exporter's tables are indexed by the active targets.
Tables ==
    /\ last = [u \in active |-> last[u]]
    /\ prev = [u \in active |-> prev[u]]
    /\ skipped = [u \in active |-> skipped[u]]

\* Records are under way of active targets, and the main goroutine is at a
\* target that is not active, or at one that has no goroutine yet.
Goroutines ==
    /\ Recorders(recOps)
    /\ \A t \in Targets : recOps[t] # <<>> => t \in active /\ t # ensuring
    /\ mainOps = <<>> => ensuring = None
    /\ \E n : Main(mainOps, n) /\ \A t \in active : t # ensuring => t.name # n
    /\ ensuring # None =>
          /\ ensuring \in active /\ last[ensuring] = None
          /\ \A o \in Elems(mainOps) : o.key = buildLabels(ensuring) => o.fam \in ConfigFamilies

StepInv ==
    /\ Registered(active, last)
    /\ Tables
    /\ Goroutines
    /\ Exact(Completed, active, last, skipped)

\* There is a name that no target has.
LEMMA FreshName == \E n : \A t \in Targets : t.name # n
<1> DEFINE S == {t.name : t \in Targets}
           R == {x \in S : x \notin x}
<1>1. R \notin S
  OBVIOUS
<1>2. \A t \in Targets : t.name \in S
  OBVIOUS
<1> QED
  BY <1>1, <1>2

LEMMA MainNothing == ASSUME NEW n PROVE Main(<<>>, n)
BY NoOps DEF Main, On

\* Nothing under way by the main goroutine.
LEMMA Idle ==
    ASSUME Registered(active, last), Goroutines, ensuring = None, mainOps = <<>>
    PROVE  \E n : Main(mainOps, n) /\ \A t \in active : t.name # n
BY FreshName, MainNothing DEF Registered

\* No Record is under way of the target the main goroutine is at.
LEMMA ApartRecorders ==
    ASSUME Goroutines, NEW n, \A t \in active : t # ensuring => t.name # n
    PROVE  Apart(recOps, n)
BY DEF Goroutines, Apart

\* The invariant holds before anything is registered.
LEMMA StepInvInit == StepInit => StepInv
<1> SUFFICES ASSUME StepInit PROVE StepInv
  OBVIOUS
<1> USE DEF StepInit, ExporterInit
<1>1. Registered(active, last) /\ Tables
  BY DEF Registered, Tables
<1>2. \A t \in Targets : recOps[t] = <<>>
  OBVIOUS
<1>3. Recorders(recOps)
  BY <1>2, NoOps DEF Recorders, On
<1>4. Goroutines
  BY <1>2, <1>3, FreshName, MainNothing DEF Goroutines
<1>5. Exact(Completed, active, last, skipped)
  <2>1. Completed = Done(series, <<>>, recOps)
    BY CompletedIs
  <2>2. \A s : s \notin Done(series, <<>>, recOps)
    <3> SUFFICES ASSUME NEW s PROVE s \notin Done(series, <<>>, recOps)
      OBVIOUS
    <3>1. s \notin Ensured(series, <<>>) /\ s \notin Final(<<>>)
      BY EmptyFinal, NoOps, EnsuredElement
    <3>2. \A t \in Targets : s \notin Final(recOps[t])
      BY <1>2, EmptyFinal
    <3> QED
      BY <3>1, <3>2, DoneElement
  <2> QED
    BY <2>1, <2>2 DEF Exact
<1> QED
  BY <1>1, <1>4, <1>5 DEF StepInv

\* CompletedIs, of the next state.
LEMMA CompletedNext == Completed' = Done(series', mainOps', recOps')
<1> DEFINE Q == {mainOps'} \union {recOps'[t] : t \in Targets}
<1>1. {s \in series' : \A q \in Q : ~TouchedBy(q, s)}
        = {s \in series' : ~TouchedBy(mainOps', s) /\ \A t \in Targets : ~TouchedBy(recOps'[t], s)}
  OBVIOUS
<1>2. UNION {Final(q) : q \in Q} = Final(mainOps') \union UNION {Final(recOps'[t]) : t \in Targets}
  OBVIOUS
<1> QED
  BY <1>1, <1>2 DEF Completed, Done

\* An operation of the main goroutine leaves what will have been exported.
LEMMA MainStepKeeps ==
    ASSUME StepInv, MainStep
    PROVE  StepInv' /\ Completed' = Completed
<1> USE DEF MainStep
<1>1. Registered(active, last)' /\ Tables'
  BY DEF StepInv, Tables
<1>2. PICK n : Main(mainOps, n) /\ \A t \in active : t # ensuring => t.name # n
  BY DEF StepInv, Goroutines
<1>3. Recorders(recOps) /\ Apart(recOps, n)
  BY <1>2, ApartRecorders DEF StepInv, Goroutines
<1>4. /\ Main(Tail(mainOps), n)
      /\ Done(Perform(series, Head(mainOps)), Tail(mainOps), recOps) = Done(series, mainOps, recOps)
  BY <1>2, <1>3, DoneMainStep
<1>5. Completed' = Completed
  <2>1. Completed' = Done(Perform(series, Head(mainOps)), Tail(mainOps), recOps)
    BY CompletedNext
  <2> QED
    BY <1>4, <2>1, CompletedIs
<1>6. Goroutines'
  <2>1. Recorders(recOps)'
    BY <1>3
  <2>2. CASE Tail(mainOps) = <<>>
    <3>1. ensuring' = None /\ mainOps' = <<>>
      BY <2>2
    <3>2. \E k : Main(mainOps', k) /\ \A t \in active' : t # ensuring' => t.name # k
      <4>1. PICK k : \A t \in Targets : t.name # k
        BY FreshName
      <4>2. Main(<<>>, k) /\ active \subseteq Targets /\ active' = active
        BY MainNothing DEF StepInv, Registered
      <4>3. \A t \in active' : t.name # k
        BY <4>1, <4>2
      <4> QED
        BY <3>1, <4>2, <4>3
    <3>3. \A t \in Targets : recOps'[t] # <<>> => t \in active' /\ t # ensuring'
      BY <3>1, TargetsAssumption DEF StepInv, Goroutines
    <3> QED
      BY <2>1, <3>1, <3>2, <3>3 DEF Goroutines
  <2>3. CASE Tail(mainOps) # <<>>
    <3>1. ensuring' = ensuring /\ mainOps' = Tail(mainOps) /\ mainOps' # <<>>
      BY <2>3
    <3>2. \E k : Main(mainOps', k) /\ \A t \in active' : t # ensuring' => t.name # k
      BY <1>2, <1>4, <3>1
    <3>3. Elems(mainOps') \subseteq Elems(mainOps)
      BY <1>2, <3>1, TailSeq DEF Main, On
    <3>4. ensuring' # None =>
            /\ ensuring' \in active' /\ last'[ensuring'] = None
            /\ \A o \in Elems(mainOps') :
                 o.key = buildLabels(ensuring') => o.fam \in ConfigFamilies
      BY <3>1, <3>3 DEF StepInv, Goroutines
    <3>5. \A t \in Targets : recOps'[t] # <<>> => t \in active' /\ t # ensuring'
      BY <3>1 DEF StepInv, Goroutines
    <3> QED
      BY <2>1, <3>1, <3>2, <3>4, <3>5 DEF Goroutines
  <2> QED
    BY <2>2, <2>3
<1>7. Exact(Completed, active, last, skipped)'
  BY <1>5 DEF StepInv, Exact
<1> QED
  BY <1>1, <1>5, <1>6, <1>7 DEF StepInv

\* So does one of a Record, whatever runs at the same time.
LEMMA RecordStepKeeps ==
    ASSUME StepInv, NEW t \in Targets, RecordStep(t)
    PROVE  StepInv' /\ Completed' = Completed
<1> USE DEF RecordStep
<1>1. Registered(active, last)'
  BY DEF StepInv
<1>2. PICK n : Main(mainOps, n) /\ \A u \in active : u # ensuring => u.name # n
  BY DEF StepInv, Goroutines
<1>3. Recorders(recOps) /\ Apart(recOps, n)
  BY <1>2, ApartRecorders DEF StepInv, Goroutines
<1>9. /\ recOps[t] # <<>> /\ recOps' = [u \in Targets |-> recOps'[u]]
      /\ recOps'[t] = Tail(recOps[t]) /\ \A u \in Targets : u # t => recOps'[u] = recOps[u]
  BY <1>3 DEF Recorders
<1>4. /\ Recorders(recOps')
      /\ Done(Perform(series, Head(recOps[t])), mainOps, recOps') = Done(series, mainOps, recOps)
  <2> DEFINE rest == recOps'
  <2>1. Becomes(rest, recOps, t, Tail(recOps[t])) /\ recOps[t] # <<>>
    BY <1>9 DEF Becomes
  <2> HIDE DEF RecordStep, rest
  <2>2. /\ Recorders(rest)
        /\ Done(Perform(series, Head(recOps[t])), mainOps, rest) = Done(series, mainOps, recOps)
    BY <1>2, <1>3, <2>1, DoneRecordStep
  <2> QED
    BY <2>2 DEF rest
<1>5. Completed' = Completed
  <2>1. Completed' = Done(Perform(series, Head(recOps[t])), mainOps, recOps')
    BY CompletedNext
  <2> QED
    BY <1>4, <2>1, CompletedIs
<1>6. Tables'
  <2>1. t \in active
    BY DEF StepInv, Goroutines
  <2>2. last' = last /\ skipped' = skipped /\ active' = active
    OBVIOUS
  <2>3. prev' = [u \in active |-> prev'[u]]
    BY <2>1 DEF StepInv, Tables
  <2> QED
    BY <2>2, <2>3 DEF StepInv, Tables
<1>7. Goroutines'
  <2>1. \A u \in Targets : recOps'[u] # <<>> => recOps[u] # <<>>
    BY <1>3 DEF Recorders
  <2>2. \A u \in Targets : recOps'[u] # <<>> => u \in active' /\ u # ensuring'
    BY <2>1 DEF StepInv, Goroutines
  <2>3. Recorders(recOps)'
    BY <1>4
  <2>4. mainOps' = mainOps /\ ensuring' = ensuring /\ active' = active /\ last' = last
    OBVIOUS
  <2> QED
    BY <2>2, <2>3, <2>4 DEF StepInv, Goroutines
<1>8. Exact(Completed, active, last, skipped)'
  BY <1>5 DEF StepInv, Exact
<1> QED
  BY <1>1, <1>5, <1>6, <1>7, <1>8 DEF StepInv

\* A Record that begins changes it as Record does in Metrics.
LEMMA RecordBeginKeeps ==
    ASSUME StepInv, NEW t \in Targets, NEW r \in Results(t.type), RecordBegin(t, r)
    PROVE  /\ StepInv' /\ Completed' = Recorded(Completed, t, r)
           /\ Recordings(recOps'[t], t, r)
<1> USE DEF RecordBegin
<1>1. ResultOf(t, r) /\ r # None
  BY ResultTypes
<1>2. PICK order \in SetToSeqs(r.phases) : recOps' = [recOps EXCEPT ![t] = recordOps(t, r, order)]
  OBVIOUS
<1> DEFINE q == recordOps(t, r, order)
<1>3. IsSeq(q) /\ (\A o \in Elems(q) : Records(o, t, r)) /\ Recordings(q, t, r)
  BY <1>1, RecordingsAll DEF Recordings
<1>4. /\ On(q, t.name)
      /\ \A o \in Elems(q) :
           o.key = buildLabels(t) /\ o.fam \in Families(t) /\ o.op \in {"set", "delete", "deleteAll"}
  <2> HIDE DEF q
  <2>1. \A o \in Elems(q) :
          o.key = buildLabels(t) /\ o.fam \in Families(t) /\ o.op \in {"set", "delete", "deleteAll"}
    BY <1>3 DEF Records
  <2>2. buildLabels(t)[1] = t.name
    BY DEF buildLabels
  <2> QED
    BY <1>3, <2>1, <2>2 DEF On
<1>5. PICK n : Main(mainOps, n) /\ \A u \in active : u # ensuring => u.name # n
  BY DEF StepInv, Goroutines
<1>6. Recorders(recOps) /\ Apart(recOps, n)
  BY <1>5, ApartRecorders DEF StepInv, Goroutines
<1>7. \A u \in Targets : recOps[u] # <<>> => u.name # t.name
  BY DEF StepInv, Goroutines, Registered
<1>8. t \in active /\ t # ensuring /\ t.name # n /\ recOps[t] = <<>>
  BY <1>5
<1> DEFINE more == recOps'
<1>9. more = [recOps EXCEPT ![t] = q]
  BY <1>2
<1>10. Plain(Completed)
  BY ExactShape DEF StepInv
<1>11. After(Completed, q) = Recorded(Completed, t, r)
  BY <1>1, <1>10, AfterRecord
<1> HIDE DEF q
<1>12. /\ Recorders(recOps')
       /\ Done(series, mainOps, recOps') = After(Done(series, mainOps, recOps), q)
  <2>1. Becomes(more, recOps, t, q)
    BY <1>6, <1>9 DEF Recorders, Becomes
  <2>2. /\ Main(mainOps, n) /\ Recorders(recOps) /\ Apart(recOps, n)
        /\ Quiet(recOps, t) /\ t.name # n
    BY <1>5, <1>6, <1>7, <1>8 DEF Quiet, Apart
  <2>3. On(q, t.name)
    BY <1>4
  <2>4. \A o \in Elems(q) :
          o.key = buildLabels(t) /\ o.fam \in Families(t) /\ o.op \in {"set", "delete", "deleteAll"}
    BY <1>4
  <2> HIDE DEF RecordBegin, more
  <2>5. Recorders(more) /\ Done(series, mainOps, more) = After(Done(series, mainOps, recOps), q)
    BY <2>1, <2>2, <2>3, <2>4, DoneRecordBegin
  <2> QED
    BY <2>5 DEF more
<1>13. Completed' = Recorded(Completed, t, r)
  <2>1. Completed' = Done(series, mainOps, recOps')
    BY CompletedNext
  <2> QED
    BY <1>11, <1>12, <2>1, CompletedIs
<1>14. last'[t] = r /\ (\A u \in active : u # t => last'[u] = last[u]) /\ last' = [u \in active |-> last'[u]]
  BY <1>8 DEF StepInv, Tables
<1>15. Registered(active, last') /\ Exact(Recorded(Completed, t, r), active, last', skipped)
  BY <1>8, <1>14, ExactRecord DEF StepInv
<1>16. Tables'
  BY <1>14 DEF StepInv, Tables
<1>17. Goroutines'
  <2>1. Recorders(recOps)'
    BY <1>12
  <2>2. \A u \in Targets : recOps'[u] # <<>> => u \in active' /\ u # ensuring'
    BY <1>8, <1>9 DEF StepInv, Goroutines
  <2>3. mainOps' = mainOps /\ ensuring' = ensuring /\ active' = active
    OBVIOUS
  <2>4. ensuring # None => last'[ensuring] = None
    BY <1>8, <1>14 DEF StepInv, Goroutines
  <2> QED
    BY <2>1, <2>2, <2>3, <2>4 DEF StepInv, Goroutines
<1>18. Exact(Completed, active, last, skipped)'
  <2>1. active' = active /\ skipped' = skipped
    OBVIOUS
  <2> QED
    BY <1>13, <1>15, <2>1 DEF Exact
<1>19. Registered(active, last)'
  BY <1>15
<1>20. recOps'[t] = q
  BY <1>6, <1>9 DEF Recorders
<1>21. Recordings(recOps'[t], t, r)
  BY <1>3, <1>20
<1> QED
  BY <1>13, <1>16, <1>17, <1>18, <1>19, <1>21 DEF StepInv

\* EnsureTarget changes it as EnsureTarget does in Metrics.
LEMMA EnsureBeginKeeps ==
    ASSUME StepInv, NEW t \in Targets, EnsureBegin(t)
    PROVE  StepInv' /\ Completed' = EnsuredSeries(Completed, t)
<1> USE DEF EnsureBegin
<1> DEFINE q == ensureOps(t)
           counter == ConfigOf(t, "overlap", Count(0))
<1>1. Recorders(recOps) /\ mainOps = <<>> /\ ensuring = None
  BY DEF StepInv, Goroutines
<1>2. Apart(recOps, t.name)
  BY DEF StepInv, Goroutines, Apart
<1>3. /\ Main(q, t.name)
      /\ \A o \in Elems(q) : o.key = buildLabels(t) => o.fam \in ConfigFamilies
      /\ \A s : TouchedBy(q, s) => s.key[1] = t.name
      /\ \A s : s \in Final(q) \/ s = counter <=> s \in StartSeries(t)
      /\ \A S, s : (\A x \in S : x.key[1] # t.name) => (s \in Ensured(S, q) <=> s = counter)
  BY EnsureOps, TargetsAssumption
<1> HIDE DEF q, counter
<1>4. Completed = Done(series, <<>>, recOps) /\ Completed' = Done(series, q, recOps)
  <2>1. Completed = Done(series, <<>>, recOps)
    BY <1>1, CompletedIs
  <2>2. Completed' = Done(series, q, recOps)
    BY CompletedNext DEF q
  <2> QED
    BY <2>1, <2>2
<1>5. \A s \in Completed : s.key[1] # t.name
  BY NoSeriesYet DEF StepInv
<1>6. \A x \in series : x.key[1] # t.name
  <2> SUFFICES ASSUME NEW x \in series, x.key[1] = t.name PROVE FALSE
    OBVIOUS
  <2>1. \A u \in Targets : ~TouchedBy(recOps[u], x)
    BY <1>1, <1>2, RecordersOn DEF Apart
  <2>2. ~TouchedBy(<<>>, x)
    BY EmptyFinal
  <2>3. x \in Completed
    BY <1>4, <2>1, <2>2, DoneElement
  <2> QED
    BY <1>5, <2>3
<1>7. ASSUME NEW s PROVE s \in Completed' <=> s \in Completed \/ s \in StartSeries(t)
  <2>1. On(q, t.name)
    BY <1>3 DEF Main
  <2>2. s \in Done(series, q, recOps) <=>
          \/ s \in Done(series, <<>>, recOps) /\ ~TouchedBy(q, s)
          \/ s \in Ensured(series, q) \/ s \in Final(q)
    BY <1>1, <1>2, <2>1, DoneMainBegin
  <2>3. s \in Ensured(series, q) <=> s = counter
    BY <1>3, <1>6
  <2> QED
    BY <1>3, <1>4, <1>5, <2>2, <2>3
<1>8. /\ active' = active \union {t}
      /\ last'[t] = None /\ \A u \in active : last'[u] = last[u]
      /\ skipped'[t] = 0 /\ \A u \in active : skipped'[u] = skipped[u]
      /\ \A u \in active : u.name # t.name
  OBVIOUS
<1>9. /\ Registered(active', last')
      /\ EnsuredSeries(Completed, t) = Completed \union StartSeries(t)
      /\ Exact(EnsuredSeries(Completed, t), active', last', skipped')
  <2> DEFINE M == last'
             N == skipped'
  <2>1. /\ M[t] = None /\ \A u \in active : M[u] = last[u]
        /\ N[t] = 0 /\ \A u \in active : N[u] = skipped[u]
        /\ \A u \in active : u.name # t.name
    BY <1>8
  <2>2. Registered(active, last) /\ Exact(Completed, active, last, skipped)
    BY DEF StepInv
  <2> HIDE DEF EnsureBegin, M, N
  <2>3. /\ Registered(active \union {t}, M)
        /\ EnsuredSeries(Completed, t) = Completed \union StartSeries(t)
        /\ Exact(EnsuredSeries(Completed, t), active \union {t}, M, N)
    BY <2>1, <2>2, ExactEnsure
  <2>4. active' = active \union {t}
    BY <1>8
  <2> QED
    BY <2>3, <2>4 DEF M, N
<1>10. Completed' = EnsuredSeries(Completed, t)
  BY <1>7, <1>9
<1>11. Tables'
  BY DEF Tables
<1>12. Goroutines'
  <2>1. Recorders(recOps)'
    BY <1>1
  <2>2. \A u \in Targets : recOps'[u] # <<>> => u \in active' /\ u # ensuring'
    BY <1>8 DEF StepInv, Goroutines
  <2>3. mainOps' = q /\ ensuring' = t
    BY DEF q
  <2>4. \E n : Main(mainOps', n) /\ \A u \in active' : u # ensuring' => u.name # n
    BY <1>3, <1>8, <2>3
  <2>5. t # None
    BY TargetsAssumption
  <2>6. mainOps' # <<>>
    <3>1. Elems(<<>>) = {}
      BY NoOps
    <3>2. StartSeries(t) # {} /\ ConfigOf(t, "timeout", ConfigVal) \in StartSeries(t)
      BY DEF StartSeries
    <3>3. ConfigOf(t, "timeout", ConfigVal) # counter
      BY DEF ConfigOf, counter
    <3>4. Final(q) # {}
      BY <1>3, <3>2, <3>3
    <3> QED
      BY <2>3, <3>4, EmptyFinal
  <2> QED
    BY <1>3, <1>8, <2>1, <2>2, <2>3, <2>4, <2>5, <2>6 DEF Goroutines
<1>13. Exact(Completed, active, last, skipped)'
  BY <1>9, <1>10
<1>14. Registered(active, last)'
  BY <1>9
<1> QED
  BY <1>10, <1>11, <1>12, <1>13, <1>14 DEF StepInv

\* DeleteTarget changes it as DeleteTarget does in Metrics.
LEMMA DeleteBeginKeeps ==
    ASSUME StepInv, NEW t \in Targets, DeleteUndisturbed(t)
    PROVE  StepInv' /\ Completed' = DeletedSeries(Completed, t)
<1> USE DEF DeleteUndisturbed, DeleteBegin
<1> DEFINE q == deleteOps(t)
<1>1. Recorders(recOps) /\ mainOps = <<>> /\ ensuring = None /\ recOps[t] = <<>> /\ t \in active
  BY DEF StepInv, Goroutines
<1>2. Apart(recOps, t.name)
  BY <1>1 DEF StepInv, Goroutines, Apart, Registered
<1>3. /\ Main(q, t.name) /\ Final(q) = {} /\ \A S : Ensured(S, q) = {}
      /\ \A r, n, s : Belongs(s, t, r, n) /\ (r # None => ResultOf(t, r)) /\ t.labels # NoLabel
                        => TouchedBy(q, s)
  BY DeleteOps
<1> HIDE DEF q
<1>4. Completed = Done(series, <<>>, recOps) /\ Completed' = Done(series, q, recOps)
  <2>1. Completed = Done(series, <<>>, recOps)
    BY <1>1, CompletedIs
  <2>2. Completed' = Done(series, q, recOps)
    BY CompletedNext DEF q
  <2> QED
    BY <2>1, <2>2
<1>5. \A s : TouchedBy(q, s) => s.key[1] = t.name
  BY <1>3, OnSeries DEF Main
<1>6. ASSUME NEW s \in Completed, s.key[1] = t.name PROVE TouchedBy(q, s)
  <2>1. PICK u \in active : Belongs(s, u, last[u], skipped[u])
    BY DEF StepInv, Exact
  <2>2. u.labels # NoLabel /\ (last[u] # None => ResultOf(u, last[u]))
    BY RegisteredResults DEF StepInv
  <2>3. s.key[1] = u.name
    BY <2>1, <2>2, BelongsShape
  <2>4. u = t
    BY <1>1, <1>6, <2>3 DEF StepInv, Registered
  <2> QED
    BY <1>3, <2>1, <2>2, <2>4
<1>7. ASSUME NEW s PROVE s \in Completed' <=> s \in Completed /\ s.key[1] # t.name
  <2>1. On(q, t.name)
    BY <1>3 DEF Main
  <2>2. s \in Done(series, q, recOps) <=>
          \/ s \in Done(series, <<>>, recOps) /\ ~TouchedBy(q, s)
          \/ s \in Ensured(series, q) \/ s \in Final(q)
    BY <1>1, <1>2, <2>1, DoneMainBegin
  <2> QED
    BY <1>3, <1>4, <1>5, <1>6, <2>2
<1>8. /\ active' = active \ {t}
      /\ \A u \in active \ {t} : last'[u] = last[u]
      /\ \A u \in active \ {t} : skipped'[u] = skipped[u]
  OBVIOUS
<1>9. /\ Registered(active', last')
      /\ Exact(Without(Completed, t), active', last', skipped')
      /\ DeletedSeries(Completed, t) = Without(Completed, t)
  <2> DEFINE M == last'
             N == skipped'
  <2>1. (\A u \in active \ {t} : M[u] = last[u]) /\ (\A u \in active \ {t} : N[u] = skipped[u])
    BY <1>8
  <2>2. Registered(active, last) /\ Exact(Completed, active, last, skipped) /\ t \in active
    BY <1>1 DEF StepInv
  <2> HIDE DEF DeleteUndisturbed, DeleteBegin, M, N
  <2>3. /\ Registered(active \ {t}, M)
        /\ Exact(Without(Completed, t), active \ {t}, M, N)
        /\ DeletedSeries(Completed, t) = Without(Completed, t)
    BY <2>1, <2>2, ExactDelete
  <2>4. active' = active \ {t}
    BY <1>8
  <2> QED
    BY <2>3, <2>4 DEF M, N
<1>10. Completed' = DeletedSeries(Completed, t) /\ Completed' = Without(Completed, t)
  BY <1>7, <1>9 DEF Without
<1>11. Tables'
  BY DEF Tables
<1>12. Goroutines'
  <2>1. Recorders(recOps)'
    BY <1>1
  <2>2. \A u \in Targets : recOps'[u] # <<>> => u \in active' /\ u # ensuring'
    BY <1>1, <1>8 DEF StepInv, Goroutines
  <2>3. mainOps' = q /\ ensuring' = None
    BY <1>1 DEF q
  <2>4. \E n : Main(mainOps', n) /\ \A u \in active' : u # ensuring' => u.name # n
    BY <1>1, <1>3, <1>8, <2>3 DEF StepInv, Registered
  <2> QED
    BY <2>1, <2>2, <2>3, <2>4 DEF Goroutines
<1>13. Exact(Completed, active, last, skipped)'
  BY <1>9, <1>10
<1>14. Registered(active, last)'
  BY <1>9
<1> QED
  BY <1>10, <1>11, <1>12, <1>13, <1>14 DEF StepInv

\* A skipped tick increments the counter that will be exported.
LEMMA OverlapStepKeeps ==
    ASSUME StepInv, NEW t \in Targets, OverlapStep(t)
    PROVE  /\ StepInv'
           /\ ConfigOf(t, "overlap", Count(skipped[t])) \in Completed
           /\ Completed' = With(Completed, "overlap", t, NoLabel, Count(skipped[t] + 1))
<1>1. PICK s \in series :
        /\ s.fam = "overlap" /\ s.key = buildLabels(t)
        /\ series' = With(series, "overlap", t, NoLabel, Count(s.val[2] + 1))
  BY DEF OverlapStep, IncrSkippedOverlap
<1>2. /\ t \in active /\ t # ensuring
      /\ skipped' = [skipped EXCEPT ![t] = skipped[t] + 1]
      /\ active' = active /\ last' = last /\ prev' = prev
      /\ recOps' = recOps /\ mainOps' = mainOps /\ ensuring' = ensuring
  BY DEF OverlapStep, IncrSkippedOverlap
<1>3. PICK n : Main(mainOps, n) /\ \A u \in active : u # ensuring => u.name # n
  BY DEF StepInv, Goroutines
<1>4. Recorders(recOps) /\ t.name # n
  BY <1>2, <1>3 DEF StepInv, Goroutines
<1>5. On(mainOps, n)
  BY <1>3 DEF Main
<1> DEFINE mine(x) == x.fam = "overlap" /\ x.key = buildLabels(t)
<1>6. ASSUME NEW x, mine(x)
      PROVE  /\ ~TouchedBy(mainOps, x) /\ x \notin Final(mainOps)
             /\ \A S : x \notin Ensured(S, mainOps)
             /\ \A u \in Targets : ~TouchedBy(recOps[u], x) /\ x \notin Final(recOps[u])
  <2>1. x.key[1] = t.name /\ x.fam \in ConfigFamilies
    BY <1>6 DEF buildLabels, ConfigFamilies
  <2>2. /\ ~TouchedBy(mainOps, x) /\ x \notin Final(mainOps)
        /\ \A S : x \notin Ensured(S, mainOps)
    BY <1>4, <1>5, <2>1, OnSeries
  <2>3. ASSUME NEW u \in Targets PROVE ~TouchedBy(recOps[u], x) /\ x \notin Final(recOps[u])
    <3>1. x.fam \notin Families(u)
      BY <2>1, FamilyNames
    <3> QED
      BY <1>4, <3>1, RecordersOn
  <2> QED
    BY <2>2, <2>3
<1>7. s \in Completed
  <2>1. s \in Done(series, mainOps, recOps)
    BY <1>1, <1>6, DoneElement
  <2> QED
    BY <2>1, CompletedIs
<1>8. s = ConfigOf(t, "overlap", Count(skipped[t]))
  <2>1. PICK u \in active : Belongs(s, u, last[u], skipped[u])
    BY <1>7 DEF StepInv, Exact
  <2>2. u.labels # NoLabel /\ (last[u] # None => ResultOf(u, last[u]))
    BY RegisteredResults DEF StepInv
  <2>3. s.key[1] = u.name /\ s.key[1] = t.name
    BY <1>1, <2>1, <2>2, BelongsShape DEF buildLabels
  <2>4. u = t
    BY <1>2, <2>3 DEF StepInv, Registered
  <2>5. s.fam \in ConfigFamilies
    BY <1>1 DEF ConfigFamilies
  <2> QED
    BY <1>1, <2>1, <2>2, <2>4, <2>5, BelongsShape
<1>9. s.val[2] = skipped[t]
  BY <1>8 DEF ConfigOf, Count
<1> DEFINE W(S) == With(S, "overlap", t, NoLabel, Count(skipped[t] + 1))
           c == ConfigOf(t, "overlap", Count(skipped[t] + 1))
<1>10. series' = W(series)
  BY <1>1, <1>9
<1>11. \A S, x : x \in W(S) <=> (x \in S /\ ~(mine(x) /\ x.sub = NoLabel)) \/ x = c
  BY DEF With, ConfigOf
<1>12. mine(c)
  BY DEF ConfigOf
<1>13. ASSUME NEW x PROVE x \in Ensured(W(series), mainOps) <=> x \in Ensured(series, mainOps)
  <2> SUFFICES ASSUME NEW p \in Elems(mainOps)
               PROVE  (\A y \in W(series) : ~(y.fam = p.fam /\ y.key = p.key))
                        <=> (\A y \in series : ~(y.fam = p.fam /\ y.key = p.key))
    BY EnsuredElement
  <2>1. p.key # buildLabels(t)
    BY <1>4, <1>5 DEF On, buildLabels
  <2> HIDE DEF c, W
  <2> QED
    BY <1>11, <1>12, <2>1
<1> HIDE DEF mine, c, W
<1>14. ASSUME NEW x
       PROVE  x \in Done(W(series), mainOps, recOps) <=> x \in W(Done(series, mainOps, recOps))
  <2> DEFINE touched == TouchedBy(mainOps, x) \/ \E u \in Targets : TouchedBy(recOps[u], x)
             left == \/ x \in Ensured(series, mainOps) \/ x \in Final(mainOps)
                     \/ \E u \in Targets : x \in Final(recOps[u])
  <2>1. x \in Done(W(series), mainOps, recOps) <=> (x \in W(series) /\ ~touched) \/ left
    BY <1>13, DoneElement
  <2>2. x \in Done(series, mainOps, recOps) <=> (x \in series /\ ~touched) \/ left
    BY DoneElement
  <2>3. mine(x) => ~touched /\ ~left
    BY <1>6
  <2> HIDE DEF touched, left
  <2> QED
    BY <1>11, <1>12, <2>1, <2>2, <2>3
<1>15. Completed' = W(Completed)
  <2>1. Completed' = Done(W(series), mainOps, recOps)
    BY <1>2, <1>10, CompletedNext
  <2>2. Done(W(series), mainOps, recOps) = W(Done(series, mainOps, recOps))
    <3>1. \A x \in W(Done(series, mainOps, recOps)) : x \in Done(W(series), mainOps, recOps)
      BY <1>14
    <3>2. \A x \in Done(W(series), mainOps, recOps) : x \in W(Done(series, mainOps, recOps))
      BY <1>14
    <3>3. W(Done(series, mainOps, recOps)) = {x \in W(Done(series, mainOps, recOps)) : TRUE}
      OBVIOUS
    <3>4. W(Done(series, mainOps, recOps)) = Done(W(series), mainOps, recOps)
      BY <3>1, <3>2 DEF Done, W, With
    <3> QED
      BY <3>4
  <2> QED
    BY <2>1, <2>2, CompletedIs
<1>16. /\ skipped'[t] = skipped[t] + 1 /\ \A u \in active : u # t => skipped'[u] = skipped[u]
       /\ skipped' = [u \in active |-> skipped'[u]]
  BY <1>2 DEF StepInv, Tables
<1>17. Exact(W(Completed), active, last, skipped')
  <2> DEFINE N == skipped'
  <2>1. N[t] = skipped[t] + 1 /\ \A u \in active : u # t => N[u] = skipped[u]
    BY <1>16
  <2>2. Registered(active, last) /\ Exact(Completed, active, last, skipped) /\ t \in active
    BY <1>2 DEF StepInv
  <2> HIDE DEF N
  <2>3. Exact(With(Completed, "overlap", t, NoLabel, Count(skipped[t] + 1)), active, last, N)
    BY <2>1, <2>2, ExactOverlap
  <2> QED
    BY <2>3 DEF N, W
<1>18. Registered(active, last)' /\ Tables'
  BY <1>2, <1>16 DEF StepInv, Tables
<1>19. Goroutines'
  BY <1>2 DEF StepInv, Goroutines
<1>20. Exact(Completed, active, last, skipped)'
  BY <1>2, <1>15, <1>17
<1> QED
  BY <1>7, <1>8, <1>15, <1>18, <1>19, <1>20 DEF StepInv, W

\* Nothing changes when the vectors and the calls do not.
LEMMA StepStutters ==
    ASSUME StepInv, UNCHANGED <<series, active, last, skipped, recOps, mainOps, ensuring, prev>>
    PROVE  StepInv' /\ Completed' = Completed
<1>1. Completed' = Completed
  BY CompletedIs, CompletedNext
<1>2. Registered(active, last)' /\ Tables' /\ Goroutines'
  BY DEF StepInv, Tables, Goroutines
<1>3. Exact(Completed, active, last, skipped)'
  BY <1>1 DEF StepInv
<1> QED
  BY <1>1, <1>2, <1>3 DEF StepInv

\* Every step keeps the invariant.
LEMMA StepInvNext == StepInv /\ [StepNext]_stepVars => StepInv'
<1> SUFFICES ASSUME StepInv, [StepNext]_stepVars PROVE StepInv'
  OBVIOUS
<1>1. CASE UNCHANGED stepVars
  <2>1. UNCHANGED <<series, active, last, skipped, recOps, mainOps, ensuring, prev>>
    BY <1>1 DEF stepVars, exporterVars
  <2> QED
    BY <2>1, StepStutters
<1>2. ASSUME NEW keys \in TagKeySets, NewMetricsExporter(keys),
             UNCHANGED <<recOps, mainOps, ensuring, prev>>
      PROVE  StepInv'
  <2>1. UNCHANGED <<series, active, last, skipped, recOps, mainOps, ensuring, prev>>
    BY <1>2 DEF NewMetricsExporter
  <2> QED
    BY <2>1, StepStutters
<1>3. CASE MainStep
  BY <1>3, MainStepKeeps
<1>4. ASSUME NEW t \in Targets, EnsureBegin(t) PROVE StepInv'
  BY <1>4, EnsureBeginKeeps
<1>5. ASSUME NEW t \in Targets, DeleteUndisturbed(t) PROVE StepInv'
  BY <1>5, DeleteBeginKeeps
<1>6. ASSUME NEW t \in Targets, RecordStep(t) PROVE StepInv'
  BY <1>6, RecordStepKeeps
<1>7. ASSUME NEW t \in Targets, OverlapStep(t) PROVE StepInv'
  BY <1>7, OverlapStepKeeps
<1>8. ASSUME NEW t \in Targets, NEW r \in Results(t.type), RecordBegin(t, r) PROVE StepInv'
  BY <1>8, RecordBeginKeeps
<1> QED
  BY <1>1, <1>2, <1>3, <1>4, <1>5, <1>6, <1>7, <1>8 DEF StepNext

\* However calls of EnsureTarget, Record, IncrSkippedOverlap and DeleteTarget
\* interleave, operation by operation, a DeleteTarget with a Record of its target
\* excepted (DeleteUndisturbed), the goroutines keep to their targets and what the
\* calls under way will leave is exact.
THEOREM StepInvariant == StepSpec => []StepInv
<1>1. StepInit => StepInv
  BY StepInvInit
<1>2. StepInv /\ [StepNext]_stepVars => StepInv'
  BY StepInvNext
<1> QED
  BY <1>1, <1>2, PTL DEF StepSpec

----------------------------------------------------------------------------
(* The exporter whose calls are one step: its operators are those of Metrics *)

\* The operators of the instance are those of Metrics, one after the other.
LEMMA AtomicLabels ==
    /\ Atomic!NoLabel = NoLabel
    /\ \A t : Atomic!buildLabels(t) = buildLabels(t)
BY Zenon DEF Atomic!NoLabel, NoLabel, Atomic!buildLabels, buildLabels

LEMMA AtomicValues ==
    /\ \A r : Atomic!Val(r) = Val(r)
    /\ Atomic!ConfigVal = ConfigVal
    /\ Atomic!One = One
    /\ \A n : Atomic!Count(n) = Count(n)
BY AtomicLabels, Zenon
   DEF Atomic!Val, Val, Atomic!ConfigVal, ConfigVal, Atomic!One, One, Atomic!Count, Count

LEMMA AtomicWith ==
    ASSUME NEW S, NEW fam, NEW t
    PROVE  /\ \A sub, v : Atomic!With(S, fam, t, sub, v) = With(S, fam, t, sub, v)
           /\ Atomic!Delete(S, fam, t) = Delete(S, fam, t)
           /\ \A b, v : Atomic!SetOrDelete(S, fam, t, b, v) = SetOrDelete(S, fam, t, b, v)
<1>1. \A sub, v : Atomic!With(S, fam, t, sub, v) = With(S, fam, t, sub, v)
  BY AtomicLabels, Zenon DEF Atomic!With, With
<1>2. Atomic!Delete(S, fam, t) = Delete(S, fam, t)
  BY AtomicLabels, Zenon DEF Atomic!Delete, Delete
<1>3. \A b, v : Atomic!SetOrDelete(S, fam, t, b, v) = SetOrDelete(S, fam, t, b, v)
  BY AtomicLabels, <1>1, <1>2, Zenon DEF Atomic!SetOrDelete, SetOrDelete
<1> QED
  BY <1>1, <1>2, <1>3

LEMMA AtomicEmitted ==
    ASSUME NEW t, NEW r
    PROVE  Atomic!Emitted(t, r) = Emitted(t, r)
BY AtomicLabels DEF Atomic!Emitted, Emitted

LEMMA AtomicTLS ==
    ASSUME NEW S, NEW t, NEW r
    PROVE  /\ Atomic!clearTLSResult(S, t) = clearTLSResult(S, t)
           /\ Atomic!recordTLSResult(S, t, r) = recordTLSResult(S, t, r)
<1>1. Atomic!clearTLSResult(S, t) = clearTLSResult(S, t)
  BY AtomicWith, Zenon DEF Atomic!clearTLSResult, clearTLSResult
<1>2. Atomic!recordTLSResult(S, t, r) = recordTLSResult(S, t, r)
  <2> DEFINE C == clearTLSResult(S, t)
  <2>1. Atomic!With(C, "certExpiry", t, Atomic!NoLabel, Atomic!Val(r)) = With(C, "certExpiry", t, NoLabel, Val(r))
    BY AtomicWith, AtomicLabels, AtomicValues, Zenon
  <2>2. Atomic!recordTLSResult(S, t, r) =
          IF r.chain = {} THEN C
          ELSE Atomic!With(C, "certExpiry", t, Atomic!NoLabel, Atomic!Val(r))
                 \union {[fam |-> "chain", key |-> buildLabels(t), sub |-> c, val |-> Val(r)]
                            : c \in r.chain}
    BY <1>1, AtomicLabels, AtomicValues, Zenon DEF Atomic!recordTLSResult
  <2> QED
    BY <2>1, <2>2, Zenon DEF recordTLSResult
<1> QED
  BY <1>1, <1>2

LEMMA AtomicICMP ==
    ASSUME NEW S, NEW t, NEW r
    PROVE  /\ Atomic!recordICMPAvgRTT(S, t, r) = recordICMPAvgRTT(S, t, r)
           /\ Atomic!recordICMPStddevRTT(S, t, r) = recordICMPStddevRTT(S, t, r)
           /\ Atomic!recordMTUResult(S, t, r) = recordMTUResult(S, t, r)
<1>1. Atomic!recordICMPAvgRTT(S, t, r) = recordICMPAvgRTT(S, t, r)
  BY AtomicWith, AtomicValues, Zenon DEF Atomic!recordICMPAvgRTT, recordICMPAvgRTT
<1>2. Atomic!recordICMPStddevRTT(S, t, r) = recordICMPStddevRTT(S, t, r)
  BY AtomicWith, AtomicValues, Zenon DEF Atomic!recordICMPStddevRTT, recordICMPStddevRTT
<1>3. Atomic!recordMTUResult(S, t, r) = recordMTUResult(S, t, r)
  <2> DEFINE D == Delete(S, "mtuState", t)
             E == SetOrDelete(D, "mtuBytes", t, r.mtu, Val(r))
  <2>1. Atomic!Delete(S, "mtuState", t) = D
    BY AtomicWith, Zenon
  <2>2. Atomic!SetOrDelete(D, "mtuBytes", t, r.mtu, Val(r)) = E
    BY AtomicWith, Zenon
  <2>3. Atomic!With(E, "mtuState", t, r.mtuState, One) = With(E, "mtuState", t, r.mtuState, One)
    BY AtomicWith, Zenon
  <2> QED
    BY <2>1, <2>2, <2>3, AtomicValues, Zenon DEF Atomic!recordMTUResult, recordMTUResult
<1> QED
  BY <1>1, <1>2, <1>3

LEMMA AtomicByType ==
    ASSUME NEW S, NEW t, NEW r
    PROVE  Atomic!recordByType(S, t, r) = recordByType(S, t, r)
<1> DEFINE v == Val(r)
           http == SetOrDelete(S, "httpStatus", t, r.http, v)
           tls == IF t.emitCert THEN recordTLSResult(http, t, r) ELSE clearTLSResult(http, t)
           ofHTTP == SetOrDelete(tls, "truncated", t, r.trunc, v)
           loss == With(S, "packetLoss", t, NoLabel, v)
           avg == recordICMPAvgRTT(loss, t, r)
           ofICMP == recordICMPStddevRTT(avg, t, r)
           mtu == recordMTUResult(S, t, r)
           ofMTU == recordICMPAvgRTT(mtu, t, r)
           time == With(S, "dnsTime", t, NoLabel, v)
           ofDNS == SetOrDelete(time, "dnsMatch", t, r.dnsEval, v)
           body == SetOrDelete(S, "bodyMatch", t, r.bodyEval, v)
           ofBody == SetOrDelete(body, "httpStatus", t, r.http, v)
           ofCert == recordTLSResult(S, t, r)
           Of(a, b, c, d, e, f) ==
             CASE t.type = "http" -> a [] t.type = "icmp" -> b [] t.type = "mtu" -> c
               [] t.type = "dns" -> d [] t.type = "tls_cert" -> e [] t.type = "http_body" -> f
               [] t.type \in {"tcp", "proxy_connect"} -> S
<1>1. /\ Atomic!SetOrDelete(S, "httpStatus", t, r.http, v) = http
      /\ (IF t.emitCert THEN Atomic!recordTLSResult(http, t, r) ELSE Atomic!clearTLSResult(http, t)) = tls
      /\ Atomic!SetOrDelete(tls, "truncated", t, r.trunc, v) = ofHTTP
  BY AtomicWith, AtomicTLS, Zenon
<1>2. /\ Atomic!With(S, "packetLoss", t, NoLabel, v) = loss
      /\ Atomic!recordICMPAvgRTT(loss, t, r) = avg
      /\ Atomic!recordICMPStddevRTT(avg, t, r) = ofICMP
  BY AtomicWith, AtomicICMP, Zenon
<1>3. Atomic!recordMTUResult(S, t, r) = mtu /\ Atomic!recordICMPAvgRTT(mtu, t, r) = ofMTU
  BY AtomicICMP, Zenon
<1>4. /\ Atomic!With(S, "dnsTime", t, NoLabel, v) = time
      /\ Atomic!SetOrDelete(time, "dnsMatch", t, r.dnsEval, v) = ofDNS
  BY AtomicWith, Zenon
<1>5. /\ Atomic!SetOrDelete(S, "bodyMatch", t, r.bodyEval, v) = body
      /\ Atomic!SetOrDelete(body, "httpStatus", t, r.http, v) = ofBody
  BY AtomicWith, Zenon
<1>6. Atomic!recordTLSResult(S, t, r) = ofCert
  BY AtomicTLS, Zenon
<1>7. recordByType(S, t, r) = Of(ofHTTP, ofICMP, ofMTU, ofDNS, ofCert, ofBody)
  BY Zenon DEF recordByType
<1>8. Atomic!NoLabel = NoLabel /\ Atomic!Val(r) = v
  BY AtomicLabels, AtomicValues, Zenon
<1> HIDE DEF v, http, tls, ofHTTP, loss, avg, ofICMP, mtu, ofMTU, time, ofDNS, body, ofBody, ofCert
<1>9. Atomic!recordByType(S, t, r) = Of(ofHTTP, ofICMP, ofMTU, ofDNS, ofCert, ofBody)
  BY <1>1, <1>2, <1>3, <1>4, <1>5, <1>6, <1>8 DEF Atomic!recordByType
<1> QED
  BY <1>7, <1>9

LEMMA AtomicRecorded ==
    ASSUME NEW S, NEW t, NEW r
    PROVE  Atomic!recordByType(
              Atomic!recordPhases(
                Atomic!recordProxyConnect(Atomic!recordCommon(S, t, r), t, r), t, r), t, r)
             = Recorded(S, t, r)
<1> DEFINE A == recordCommon(S, t, r)
           B == recordProxyConnect(A, t, r)
           C == recordPhases(B, t, r)
<1>1. Atomic!recordCommon(S, t, r) = A
  BY AtomicWith, AtomicLabels, AtomicValues, Zenon DEF Atomic!recordCommon, recordCommon
<1>2. Atomic!recordProxyConnect(A, t, r) = B
  BY AtomicWith, AtomicValues, Zenon DEF Atomic!recordProxyConnect, recordProxyConnect
<1>3. Atomic!recordPhases(B, t, r) = C
  BY AtomicLabels, AtomicValues, Zenon
     DEF Atomic!recordPhases, recordPhases, Atomic!AllPhases, AllPhases
<1>4. Recorded(S, t, r) = recordByType(C, t, r)
  BY DEF Recorded
<1> HIDE DEF A, B, C
<1> QED
  BY <1>1, <1>2, <1>3, <1>4, AtomicByType

LEMMA AtomicLife ==
    ASSUME NEW S, NEW t
    PROVE  /\ Atomic!proxyInfo(t) = proxyInfo(t)
           /\ Atomic!ensureCounter(
                Atomic!With(Atomic!With(S, "timeout", t, Atomic!NoLabel, Atomic!ConfigVal),
                            "interval", t, Atomic!NoLabel, Atomic!ConfigVal), t)
                \union (IF t.proxy # None THEN {Atomic!proxyInfo(t)} ELSE {})
                = EnsuredSeries(S, t)
           /\ Atomic!deleteTargetProxyInfo(
                {s \in S : ~(s.fam \in Atomic!deletedFamilies /\ s.key = Atomic!buildLabels(t))}, t)
                = DeletedSeries(S, t)
<1>1. Atomic!proxyInfo(t) = proxyInfo(t)
  BY AtomicLabels, AtomicValues, Zenon DEF Atomic!proxyInfo, proxyInfo
<1>2. \A X : Atomic!ensureCounter(X, t) = ensureCounter(X, t)
  BY AtomicWith, AtomicLabels, AtomicValues, Zenon DEF Atomic!ensureCounter, ensureCounter
<1>3. \A X : Atomic!deleteTargetProxyInfo(X, t) = deleteTargetProxyInfo(X, t)
  BY <1>1, AtomicLabels, Zenon DEF Atomic!deleteTargetProxyInfo, deleteTargetProxyInfo
<1>4. Atomic!deletedFamilies = deletedFamilies
  BY Zenon DEF Atomic!deletedFamilies, deletedFamilies
<1>5. Atomic!With(Atomic!With(S, "timeout", t, Atomic!NoLabel, Atomic!ConfigVal),
                  "interval", t, Atomic!NoLabel, Atomic!ConfigVal)
        = With(With(S, "timeout", t, NoLabel, ConfigVal), "interval", t, NoLabel, ConfigVal)
  BY AtomicLabels, AtomicValues, AtomicWith, Zenon
<1>6. Atomic!ensureCounter(
        Atomic!With(Atomic!With(S, "timeout", t, Atomic!NoLabel, Atomic!ConfigVal),
                    "interval", t, Atomic!NoLabel, Atomic!ConfigVal), t)
        \union (IF t.proxy # None THEN {Atomic!proxyInfo(t)} ELSE {})
        = EnsuredSeries(S, t)
  BY <1>1, <1>2, <1>5, Zenon DEF EnsuredSeries
<1>7. Atomic!deleteTargetProxyInfo(
        {s \in S : ~(s.fam \in Atomic!deletedFamilies /\ s.key = Atomic!buildLabels(t))}, t)
        = DeletedSeries(S, t)
  BY <1>3, <1>4, AtomicLabels, Zenon DEF DeletedSeries
<1> QED
  BY <1>1, <1>6, <1>7

----------------------------------------------------------------------------
(* The exposition is exact, and the calls take effect as a whole *)

\* Exact is what Metrics says of the exposition.
LEMMA ExactIsExposition ==
    ASSUME Registered(active, last), Exact(Completed, active, last, skipped)
    PROVE  Atomic!ExactExposition
<1> DEFINE C == Completed
<1>0. /\ \A t : Atomic!buildLabels(t) = buildLabels(t) /\ Atomic!proxyInfo(t) = proxyInfo(t)
      /\ \A t, r : Atomic!Emitted(t, r) = Emitted(t, r)
      /\ \A t : Atomic!ConfigSeries(t) = {<<f, NoLabel>> : f \in ConfigFamilies}
      /\ Atomic!ConfigVal = ConfigVal /\ \A n : Atomic!Count(n) = Count(n)
      /\ \A r : Atomic!Val(r) = Val(r)
  BY AtomicLabels, AtomicValues, AtomicEmitted, AtomicLife, Zenon
     DEF Atomic!ConfigSeries, ConfigFamilies
<1>1. \A s : s \in C <=> \E t \in active : Belongs(s, t, last[t], skipped[t])
  BY DEF Exact
<1>2. \A t \in active : t.labels # NoLabel /\ (last[t] # None => ResultOf(t, last[t]))
  BY RegisteredResults
<1> HIDE DEF C
<1>3. ASSUME NEW t \in active
      PROVE  {<<s.fam, s.sub>> : s \in {x \in C : x.key = buildLabels(t)}}
               = {<<f, NoLabel>> : f \in ConfigFamilies}
                   \union (IF last[t] = None THEN {} ELSE Emitted(t, last[t]))
  <2>1. ASSUME NEW s \in C, s.key = buildLabels(t)
        PROVE  \/ \E f \in ConfigFamilies : <<s.fam, s.sub>> = <<f, NoLabel>>
               \/ last[t] # None /\ <<s.fam, s.sub>> \in Emitted(t, last[t])
    <3>1. PICK u \in active : Belongs(s, u, last[u], skipped[u])
      BY <1>1
    <3>2. s.key[1] = u.name /\ s.key[1] = t.name
      BY <1>2, <2>1, <3>1, BelongsShape DEF buildLabels
    <3>3. u = t
      BY <3>2 DEF Registered
    <3>4. CASE s.fam \in ConfigFamilies
      <4>1. s.sub = NoLabel
        BY <1>2, <3>1, <3>4, BelongsShape DEF ConfigOf
      <4> QED
        BY <3>4, <4>1
    <3>5. CASE s.fam = "proxyInfo"
      <4>1. s = proxyInfo(t)
        BY <1>2, <3>1, <3>3, <3>5, BelongsShape
      <4>2. s.key = <<t.name, NoLabel>> /\ t.labels # NoLabel
        BY <1>2, <4>1 DEF proxyInfo
      <4> QED
        BY <2>1, <4>2 DEF buildLabels
    <3>6. CASE s.fam \notin ConfigFamilies \union {"proxyInfo"}
      <4>1. last[t] # None /\ \E e \in Emitted(t, last[t]) : s = Series(t, last[t], e)
        BY <1>2, <3>1, <3>3, <3>6, BelongsShape
      <4>2. PICK e \in Emitted(t, last[t]) : s = Series(t, last[t], e)
        BY <4>1
      <4>3. e = <<s.fam, s.sub>>
        BY <1>2, <4>1, <4>2, EmittedPairs DEF Series
      <4> QED
        BY <4>1, <4>3
    <3> QED
      BY <3>4, <3>5, <3>6
  <2>2. ASSUME NEW f \in ConfigFamilies
        PROVE  \E s \in C : s.key = buildLabels(t) /\ <<s.fam, s.sub>> = <<f, NoLabel>>
    <3>1. PICK v : Belongs(ConfigOf(t, f, v), t, last[t], skipped[t])
      BY DEF Belongs, ConfigFamilies
    <3>2. ConfigOf(t, f, v) \in C
      BY <1>1, <3>1
    <3> QED
      BY <3>2 DEF ConfigOf
  <2>3. ASSUME last[t] # None, NEW e \in Emitted(t, last[t])
        PROVE  \E s \in C : s.key = buildLabels(t) /\ <<s.fam, s.sub>> = e
    <3>1. Series(t, last[t], e) \in C
      BY <1>1, <2>3 DEF Belongs
    <3>2. e = <<e[1], e[2]>>
      BY <1>2, <2>3, EmittedPairs
    <3> QED
      BY <3>1, <3>2 DEF Series
  <2> QED
    BY <2>1, <2>2, <2>3
<1>4. ASSUME NEW s \in C
      PROVE  IF s.fam = "proxyInfo"
               THEN \E t \in active : t.proxy # None /\ s = proxyInfo(t)
               ELSE \E t \in active :
                       /\ s.key = buildLabels(t)
                       /\ s.fam \in {"timeout", "interval"} => s.val = ConfigVal
                       /\ s.fam = "overlap" => s.val = Count(skipped[t])
                       /\ s.fam \notin {"timeout", "interval", "overlap", "mtuState"}
                            => s.val = Val(last[t])
  <2>1. PICK t \in active : Belongs(s, t, last[t], skipped[t])
    BY <1>1
  <2>2. /\ s.fam = "proxyInfo" => t.proxy # None /\ s = proxyInfo(t)
        /\ s.fam # "proxyInfo" => s.key = buildLabels(t)
        /\ s.fam \notin ConfigFamilies \union {"proxyInfo"} =>
             last[t] # None /\ \E e \in Emitted(t, last[t]) : s = Series(t, last[t], e)
        /\ s.fam \in ConfigFamilies =>
             s = ConfigOf(t, s.fam, IF s.fam = "overlap" THEN Count(skipped[t]) ELSE ConfigVal)
    BY <1>2, <2>1, BelongsShape
  <2>3. CASE s.fam = "proxyInfo"
    BY <2>2, <2>3
  <2>4. CASE s.fam # "proxyInfo"
    <3>1. s.fam \in ConfigFamilies => s.val = IF s.fam = "overlap" THEN Count(skipped[t]) ELSE ConfigVal
      BY <2>2 DEF ConfigOf
    <3>2. s.fam \notin ConfigFamilies /\ s.fam # "mtuState" => s.val = Val(last[t])
      BY <2>2, <2>4 DEF Series, ValueOf
    <3> QED
      BY <2>2, <2>4, <3>1, <3>2 DEF ConfigFamilies
  <2> QED
    BY <2>3, <2>4
<1>5. \A t \in active : t.proxy # None => proxyInfo(t) \in C
  BY <1>1 DEF Belongs
<1> QED
  BY <1>0, <1>3, <1>4, <1>5, Zenon DEF Atomic!ExactExposition, C

\* Once the calls under way have ended /metrics is exactly what the latest
\* results observed, for any targets and results and every interleaving in which
\* no target is deleted during its Record (metrics.go:295-542).
THEOREM ExpositionExact == StepSpec => []ExactWhenDone
<1>1. StepInv => ExactWhenDone
  BY ExactIsExposition DEF StepInv, ExactWhenDone
<1> QED
  BY <1>1, StepInvariant, PTL

LEMMA AtomicCardinality == \A S : Atomic!Cardinality(S) = Cardinality(S)
BY Zenon DEF Atomic!Cardinality, Cardinality

\* Entering EnsureTarget is the EnsureTarget step of Metrics.
LEMMA AtomicEnsure ==
    ASSUME StepInv, NEW t \in Targets, EnsureBegin(t)
    PROVE  Atomic!EnsureTarget(t)
<1>1. Completed' = EnsuredSeries(Completed, t)
  BY EnsureBeginKeeps
<1>2. /\ registry = "ok" /\ \A u \in active : u.name # t.name
      /\ active \union {t} \in Together
      /\ active' = active \union {t}
      /\ last' = [u \in active' |-> IF u = t THEN None ELSE last[u]]
      /\ skipped' = [u \in active' |-> IF u = t THEN 0 ELSE skipped[u]]
      /\ registry' = registry
  BY DEF EnsureBegin
<1>3. t \notin active
  BY <1>2
<1>4. Cardinality(active) < MaxActive
  <2>1. IsFiniteSet(active \union {t}) /\ Cardinality(active \union {t}) <= MaxActive
    BY <1>2, TogetherAssumption
  <2>2. IsFiniteSet(active) /\ Cardinality(active) \in Nat
    <3>1. active \subseteq active \union {t}
      OBVIOUS
    <3> QED
      BY <2>1, <3>1, FS_Subset, FS_CardinalityType
  <2>3. Cardinality(active \union {t}) = Cardinality(active) + 1
    BY <1>3, <2>2, FS_AddElement
  <2> QED
    BY <2>1, <2>2, <2>3, ActiveAssumption
<1>5. Completed' =
        Atomic!ensureCounter(
          Atomic!With(Atomic!With(Completed, "timeout", t, Atomic!NoLabel, Atomic!ConfigVal),
                      "interval", t, Atomic!NoLabel, Atomic!ConfigVal), t)
          \union (IF t.proxy # None THEN {Atomic!proxyInfo(t)} ELSE {})
  BY <1>1, AtomicLife
<1> QED
  BY <1>2, <1>3, <1>4, <1>5, AtomicCardinality, Zenon DEF Atomic!EnsureTarget

\* Entering DeleteTarget is the DeleteTarget step of Metrics.
LEMMA AtomicDeletes ==
    ASSUME StepInv, NEW t \in Targets, DeleteUndisturbed(t)
    PROVE  Atomic!DeleteTarget(t)
<1>1. Completed' = DeletedSeries(Completed, t)
  BY DeleteBeginKeeps
<1>2. Completed' =
        Atomic!deleteTargetProxyInfo(
          {s \in Completed : ~(s.fam \in Atomic!deletedFamilies /\ s.key = Atomic!buildLabels(t))}, t)
  BY <1>1, AtomicLife
<1>3. /\ t \in active /\ active' = active \ {t}
      /\ last' = [u \in active' |-> last[u]] /\ skipped' = [u \in active' |-> skipped[u]]
      /\ registry' = registry
  BY DEF DeleteUndisturbed, DeleteBegin
<1> QED
  BY <1>2, <1>3, Zenon DEF Atomic!DeleteTarget

\* Entering Record is the Record step of Metrics.
LEMMA AtomicRecords ==
    ASSUME StepInv, NEW t \in Targets, NEW r \in Results(t.type), RecordBegin(t, r)
    PROVE  Atomic!Record(t, r)
<1>1. Completed' = Recorded(Completed, t, r)
  BY RecordBeginKeeps
<1>2. Completed' =
        Atomic!recordByType(
          Atomic!recordPhases(
            Atomic!recordProxyConnect(Atomic!recordCommon(Completed, t, r), t, r), t, r), t, r)
  BY <1>1, AtomicRecorded
<1>3. /\ t \in active /\ last' = [last EXCEPT ![t] = r]
      /\ registry' = registry /\ active' = active /\ skipped' = skipped
  BY DEF RecordBegin
<1> QED
  BY <1>2, <1>3, Zenon DEF Atomic!Record

\* IncrSkippedOverlap is the step of the same name of Metrics.
LEMMA AtomicOverlap ==
    ASSUME StepInv, NEW t \in Targets, OverlapStep(t)
    PROVE  Atomic!IncrSkippedOverlap(t)
<1> DEFINE c == ConfigOf(t, "overlap", Count(skipped[t]))
<1>1. /\ c \in Completed
      /\ Completed' = With(Completed, "overlap", t, NoLabel, Count(skipped[t] + 1))
  BY OverlapStepKeeps
<1>2. c.fam = "overlap" /\ c.key = buildLabels(t) /\ c.val[2] = skipped[t]
  BY DEF ConfigOf, Count
<1>3. /\ c.key = Atomic!buildLabels(t)
      /\ Completed' =
           Atomic!With(Completed, "overlap", t, Atomic!NoLabel, Atomic!Count(c.val[2] + 1))
  <2> HIDE DEF c
  <2>1. Atomic!With(Completed, "overlap", t, Atomic!NoLabel, Atomic!Count(skipped[t] + 1))
          = With(Completed, "overlap", t, NoLabel, Count(skipped[t] + 1))
    BY AtomicLabels, AtomicValues, AtomicWith, Zenon
  <2>2. c.key = Atomic!buildLabels(t)
    BY <1>2, AtomicLabels, Zenon
  <2> QED
    BY <1>1, <1>2, <2>1, <2>2, Zenon
<1>4. /\ t \in active /\ skipped[t] < MaxOverlap
      /\ skipped' = [skipped EXCEPT ![t] = @ + 1]
      /\ registry' = registry /\ active' = active /\ last' = last
  BY DEF OverlapStep, IncrSkippedOverlap
<1> HIDE DEF c
<1> QED
  BY <1>1, <1>2, <1>3, <1>4 DEF Atomic!IncrSkippedOverlap

\* The initial states are those of Metrics.
LEMMA AtomicInit == StepInit => Atomic!ExporterInit
<1> SUFFICES ASSUME StepInit PROVE Atomic!ExporterInit
  OBVIOUS
<1>1. Exact(Completed, {}, last, skipped)
  BY StepInvInit DEF StepInv, StepInit, ExporterInit
<1>2. \A s : s \notin Completed
  BY <1>1 DEF Exact
<1>3. Completed = {}
  BY <1>2
<1>4. /\ registry = "none" /\ active = {}
      /\ last = [t \in {} |-> None] /\ skipped = [t \in {} |-> 0]
  BY DEF StepInit, ExporterInit
<1> QED
  BY <1>3, <1>4, Zenon DEF Atomic!ExporterInit

\* Every operation is a step of Metrics or leaves its state alone.
LEMMA AtomicNext ==
    StepInv /\ [StepNext]_stepVars => [Atomic!ExporterNext]_(Atomic!exporterVars)
<1> SUFFICES ASSUME StepInv, [StepNext]_stepVars
             PROVE  [Atomic!ExporterNext]_(Atomic!exporterVars)
  OBVIOUS
<1>1. CASE UNCHANGED stepVars
  <2>1. UNCHANGED <<registry, series, active, last, skipped, recOps, mainOps, ensuring, prev>>
    BY <1>1 DEF stepVars, exporterVars
  <2>2. Completed' = Completed
    BY <2>1, StepStutters
  <2> QED
    BY <2>1, <2>2 DEF Atomic!exporterVars
<1>2. ASSUME NEW keys \in TagKeySets, NewMetricsExporter(keys),
             UNCHANGED <<recOps, mainOps, ensuring, prev>>
      PROVE  Atomic!ExporterNext
  <2>1. UNCHANGED <<series, active, last, skipped, recOps, mainOps, ensuring, prev>>
    BY <1>2 DEF NewMetricsExporter
  <2>2. Completed' = Completed
    BY <2>1, StepStutters
  <2>3. Atomic!FixedLabels = FixedLabels /\ Atomic!extraLabels = extraLabels
    BY Zenon DEF Atomic!FixedLabels, FixedLabels, Atomic!baseLabels, baseLabels,
                 Atomic!extraLabels, extraLabels
  <2>4. Atomic!NewMetricsExporter(keys)
    BY <1>2, <2>1, <2>2, <2>3, Zenon DEF NewMetricsExporter, Atomic!NewMetricsExporter
  <2> QED
    BY <2>4, Zenon DEF Atomic!ExporterNext
<1>3. ASSUME NEW t \in Targets PROVE
        /\ EnsureBegin(t) => Atomic!ExporterNext
        /\ DeleteUndisturbed(t) => Atomic!ExporterNext
        /\ OverlapStep(t) => Atomic!ExporterNext
        /\ \A r \in Results(t.type) : RecordBegin(t, r) => Atomic!ExporterNext
  <2>1. EnsureBegin(t) => Atomic!EnsureTarget(t)
    BY AtomicEnsure
  <2>2. DeleteUndisturbed(t) => Atomic!DeleteTarget(t)
    BY AtomicDeletes
  <2>3. OverlapStep(t) => Atomic!IncrSkippedOverlap(t)
    BY AtomicOverlap
  <2>4. \A r \in Results(t.type) : RecordBegin(t, r) => Atomic!Record(t, r)
    BY AtomicRecords
  <2> QED
    BY <2>1, <2>2, <2>3, <2>4, Zenon DEF Atomic!ExporterNext
<1>4. CASE MainStep
  <2>1. Completed' = Completed
    BY <1>4, MainStepKeeps
  <2> QED
    BY <1>4, <2>1 DEF MainStep, Atomic!exporterVars
<1>5. ASSUME NEW t \in Targets, RecordStep(t)
      PROVE  UNCHANGED Atomic!exporterVars
  <2>1. Completed' = Completed
    BY <1>5, RecordStepKeeps
  <2> QED
    BY <1>5, <2>1 DEF RecordStep, Atomic!exporterVars
<1> QED
  BY <1>1, <1>2, <1>3, <1>4, <1>5 DEF StepNext

\* The interleaved vector operations of Record, EnsureTarget and DeleteTarget
\* (metrics.go:295-542) implement Metrics, in which each call is one step, as long
\* as no target is deleted during its Record.
THEOREM CallsAreAtomic == StepSpec => ImplementsMetrics
<1>1. StepInit => Atomic!ExporterInit
  BY AtomicInit
<1>2. StepInv /\ [StepNext]_stepVars => [Atomic!ExporterNext]_(Atomic!exporterVars)
  BY AtomicNext
<1> QED
  BY <1>1, <1>2, StepInvariant, PTL DEF StepSpec, ImplementsMetrics, Atomic!ExporterSpec

----------------------------------------------------------------------------
(* What a scrape reads *)

\* The series of a target that its results make.
Own(s, t) == s.key = buildLabels(t) /\ s.fam \notin ConfigFamilies
SeriesOf(t, r) == {s \in {Series(t, r, e) : e \in Emitted(t, r)} : r # None}

\* Of a family the vectors S hold series of the result new, or only series of
\* the result old that the operations q replace or remove before they set one.
OneResult(S, q, t, new, old, f) ==
    \/ \A s \in S : Own(s, t) /\ s.fam = f => s \in SeriesOf(t, new)
    \/ \A s \in S : Own(s, t) /\ s.fam = f =>
          /\ s \in SeriesOf(t, old)
          /\ \A k \in 1..Len(q) : q[k].op = "set" /\ q[k].fam = f =>
                \E j \in 1..k : Touches(q[j], s)

Present(S, t, e) == \E s \in S : s.fam = e[1] /\ s.key = buildLabels(t) /\ s.sub = e[2]

\* q is what is left of recording new after old.
Scraped(S, q, t, new, old) ==
    /\ ResultOf(t, new) /\ new # None /\ (old # None => ResultOf(t, old))
    /\ IsSeq(q) /\ \A o \in Elems(q) : Records(o, t, new)
    /\ \A f : OneResult(S, q, t, new, old, f)
    /\ old # None => \A e \in Emitted(t, new) \intersect Emitted(t, old) :
                        e[1] \notin Cleared => Present(S, t, e)

\* The series of a result have the form their families have.
LEMMA OwnSeries ==
    ASSUME NEW t, NEW r, ResultOf(t, r), NEW s \in SeriesOf(t, r)
    PROVE  Own(s, t) /\ Shape(s, t, s.fam)
<1>1. PICK e \in Emitted(t, r) : s = Series(t, r, e)
  BY DEF SeriesOf
<1>2. s.fam = e[1] /\ s.sub = e[2] /\ s.key = buildLabels(t)
  BY <1>1 DEF Series
<1>3. r.phases \subseteq AllPhases
  BY DEF ResultOf
<1> QED
  BY <1>2, <1>3, EmittedPairs, FamilyNames DEF Own, Shape

\* The series of t in S and T are the same.
Alike(S, T, t) == \A s : Own(s, t) => (s \in S <=> s \in T)

\* Operations on other targets do not matter to a scrape of this one.
LEMMA ScrapedSame ==
    ASSUME NEW S, NEW T, NEW q, NEW t, NEW new, NEW old,
           Scraped(S, q, t, new, old), Alike(S, T, t)
    PROVE  Scraped(T, q, t, new, old)
<1>1. ASSUME NEW f PROVE OneResult(T, q, t, new, old, f)
  <2>1. OneResult(S, q, t, new, old, f)
    BY DEF Scraped
  <2> QED
    BY <2>1 DEF OneResult, Alike
<1>2. ASSUME NEW e \in Emitted(t, new), Present(S, t, e) PROVE Present(T, t, e)
  <2>1. PICK s \in S : s.fam = e[1] /\ s.key = buildLabels(t) /\ s.sub = e[2]
    BY <1>2 DEF Present
  <2>2. Own(s, t)
    BY <2>1, EmittedPairs, FamilyNames DEF Own, Scraped
  <2> QED
    BY <2>1, <2>2 DEF Present, Alike
<1> QED
  BY <1>1, <1>2 DEF Scraped

\* One operation of a Record: what it sets is of the new result and replaces
\* the last series of the old one in its family; what it deletes is no series
\* that both results have.
LEMMA ScrapedStep ==
    ASSUME NEW S, NEW q, NEW t, NEW new, NEW old, Scraped(S, q, t, new, old), q # <<>>
    PROVE  Scraped(Perform(S, Head(q)), Tail(q), t, new, old)
<1> DEFINE o == Head(q)
           r == Tail(q)
           T == Perform(S, o)
<1>1. /\ IsSeq(r) /\ Elems(r) \subseteq Elems(q) /\ o \in Elems(q)
      /\ Len(q) = Len(r) + 1 /\ o = q[1] /\ \A i \in 1..Len(r) : r[i] = q[i + 1]
  BY TailSeq DEF Scraped
<1>2. Len(r) \in Nat
  BY <1>1, SeqDomain
<1> HIDE DEF o, r
<1>3. Records(o, t, new) /\ o.op \in {"set", "delete", "deleteAll", "ensure"}
  BY <1>1 DEF Scraped, Records
<1>4. \A s : s \in T <=> \/ s \in S /\ ~Touches(o, s)
                         \/ o.op = "set" /\ s = Written(o)
  <2>1. o.op # "ensure"
    BY <1>3 DEF Records
  <2> QED
    BY <1>3, <2>1, PerformElement
<1> HIDE DEF T
<1>5. /\ Written(o).fam = o.fam /\ Written(o).key = o.key
      /\ Written(o).sub = o.sub /\ Written(o).val = o.val
  BY WrittenFields
<1>6. o.op = "set" => Written(o) \in SeriesOf(t, new)
  <2> SUFFICES ASSUME o.op = "set" PROVE Written(o) \in SeriesOf(t, new)
    OBVIOUS
  <2> DEFINE e == <<o.fam, o.sub>>
  <2>1. e \in Emitted(t, new) /\ o.val = ValueOf(new, o.fam) /\ o.key = buildLabels(t)
    BY <1>3 DEF Records
  <2>2. Written(o) = Series(t, new, e)
    BY <2>1 DEF Written, Series
  <2> HIDE DEF e
  <2> QED
    BY <2>1, <2>2 DEF SeriesOf, Scraped
<1>7. ASSUME NEW f PROVE OneResult(T, r, t, new, old, f)
  <2>0. OneResult(S, q, t, new, old, f)
    BY DEF Scraped
  <2>1. CASE \A s \in S : Own(s, t) /\ s.fam = f => s \in SeriesOf(t, new)
    <3>1. \A s \in T : Own(s, t) /\ s.fam = f => s \in SeriesOf(t, new)
      BY <1>4, <1>6, <2>1
    <3> QED
      BY <3>1 DEF OneResult
  <2>2. CASE \A s \in S : Own(s, t) /\ s.fam = f =>
               /\ s \in SeriesOf(t, old)
               /\ \A k \in 1..Len(q) : q[k].op = "set" /\ q[k].fam = f =>
                     \E j \in 1..k : Touches(q[j], s)
    <3>1. CASE o.op = "set" /\ o.fam = f
      <4>1. ASSUME NEW s \in S, Own(s, t), s.fam = f PROVE Touches(o, s)
        <5>1. 1 \in 1..Len(q) /\ q[1].op = "set" /\ q[1].fam = f
          BY <1>1, <1>2, <3>1
        <5>2. \E j \in 1..1 : Touches(q[j], s)
          BY <2>2, <4>1, <5>1
        <5> QED
          BY <1>1, <5>2
      <4>2. \A s \in T : Own(s, t) /\ s.fam = f => s \in SeriesOf(t, new)
        BY <1>4, <1>6, <4>1
      <4> QED
        BY <4>2 DEF OneResult
    <3>2. CASE ~(o.op = "set" /\ o.fam = f)
      <4>1. ASSUME NEW s \in T, Own(s, t), s.fam = f
            PROVE  /\ s \in SeriesOf(t, old)
                   /\ \A k \in 1..Len(r) : r[k].op = "set" /\ r[k].fam = f =>
                         \E j \in 1..k : Touches(r[j], s)
        <5>1. s \in S /\ ~Touches(o, s)
          BY <1>4, <1>5, <3>2, <4>1
        <5>2. ASSUME NEW k \in 1..Len(r), r[k].op = "set", r[k].fam = f
              PROVE  \E j \in 1..k : Touches(r[j], s)
          <6>1. k + 1 \in 1..Len(q) /\ q[k + 1] = r[k]
            BY <1>1, <1>2
          <6>2. PICK j \in 1..(k + 1) : Touches(q[j], s)
            BY <2>2, <4>1, <5>1, <5>2, <6>1
          <6>3. j # 1
            BY <1>1, <5>1, <6>2
          <6>4. j - 1 \in 1..k /\ j - 1 \in 1..Len(r) /\ (j - 1) + 1 = j
            BY <1>2, <6>3
          <6>5. r[j - 1] = q[j]
            BY <1>1, <6>4
          <6> QED
            BY <6>2, <6>4, <6>5
        <5> QED
          BY <2>2, <4>1, <5>1, <5>2
      <4> QED
        BY <4>1 DEF OneResult
    <3> QED
      BY <3>1, <3>2
  <2> QED
    BY <2>0, <2>1, <2>2 DEF OneResult
<1>8. ASSUME old # None, NEW e \in Emitted(t, new) \intersect Emitted(t, old), e[1] \notin Cleared
      PROVE  Present(T, t, e)
  <2>1. PICK s \in S : s.fam = e[1] /\ s.key = buildLabels(t) /\ s.sub = e[2]
    BY <1>8 DEF Scraped, Present
  <2>2. e[2] = NoLabel /\ e = <<e[1], NoLabel>>
    <3>1. ResultOf(t, new)
      BY DEF Scraped
    <3>2. e = <<e[1], e[2]>> /\ (e[1] \notin Labelled => e[2] = NoLabel) /\ e[1] \in Families(t)
      BY <3>1, EmittedPairs
    <3>3. e[1] \notin Labelled
      BY <1>8, <3>2, FamilyNames DEF Labelled, Cleared
    <3> QED
      BY <3>2, <3>3
  <2>3. CASE ~Touches(o, s)
    BY <1>4, <2>1, <2>3 DEF Present
  <2>4. CASE Touches(o, s) /\ o.op = "set"
    <3>1. Written(o) \in T
      BY <1>4, <2>4
    <3>2. o.fam = e[1] /\ o.key = buildLabels(t) /\ o.sub = e[2]
      BY <2>1, <2>4 DEF Touches
    <3> QED
      BY <1>5, <3>1, <3>2 DEF Present
  <2>5. CASE Touches(o, s) /\ o.op # "set"
    <3>1. o.fam = e[1]
      BY <2>1, <2>5 DEF Touches
    <3>2. <<o.fam, NoLabel>> \notin Emitted(t, new)
      BY <1>3, <1>8, <2>5, <3>1 DEF Records
    <3> QED
      BY <1>8, <2>2, <3>1, <3>2
  <2> QED
    BY <2>3, <2>4, <2>5
<1>9. \A p \in Elems(r) : Records(p, t, new)
  BY <1>1 DEF Scraped
<1>10. IsSeq(r)
  BY <1>1
<1>11. Scraped(T, r, t, new, old)
  BY <1>7, <1>8, <1>9, <1>10 DEF Scraped
<1> QED
  BY <1>11 DEF T, o, r

\* No Record of t is under way: the series of t are those of its latest result.
Settled(S, t, r) == \A s : Own(s, t) => (s \in S <=> s \in SeriesOf(t, r))

\* When a Record begins the vectors hold what the result before it left.
LEMMA ScrapedBegin ==
    ASSUME NEW S, NEW q, NEW t, NEW new, NEW old, Settled(S, t, old), Recordings(q, t, new),
           ResultOf(t, new), new # None, old # None => ResultOf(t, old)
    PROVE  Scraped(S, q, t, new, old)
<1>1. ASSUME NEW s \in S, Own(s, t)
      PROVE  /\ s \in SeriesOf(t, old)
             /\ \A k \in 1..Len(q) : q[k].op = "set" /\ q[k].fam = s.fam =>
                   \E j \in 1..k : Touches(q[j], s)
  <2>1. s \in SeriesOf(t, old)
    BY <1>1 DEF Settled
  <2>2. Shape(s, t, s.fam)
    BY <2>1, OwnSeries DEF SeriesOf
  <2> QED
    BY <2>1, <2>2 DEF Recordings, Covered
<1>2. \A f : OneResult(S, q, t, new, old, f)
  BY <1>1 DEF OneResult
<1>3. ASSUME old # None, NEW e \in Emitted(t, old) PROVE Present(S, t, e)
  <2>1. Series(t, old, e) \in SeriesOf(t, old)
    BY <1>3 DEF SeriesOf
  <2>2. Own(Series(t, old, e), t)
    BY <1>3, <2>1, OwnSeries
  <2>3. Series(t, old, e) \in S
    BY <2>1, <2>2 DEF Settled
  <2> QED
    BY <2>3 DEF Present, Series
<1>4. IsSeq(q) /\ \A o \in Elems(q) : Records(o, t, new)
  BY DEF Recordings
<1> QED
  BY <1>2, <1>3, <1>4 DEF Scraped

\* Between two Records of a target the vectors hold the series of its latest
\* result, whatever other targets and the main goroutine are doing.
LEMMA QuietIsSettled ==
    ASSUME StepInv, NEW t \in active, recOps[t] = <<>>
    PROVE  Settled(series, t, last[t])
<1>1. PICK n : Main(mainOps, n) /\ \A u \in active : u # ensuring => u.name # n
  BY DEF StepInv, Goroutines
<1>2. /\ Recorders(recOps) /\ t \in Targets /\ t.labels # NoLabel
      /\ last[t] # None => ResultOf(t, last[t])
  BY RegisteredResults DEF StepInv, Goroutines, Registered
<1>3. Apart(recOps, t.name)
  BY DEF StepInv, Goroutines, Registered, Apart
<1> SUFFICES ASSUME NEW s, Own(s, t) PROVE s \in series <=> s \in SeriesOf(t, last[t])
  BY DEF Settled
<1>4. s.key = buildLabels(t) /\ s.key[1] = t.name /\ s.fam \notin ConfigFamilies
  BY DEF Own, buildLabels
<1>5. ~TouchedBy(mainOps, s) /\ s \notin Final(mainOps) /\ \A S : s \notin Ensured(S, mainOps)
  <2>1. CASE t # ensuring
    BY <1>1, <1>4, <2>1, OnSeries DEF Main
  <2>2. CASE t = ensuring
    <3>1. \A o \in Elems(mainOps) : o.key = s.key => o.fam # s.fam
      <4>1. t # None
        BY <1>2, TargetsAssumption
      <4> QED
        BY <1>4, <2>2, <4>1 DEF StepInv, Goroutines
    <3>2. ~TouchedBy(mainOps, s)
      BY <3>1, TouchedElement DEF Touches
    <3>3. s \notin Final(mainOps)
      BY <1>1, <3>1, FinalOfElement, WrittenFields DEF Main, On
    <3>4. \A S : s \notin Ensured(S, mainOps)
      BY <3>1, EnsuredElement, WrittenFields
    <3> QED
      BY <3>2, <3>3, <3>4
  <2> QED
    BY <2>1, <2>2
<1>6. \A u \in Targets : ~TouchedBy(recOps[u], s) /\ s \notin Final(recOps[u])
  BY <1>2, <1>3, <1>4, RecordersOn DEF Apart
<1>7. s \in series <=> s \in Completed
  <2>1. s \in series <=> s \in Done(series, mainOps, recOps)
    BY <1>5, <1>6, DoneElement
  <2> QED
    BY <2>1, CompletedIs
<1>8. s \in Completed <=> Belongs(s, t, last[t], skipped[t])
  <2>1. ASSUME NEW u \in active, Belongs(s, u, last[u], skipped[u]) PROVE u = t
    <3>1. u.labels # NoLabel /\ (last[u] # None => ResultOf(u, last[u]))
      BY RegisteredResults DEF StepInv
    <3>2. s.key[1] = u.name
      BY <2>1, <3>1, BelongsShape
    <3> QED
      BY <1>4, <3>2 DEF StepInv, Registered
  <2> QED
    BY <2>1 DEF StepInv, Exact
<1>9. Belongs(s, t, last[t], skipped[t]) <=> s \in SeriesOf(t, last[t])
  <2>1. s # proxyInfo(t)
    BY <1>2, <1>4 DEF proxyInfo, buildLabels
  <2>2. \A v : /\ s # ConfigOf(t, "timeout", v) /\ s # ConfigOf(t, "interval", v)
               /\ s # ConfigOf(t, "overlap", v)
    BY <1>4 DEF ConfigOf, ConfigFamilies
  <2> QED
    BY <2>1, <2>2 DEF Belongs, SeriesOf
<1> QED
  BY <1>7, <1>8, <1>9

\* The results before the Records under way, and the Records under way.
Before ==
    \A t \in active : /\ prev[t] = None \/ prev[t] \in Results(t.type)
                      /\ recOps[t] = <<>> => prev[t] = last[t]

UnderWay ==
    \A t \in Targets : recOps[t] # <<>> => Scraped(series, recOps[t], t, last[t], prev[t])

ScrapeInv == StepInv /\ Before /\ UnderWay

\* Record performs at least one operation.
LEMMA RecordsSomething ==
    ASSUME NEW t, NEW r, ResultOf(t, r), NEW order \in SetToSeqs(r.phases)
    PROVE  recordOps(t, r, order) # <<>>
<1> DEFINE q == recordOps(t, r, order)
           e == <<"success", NoLabel>>
<1>1. Plain({}) /\ KnownSubs({})
  BY DEF Plain, KnownSubs
<1>2. After({}, q) = Refreshed({}, t, r, Families(t), Emitted(t, r))
  BY <1>1, AfterRecord, RecordedIs
<1>3. e \in Emitted(t, r)
  BY DEF Emitted
<1> HIDE DEF q, e
<1>4. After({}, q) # {}
  BY <1>2, <1>3 DEF Refreshed
<1>5. After({}, <<>>) = {}
  BY AfterNothing
<1> QED
  BY <1>4, <1>5 DEF q

\* An operation on another name leaves the series of t.
LEMMA PerformAlike ==
    ASSUME NEW S, NEW o, o.op \in {"set", "delete", "deleteAll", "ensure"},
           NEW t, o.key[1] # t.name
    PROVE  Alike(S, Perform(S, o), t)
<1> SUFFICES ASSUME NEW s, Own(s, t) PROVE s \in S <=> s \in Perform(S, o)
  BY DEF Alike
<1>1. s.key[1] = t.name
  BY DEF Own, buildLabels
<1>2. ~Touches(o, s) /\ s # Written(o)
  BY <1>1, WrittenFields DEF Touches
<1> QED
  BY <1>2, PerformElement

\* A step that leaves the series of t and its Record alone.
LEMMA ScrapedStays ==
    ASSUME ScrapeInv, NEW t \in Targets, recOps'[t] # <<>>, recOps'[t] = recOps[t],
           last'[t] = last[t], prev'[t] = prev[t], Alike(series, series', t)
    PROVE  Scraped(series', recOps'[t], t, last'[t], prev'[t])
<1> DEFINE T == series'
           q == recOps[t]
<1>1. Scraped(series, q, t, last[t], prev[t])
  BY DEF ScrapeInv, UnderWay
<1>2. Alike(series, T, t)
  OBVIOUS
<1> HIDE DEF T, q
<1>3. Scraped(T, q, t, last[t], prev[t])
  BY <1>1, <1>2, ScrapedSame
<1> QED
  BY <1>3 DEF T, q

LEMMA AlikeSelf == ASSUME NEW S, NEW t PROVE Alike(S, S, t)
BY DEF Alike

\* The main goroutine does not disturb the Records under way.
LEMMA ScrapeMainStep ==
    ASSUME ScrapeInv, MainStep
    PROVE  Before' /\ UnderWay'
<1>1. PICK n : Main(mainOps, n) /\ \A t \in active : t # ensuring => t.name # n
  BY DEF ScrapeInv, StepInv, Goroutines
<1> DEFINE o == Head(mainOps)
<1>2. o.op \in {"set", "delete", "deleteAll", "ensure"} /\ o.key[1] = n
  <2>1. /\ IsSeq(mainOps) /\ mainOps # <<>>
    BY <1>1 DEF Main, On, MainStep
  <2>2. o \in Elems(mainOps) /\ o = mainOps[1] /\ Len(mainOps) = Len(Tail(mainOps)) + 1
        /\ IsSeq(Tail(mainOps))
    BY <2>1, TailSeq
  <2>3. 1 \in 1..Len(mainOps)
    BY <2>2, SeqDomain
  <2> QED
    BY <1>1, <2>2, <2>3 DEF Main, On
<1>3. /\ series' = Perform(series, o) /\ recOps' = recOps /\ last' = last /\ prev' = prev
      /\ active' = active
  BY DEF MainStep
<1>4. Before'
  BY <1>3 DEF ScrapeInv, Before
<1>5. ASSUME NEW t \in Targets, recOps'[t] # <<>>
      PROVE  Scraped(series', recOps'[t], t, last'[t], prev'[t])
  <2>1. t.name # n
    BY <1>1, <1>3, <1>5 DEF ScrapeInv, StepInv, Goroutines
  <2>2. Alike(series, Perform(series, o), t)
    <3> HIDE DEF o
    <3> QED
      BY <1>2, <2>1, PerformAlike
  <2> QED
    BY <1>3, <1>5, <2>2, ScrapedStays
<1> QED
  BY <1>4, <1>5 DEF UnderWay

\* An operation of a Record keeps its own target's series of one result, and
\* leaves those of the others.
LEMMA ScrapeRecordStep ==
    ASSUME ScrapeInv, NEW t \in Targets, RecordStep(t)
    PROVE  Before' /\ UnderWay'
<1>1. /\ recOps[t] # <<>> /\ series' = Perform(series, Head(recOps[t]))
      /\ recOps' = [recOps EXCEPT ![t] = Tail(recOps[t])]
      /\ prev' = IF Tail(recOps[t]) = <<>> THEN [prev EXCEPT ![t] = last[t]] ELSE prev
      /\ active' = active /\ last' = last
  BY DEF RecordStep
<1>2. /\ Recorders(recOps) /\ Registered(active, last) /\ t \in active
      /\ prev = [u \in active |-> prev[u]] /\ recOps = [u \in Targets |-> recOps[u]]
  BY <1>1 DEF ScrapeInv, StepInv, Goroutines, Tables, Recorders
<1>3. /\ recOps'[t] = Tail(recOps[t]) /\ \A u \in Targets : u # t => recOps'[u] = recOps[u]
      /\ \A u \in active : u # t => prev'[u] = prev[u]
      /\ Tail(recOps[t]) = <<>> => prev'[t] = last[t]
      /\ Tail(recOps[t]) # <<>> => prev'[t] = prev[t]
  BY <1>1, <1>2
<1>4. Before'
  <2> SUFFICES ASSUME NEW u \in active
               PROVE  /\ prev'[u] = None \/ prev'[u] \in Results(u.type)
                      /\ recOps'[u] = <<>> => prev'[u] = last[u]
    BY <1>1 DEF Before
  <2>1. CASE u = t
    BY <1>2, <1>3, <2>1 DEF ScrapeInv, Before, Registered
  <2>2. CASE u # t
    <3>1. u \in Targets
      BY <1>2 DEF Registered
    <3> QED
      BY <1>3, <2>2, <3>1 DEF ScrapeInv, Before
  <2> QED
    BY <2>1, <2>2
<1>5. ASSUME NEW u \in Targets, recOps'[u] # <<>>
      PROVE  Scraped(series', recOps'[u], u, last'[u], prev'[u])
  <2>1. CASE u = t
    <3> DEFINE q == recOps[t]
    <3>1. Scraped(series, q, t, last[t], prev[t]) /\ q # <<>>
      BY <1>1 DEF ScrapeInv, UnderWay
    <3>2. recOps'[t] = Tail(q) /\ series' = Perform(series, Head(q))
      BY <1>1, <1>3
    <3>3. last'[t] = last[t] /\ prev'[t] = prev[t]
      BY <1>1, <1>3, <1>5, <2>1
    <3> HIDE DEF q
    <3>4. Scraped(Perform(series, Head(q)), Tail(q), t, last[t], prev[t])
      BY <3>1, ScrapedStep
    <3> QED
      BY <2>1, <3>2, <3>3, <3>4
  <2>2. CASE u # t
    <3>1. recOps'[u] = recOps[u] /\ recOps[u] # <<>> /\ u \in active
      BY <1>3, <1>5, <2>2 DEF ScrapeInv, StepInv, Goroutines
    <3>2. u.name # t.name
      BY <1>1, <1>2, <2>2, <3>1 DEF Recorders
    <3> DEFINE o == Head(recOps[t])
    <3>3. o \in Elems(recOps[t])
      BY <1>1, <1>2, TailSeq DEF Recorders, On
    <3>4. o.op \in {"set", "delete", "deleteAll", "ensure"} /\ o.key[1] # u.name
      BY <1>2, <3>2, <3>3 DEF Recorders, On
    <3>5. Alike(series, Perform(series, o), u)
      <4> HIDE DEF o
      <4> QED
        BY <3>4, PerformAlike
    <3>6. last'[u] = last[u] /\ prev'[u] = prev[u]
      BY <1>1, <1>3, <2>2, <3>1
    <3> QED
      BY <1>1, <1>5, <3>1, <3>5, <3>6, ScrapedStays
  <2> QED
    BY <2>1, <2>2
<1> QED
  BY <1>4, <1>5 DEF UnderWay

\* A Record begins with the series of the result before it.
LEMMA ScrapeRecordBegin ==
    ASSUME ScrapeInv, NEW t \in Targets, NEW r \in Results(t.type), RecordBegin(t, r)
    PROVE  Before' /\ UnderWay'
<1>1. /\ t \in active /\ recOps[t] = <<>>
      /\ \E order \in SetToSeqs(r.phases) : recOps' = [recOps EXCEPT ![t] = recordOps(t, r, order)]
      /\ last' = [last EXCEPT ![t] = r] /\ series' = series /\ prev' = prev /\ active' = active
  BY DEF RecordBegin
<1>2. /\ recOps = [u \in Targets |-> recOps[u]] /\ last = [u \in active |-> last[u]]
      /\ Registered(active, last)
  BY DEF ScrapeInv, StepInv, Goroutines, Tables, Recorders
<1>3. ResultOf(t, r) /\ r # None
  BY ResultTypes
<1>4. recOps'[t] # <<>>
  BY <1>1, <1>2, <1>3, RecordsSomething
<1>5. /\ \A u \in Targets : u # t => recOps'[u] = recOps[u]
      /\ \A u \in active : u # t => last'[u] = last[u]
      /\ last'[t] = r
  BY <1>1, <1>2
<1>6. Before'
  <2> SUFFICES ASSUME NEW u \in active
               PROVE  /\ prev[u] = None \/ prev[u] \in Results(u.type)
                      /\ recOps'[u] = <<>> => prev[u] = last'[u]
    BY <1>1 DEF Before
  <2>1. u \in Targets
    BY <1>2 DEF Registered
  <2> QED
    BY <1>4, <1>5, <2>1 DEF ScrapeInv, Before
<1>7. ASSUME NEW u \in Targets, recOps'[u] # <<>>
      PROVE  Scraped(series', recOps'[u], u, last'[u], prev'[u])
  <2>1. CASE u = t
    <3> DEFINE q == recOps'[t]
               old == last[t]
    <3>1. Recordings(q, t, r)
      BY RecordBeginKeeps DEF ScrapeInv
    <3>2. Settled(series, t, old)
      BY <1>1, QuietIsSettled DEF ScrapeInv
    <3>3. old # None => ResultOf(t, old)
      BY <1>1, <1>2, RegisteredResults
    <3>4. prev'[t] = old
      BY <1>1 DEF ScrapeInv, Before
    <3> HIDE DEF q, old
    <3>5. Scraped(series, q, t, r, old)
      BY <1>3, <3>1, <3>2, <3>3, ScrapedBegin
    <3> QED
      BY <1>1, <1>5, <2>1, <3>4, <3>5 DEF q
  <2>2. CASE u # t
    <3>1. recOps'[u] = recOps[u] /\ u \in active
      BY <1>5, <1>7, <2>2 DEF ScrapeInv, StepInv, Goroutines
    <3>2. last'[u] = last[u] /\ prev'[u] = prev[u] /\ Alike(series, series', u)
      BY <1>1, <1>5, <2>2, <3>1, AlikeSelf
    <3> QED
      BY <1>7, <3>1, <3>2, ScrapedStays
  <2> QED
    BY <2>1, <2>2
<1> QED
  BY <1>6, <1>7 DEF UnderWay

LEMMA ScrapeEnsureBegin ==
    ASSUME ScrapeInv, NEW t \in Targets, EnsureBegin(t)
    PROVE  Before' /\ UnderWay'
<1>1. /\ \A u \in active : u.name # t.name
      /\ active' = active \union {t} /\ series' = series /\ recOps' = recOps
      /\ \A u \in active' : /\ u = t => last'[u] = None /\ prev'[u] = None
                            /\ u # t => last'[u] = last[u] /\ prev'[u] = prev[u]
  BY DEF EnsureBegin
<1>2. Before'
  BY <1>1 DEF ScrapeInv, Before
<1>3. ASSUME NEW u \in Targets, recOps'[u] # <<>>
      PROVE  Scraped(series', recOps'[u], u, last'[u], prev'[u])
  <2>1. u \in active /\ u # t
    BY <1>1, <1>3 DEF ScrapeInv, StepInv, Goroutines
  <2> QED
    BY <1>1, <1>3, <2>1, AlikeSelf, ScrapedStays
<1> QED
  BY <1>2, <1>3 DEF UnderWay

LEMMA ScrapeDeleteBegin ==
    ASSUME ScrapeInv, NEW t \in Targets, DeleteUndisturbed(t)
    PROVE  Before' /\ UnderWay'
<1>1. /\ recOps[t] = <<>>
      /\ active' = active \ {t} /\ series' = series /\ recOps' = recOps
      /\ \A u \in active' : last'[u] = last[u] /\ prev'[u] = prev[u]
  BY DEF DeleteUndisturbed, DeleteBegin
<1>2. Before'
  BY <1>1 DEF ScrapeInv, Before
<1>3. ASSUME NEW u \in Targets, recOps'[u] # <<>>
      PROVE  Scraped(series', recOps'[u], u, last'[u], prev'[u])
  <2>1. u \in active'
    BY <1>1, <1>3 DEF ScrapeInv, StepInv, Goroutines
  <2> QED
    BY <1>1, <1>3, <2>1, AlikeSelf, ScrapedStays
<1> QED
  BY <1>2, <1>3 DEF UnderWay

LEMMA ScrapeOverlapStep ==
    ASSUME ScrapeInv, NEW t \in Targets, OverlapStep(t)
    PROVE  Before' /\ UnderWay'
<1>1. /\ active' = active /\ last' = last /\ prev' = prev /\ recOps' = recOps
      /\ \E v : series' = With(series, "overlap", t, NoLabel, v)
  BY DEF OverlapStep, IncrSkippedOverlap
<1>2. Before'
  BY <1>1 DEF ScrapeInv, Before
<1>3. ASSUME NEW u \in Targets, recOps'[u] # <<>>
      PROVE  Scraped(series', recOps'[u], u, last'[u], prev'[u])
  <2>1. Alike(series, series', u)
    <3>1. PICK v : series' = With(series, "overlap", t, NoLabel, v)
      BY <1>1
    <3>2. \A s : Own(s, u) => s.fam # "overlap"
      BY DEF Own, ConfigFamilies
    <3>3. \A s : s.fam # "overlap" => (s \in With(series, "overlap", t, NoLabel, v) <=> s \in series)
      BY DEF With
    <3> QED
      BY <3>1, <3>2, <3>3 DEF Alike
  <2> QED
    BY <1>1, <1>3, <2>1, ScrapedStays
<1> QED
  BY <1>2, <1>3 DEF UnderWay

LEMMA ScrapeStutters ==
    ASSUME ScrapeInv, UNCHANGED <<series, active, last, recOps, prev>>
    PROVE  Before' /\ UnderWay'
BY DEF ScrapeInv, Before, UnderWay

\* Every step keeps the invariant.
LEMMA ScrapeNext == ScrapeInv /\ [StepNext]_stepVars => ScrapeInv'
<1> SUFFICES ASSUME ScrapeInv, [StepNext]_stepVars PROVE ScrapeInv'
  OBVIOUS
<1>1. StepInv'
  BY StepInvNext DEF ScrapeInv
<1>2. CASE UNCHANGED stepVars
  BY <1>1, <1>2, ScrapeStutters DEF stepVars, exporterVars, ScrapeInv
<1>3. ASSUME NEW keys \in TagKeySets, NewMetricsExporter(keys),
             UNCHANGED <<recOps, mainOps, ensuring, prev>>
      PROVE  ScrapeInv'
  BY <1>1, <1>3, ScrapeStutters DEF NewMetricsExporter, ScrapeInv
<1>4. CASE MainStep
  BY <1>1, <1>4, ScrapeMainStep DEF ScrapeInv
<1>5. ASSUME NEW t \in Targets, EnsureBegin(t) PROVE ScrapeInv'
  BY <1>1, <1>5, ScrapeEnsureBegin DEF ScrapeInv
<1>6. ASSUME NEW t \in Targets, DeleteUndisturbed(t) PROVE ScrapeInv'
  BY <1>1, <1>6, ScrapeDeleteBegin DEF ScrapeInv
<1>7. ASSUME NEW t \in Targets, RecordStep(t) PROVE ScrapeInv'
  BY <1>1, <1>7, ScrapeRecordStep DEF ScrapeInv
<1>8. ASSUME NEW t \in Targets, OverlapStep(t) PROVE ScrapeInv'
  BY <1>1, <1>8, ScrapeOverlapStep DEF ScrapeInv
<1>9. ASSUME NEW t \in Targets, NEW r \in Results(t.type), RecordBegin(t, r) PROVE ScrapeInv'
  BY <1>1, <1>9, ScrapeRecordBegin DEF ScrapeInv
<1> QED
  BY <1>2, <1>3, <1>4, <1>5, <1>6, <1>7, <1>8, <1>9 DEF StepNext

\* At every operation of a Record (metrics.go:295-454) the families of the
\* target hold series of one result, and what is left of the Record removes the
\* older ones before it sets newer ones.
THEOREM ScrapeInvariant == StepSpec => []ScrapeInv
<1>1. StepInit => ScrapeInv
  BY StepInvInit DEF StepInit, ExporterInit, ScrapeInv, Before, UnderWay
<1>2. ScrapeInv /\ [StepNext]_stepVars => ScrapeInv'
  BY ScrapeNext
<1> QED
  BY <1>1, <1>2, PTL DEF StepSpec

\* A family has series of one of the two results.
LEMMA ScrapeFamilies ==
    ASSUME ScrapeInv, NEW t \in active, NEW f
    PROVE  \/ \A s \in series : Own(s, t) /\ s.fam = f => s \in SeriesOf(t, last[t])
           \/ \A s \in series : Own(s, t) /\ s.fam = f => s \in SeriesOf(t, prev[t])
<1>1. CASE recOps[t] = <<>>
  <2>1. Settled(series, t, last[t])
    BY <1>1, QuietIsSettled DEF ScrapeInv
  <2> QED
    BY <2>1 DEF Settled
<1>2. CASE recOps[t] # <<>>
  <2>1. t \in Targets
    BY DEF ScrapeInv, StepInv, Registered
  <2>2. OneResult(series, recOps[t], t, last[t], prev[t], f)
    BY <1>2, <2>1 DEF ScrapeInv, UnderWay, Scraped
  <2> QED
    BY <2>2 DEF OneResult
<1> QED
  BY <1>1, <1>2

\* The series of a result are those that the properties say it exports.
LEMMA SeriesExported ==
    ASSUME NEW t, NEW r, NEW s \in SeriesOf(t, r)
    PROVE  <<s.fam, s.sub, s.val>> \in Exported(t, r)
<1>1. PICK e \in Emitted(t, r) : s = Series(t, r, e)
  BY DEF SeriesOf
<1>2. r # None
  BY DEF SeriesOf
<1>3. s.fam = e[1] /\ s.sub = e[2] /\ s.val = IF e[1] = "mtuState" THEN One ELSE Val(r)
  BY <1>1 DEF Series, ValueOf
<1> QED
  BY <1>2, <1>3 DEF Exported

\* A scrape between any two operations never reads series of two results of a
\* target in one family: the phases, the certificate chain and the MTU state are
\* cleared before they are set (metrics.go:328-337, 407-454).
THEOREM ScrapeNotMixed == StepSpec => []NoMixedFamily
<1>1. ScrapeInv => NoMixedFamily
  <2> SUFFICES ASSUME ScrapeInv, NEW t \in active,
                      NEW f
               PROVE  LET now == {<<s.fam, s.sub, s.val>> : s \in {x \in series :
                                    /\ x.key = buildLabels(t)
                                    /\ x.fam \notin {"timeout", "interval", "overlap"}}}
                      IN  \/ {x \in now : x[1] = f} \subseteq Exported(t, last[t])
                          \/ {x \in now : x[1] = f} \subseteq Exported(t, prev[t])
    BY DEF NoMixedFamily
  <2>1. \A x : x.key = buildLabels(t) /\ x.fam \notin {"timeout", "interval", "overlap"} => Own(x, t)
    BY DEF Own, ConfigFamilies
  <2> QED
    BY <2>1, ScrapeFamilies, SeriesExported
<1> QED
  BY <1>1, ScrapeInvariant, PTL

\* Apart from the families that are cleared first, a scrape between any two
\* operations finds every series that the latest result and the one before it
\* both observed: probe_success of a target never disappears (metrics.go:295-454).
THEOREM ScrapeHasNoGap == StepSpec => []NoGap
<1>1. ScrapeInv => NoGap
  <2> SUFFICES ASSUME ScrapeInv, NEW t \in active, last[t] # None, prev[t] # None,
                      NEW e \in Emitted(t, last[t]) \intersect Emitted(t, prev[t]),
                      e[1] \notin Cleared
               PROVE  Present(series, t, e)
    BY DEF NoGap, Present
  <2>1. CASE recOps[t] = <<>>
    <3>1. Settled(series, t, last[t])
      BY <2>1, QuietIsSettled DEF ScrapeInv
    <3>2. Series(t, last[t], e) \in SeriesOf(t, last[t])
      BY DEF SeriesOf
    <3>3. ResultOf(t, last[t])
      BY RegisteredResults DEF ScrapeInv, StepInv
    <3>4. Series(t, last[t], e) \in series
      BY <3>1, <3>2, <3>3, OwnSeries DEF Settled
    <3> QED
      BY <3>4 DEF Present, Series
  <2>2. CASE recOps[t] # <<>>
    <3>1. t \in Targets
      BY DEF ScrapeInv, StepInv, Registered
    <3> QED
      BY <2>2, <3>1 DEF ScrapeInv, UnderWay, Scraped
  <2> QED
    BY <2>1, <2>2
<1> QED
  BY <1>1, ScrapeInvariant, PTL
=============================================================================
