------------------------------- MODULE Agent -------------------------------
(***************************************************************************)
(* The agent process (cmd/agent/main.go): startup, the signal loop, reload *)
(* with its rejection rules, the agent metadata gauges, the HTTP server's  *)
(* error channel and graceful shutdown.  The scheduler is abstracted to    *)
(* the configuration it runs: module Scheduler shows that Reload and Stop  *)
(* return, and that a returned Reload runs exactly the new configuration.  *)
(***************************************************************************)
EXTENDS Naturals, Sequences, FiniteSets

CONSTANTS
    Files,       \* contents the configuration file can have
    Invalid,     \* the member of Files that LoadConfig refuses
    ListenFlags, \* values of --listen-addr; NoFlag when it is not given
    NoFlag,
    MaxScrapes,  \* bound on concurrent scrapes of /metrics
    Unset

\* The fields handleReload compares with their startup value.
StartupOnly == {"tagKeys", "logFormat", "listenAddr", "metricsPath", "runtimeMetrics"}
ConfigFields == StartupOnly \union {"targets", "logLevel"}

ASSUME FilesAssumption ==
    /\ \A f \in Files \ {Invalid} : DOMAIN f = ConfigFields
    /\ \A f \in Files \ {Invalid}, a \in ListenFlags : [f EXCEPT !.listenAddr = a] # Invalid
ASSUME UnsetAssumption == Unset \notin Files /\ Unset # "0"
ASSUME ScrapeAssumption == MaxScrapes \in Nat

\* Mutant: an unbuffered channel.
SigCapNone == 0

SigCap == 1     \* capacity of sigCh; signal.Notify drops what does not fit

Signals == {"HUP", "TERM"}

VARIABLES
    file,      \* what the configuration file holds now
    flag,      \* the --listen-addr flag
    pc,        \* where run() is
    cfg,       \* the configuration loaded at startup, flag applied
    newCfg,    \* handleReload's configuration
    targets,   \* the target list the scheduler runs, Unset before Start
    logLevel,  \* the level configureLogger set
    hashes,    \* hash labels netsonar_config_info exposes
    total,     \* netsonar_targets_total
    sigCh,     \* the signal channel
    srv,       \* the HTTP server: "off", "serving", "failed", "closed"
    srvErr,    \* an error is buffered in srvErr
    scrapes,   \* scrapes in flight
    exit,      \* exit code, "killed" by a default signal action, or Unset
    startFile, \* what the file held when it was loaded at startup
    rejected,  \* the file whose reload was rejected last, or Unset
    hupDue,    \* a SIGHUP was sent and the file has not been read since
    termSent   \* a SIGTERM or SIGINT was sent to the running agent

configVars == <<cfg, newCfg, targets, logLevel, hashes, total>>
serverVars == <<srv, srvErr, scrapes>>
vars == <<file, flag, pc, configVars, sigCh, serverVars, exit, startFile,
          rejected, hupDue, termSent>>

\* ComputeHash: the canonical form of a whole configuration stands for its
\* hash.
ComputeHash(c) == c

Init ==
    /\ file \in Files
    /\ flag \in ListenFlags
    /\ pc = "boot"
    /\ cfg = Unset /\ newCfg = Unset
    /\ targets = Unset /\ logLevel = Unset /\ hashes = {} /\ total = Unset
    /\ sigCh = <<>>
    /\ srv = "off" /\ srvErr = FALSE /\ scrapes = 0
    /\ exit = Unset
    /\ startFile = Unset /\ rejected = Unset /\ hupDue = FALSE /\ termSent = FALSE

----------------------------------------------------------------------------
(* Startup *)

\* LoadConfig, then the CLI flag overrides agent.listen_addr.
LoadStartup ==
    /\ pc = "boot"
    /\ IF file = Invalid
         THEN /\ exit' = "1" /\ pc' = "exited"
              /\ UNCHANGED <<cfg, startFile>>
         ELSE /\ cfg' = IF flag = NoFlag THEN file ELSE [file EXCEPT !.listenAddr = flag]
              /\ startFile' = file
              /\ pc' = "start"
              /\ UNCHANGED exit
    /\ UNCHANGED <<file, flag, newCfg, targets, logLevel, hashes, total, sigCh,
                   serverVars, rejected, hupDue, termSent>>

\* setupLogger, the exporter, sched.Start, updateAgentMetrics and the server
\* goroutine.
StartAgent ==
    /\ pc = "start"
    /\ targets' = cfg.targets
    /\ logLevel' = cfg.logLevel
    /\ hashes' = {ComputeHash(cfg)}
    /\ total' = Cardinality(cfg.targets)
    /\ srv' = "serving"
    /\ pc' = "notify"
    /\ UNCHANGED <<file, flag, cfg, newCfg, sigCh, srvErr, scrapes, exit, startFile,
                   rejected, hupDue, termSent>>

\* signal.Notify
Notify ==
    /\ pc = "notify"
    /\ pc' = "select"
    /\ UNCHANGED <<file, flag, configVars, sigCh, serverVars, exit, startFile, rejected,
                   hupDue, termSent>>

----------------------------------------------------------------------------
(* The signal loop and handleReload *)

TakeHup ==
    /\ pc = "select"
    /\ sigCh # <<>> /\ Head(sigCh) = "HUP"
    /\ sigCh' = Tail(sigCh)
    /\ pc' = "load"
    /\ UNCHANGED <<file, flag, configVars, serverVars, exit, startFile, rejected, hupDue,
                   termSent>>

TakeTerm ==
    /\ pc = "select"
    /\ sigCh # <<>> /\ Head(sigCh) = "TERM"
    /\ sigCh' = Tail(sigCh)
    /\ pc' = "stop"
    /\ UNCHANGED <<file, flag, configVars, serverVars, exit, startFile, rejected, hupDue,
                   termSent>>

\* handleReload: an invalid file ends the reload.
ReloadLoad ==
    /\ pc = "load"
    /\ hupDue' = FALSE
    /\ IF file = Invalid
         THEN pc' = "select" /\ UNCHANGED newCfg
         ELSE pc' = "check" /\ newCfg' = file
    /\ UNCHANGED <<file, flag, cfg, targets, logLevel, hashes, total, sigCh, serverVars,
                   exit, startFile, rejected, termSent>>

\* Mutant: the new level is installed although the reload is rejected.
ReloadRejectLate ==
    /\ pc = "check"
    /\ \E f \in StartupOnly : newCfg[f] # cfg[f]
    /\ pc' = "select"
    /\ rejected' = newCfg
    /\ logLevel' = newCfg.logLevel
    /\ newCfg' = Unset
    /\ UNCHANGED <<file, flag, cfg, targets, hashes, total, sigCh, serverVars, exit,
                   startFile, hupDue, termSent>>

\* handleReload: a changed startup-only field ends the reload.
ReloadReject ==
    /\ pc = "check"
    /\ \E f \in StartupOnly : newCfg[f] # cfg[f]
    /\ pc' = "select"
    /\ rejected' = newCfg
    /\ newCfg' = Unset
    /\ UNCHANGED <<file, flag, cfg, targets, logLevel, hashes, total, sigCh, serverVars,
                   exit, startFile, hupDue, termSent>>

\* sched.Reload: blocks until the stopped targets' goroutines are gone.
ReloadAccept ==
    /\ pc = "check"
    /\ \A f \in StartupOnly : newCfg[f] = cfg[f]
    /\ targets' = newCfg.targets
    /\ pc' = "level"
    /\ UNCHANGED <<file, flag, cfg, newCfg, logLevel, hashes, total, sigCh, serverVars,
                   exit, startFile, rejected, hupDue, termSent>>

\* configureLogger
ReloadLevel ==
    /\ pc = "level"
    /\ logLevel' = newCfg.logLevel
    /\ pc' = "reset"
    /\ UNCHANGED <<file, flag, cfg, newCfg, targets, hashes, total, sigCh, serverVars,
                   exit, startFile, rejected, hupDue, termSent>>

\* updateAgentMetrics, SetConfigInfo: Reset, then the new hash.  A scrape can
\* fall between the two.
SetConfigInfoReset ==
    /\ pc = "reset"
    /\ hashes' = {}
    /\ pc' = "info"
    /\ UNCHANGED <<file, flag, cfg, newCfg, targets, logLevel, total, sigCh, serverVars,
                   exit, startFile, rejected, hupDue, termSent>>

SetConfigInfo ==
    /\ pc = "info"
    /\ hashes' = hashes \union {ComputeHash(newCfg)}
    /\ pc' = "total"
    /\ UNCHANGED <<file, flag, cfg, newCfg, targets, logLevel, total, sigCh, serverVars,
                   exit, startFile, rejected, hupDue, termSent>>

\* SetTargetsTotal and SetConfigReloadTimestamp; the reload is complete.
SetTargetsTotal ==
    /\ pc = "total"
    /\ total' = Cardinality(newCfg.targets)
    /\ newCfg' = Unset
    /\ pc' = "select"
    /\ UNCHANGED <<file, flag, cfg, targets, logLevel, hashes, sigCh, serverVars, exit,
                   startFile, rejected, hupDue, termSent>>

----------------------------------------------------------------------------
(* Server error and shutdown *)

\* Mutant: the error is logged and the loop goes on.
TakeServerErrorIgnored ==
    /\ pc = "select"
    /\ srvErr
    /\ srvErr' = FALSE
    /\ pc' = "select"
    /\ UNCHANGED <<file, flag, configVars, sigCh, srv, scrapes, exit, startFile, rejected,
                   hupDue, termSent>>

\* The select's other case: ListenAndServe's error.
TakeServerError ==
    /\ pc = "select"
    /\ srvErr
    /\ srvErr' = FALSE
    /\ pc' = "stopErr"
    /\ UNCHANGED <<file, flag, configVars, sigCh, srv, scrapes, exit, startFile, rejected,
                   hupDue, termSent>>

\* The server-error path: sched.Stop, cancel, exit code 1.
StopOnError ==
    /\ pc = "stopErr"
    /\ targets' = {}
    /\ exit' = "1"
    /\ pc' = "exited"
    /\ UNCHANGED <<file, flag, cfg, newCfg, logLevel, hashes, total, sigCh, serverVars,
                   startFile, rejected, hupDue, termSent>>

\* shutdown: sched.Stop and cancel ...
ShutdownStop ==
    /\ pc = "stop"
    /\ targets' = {}
    /\ pc' = "close"
    /\ UNCHANGED <<file, flag, cfg, newCfg, logLevel, hashes, total, sigCh, serverVars,
                   exit, startFile, rejected, hupDue, termSent>>

\* ... srv.Shutdown closes the listener ...
ShutdownClose ==
    /\ pc = "close"
    /\ srv' = IF srv = "serving" THEN "closed" ELSE srv
    /\ pc' = "drain"
    /\ UNCHANGED <<file, flag, configVars, sigCh, srvErr, scrapes, exit, startFile,
                   rejected, hupDue, termSent>>

\* Mutant: the process exits without waiting for scrapes.
ShutdownDrainedNoWait ==
    /\ pc = "drain"
    /\ exit' = "0"
    /\ pc' = "exited"
    /\ UNCHANGED <<file, flag, configVars, sigCh, serverVars, startFile, rejected, hupDue,
                   termSent>>

\* ... and waits for the scrapes in flight, or for the 5-second deadline.
ShutdownDrained ==
    /\ pc = "drain"
    /\ scrapes = 0
    /\ exit' = "0"
    /\ pc' = "exited"
    /\ UNCHANGED <<file, flag, configVars, sigCh, serverVars, startFile, rejected, hupDue,
                   termSent>>

ShutdownDeadline ==
    /\ pc = "drain"
    /\ scrapes > 0
    /\ exit' = "1"
    /\ pc' = "exited"
    /\ UNCHANGED <<file, flag, configVars, sigCh, serverVars, startFile, rejected, hupDue,
                   termSent>>

----------------------------------------------------------------------------
(* The environment *)

\* An operator replaces the configuration file.
EditFile(f) ==
    /\ pc # "exited"
    /\ f # file
    /\ file' = f
    /\ UNCHANGED <<flag, pc, configVars, sigCh, serverVars, exit, startFile, rejected,
                   hupDue, termSent>>

\* A signal: before signal.Notify it kills the process, afterwards it is
\* queued if sigCh has room and dropped otherwise.
Signal(s) ==
    /\ pc # "exited"
    /\ IF pc \in {"boot", "start", "notify"}
         THEN /\ exit' = "killed" /\ pc' = "exited"
              /\ UNCHANGED <<sigCh, hupDue, termSent>>
         ELSE /\ sigCh' = IF Len(sigCh) < SigCap THEN Append(sigCh, s) ELSE sigCh
              /\ hupDue' = (hupDue \/ s = "HUP")
              /\ termSent' = (termSent \/ s = "TERM")
              /\ UNCHANGED <<pc, exit>>
    /\ UNCHANGED <<file, flag, configVars, serverVars, startFile, rejected>>

\* ListenAndServe fails: the error is buffered in srvErr.
ServerFails ==
    /\ srv = "serving" /\ pc # "exited"
    /\ srv' = "failed"
    /\ srvErr' = TRUE
    /\ UNCHANGED <<file, flag, pc, configVars, sigCh, scrapes, exit, startFile, rejected,
                   hupDue, termSent>>

ScrapeBegin ==
    /\ srv = "serving" /\ pc # "exited"
    /\ scrapes < MaxScrapes
    /\ scrapes' = scrapes + 1
    /\ UNCHANGED <<file, flag, pc, configVars, sigCh, srv, srvErr, exit, startFile,
                   rejected, hupDue, termSent>>

ScrapeEnd ==
    /\ scrapes > 0 /\ pc # "exited"
    /\ scrapes' = scrapes - 1
    /\ UNCHANGED <<file, flag, pc, configVars, sigCh, srv, srvErr, exit, startFile,
                   rejected, hupDue, termSent>>

Exited == pc = "exited" /\ UNCHANGED vars

----------------------------------------------------------------------------
\* What the process does by itself.
AgentStep ==
    \/ LoadStartup \/ StartAgent \/ Notify
    \/ TakeHup \/ TakeTerm
    \/ ReloadLoad \/ ReloadReject \/ ReloadAccept \/ ReloadLevel
    \/ SetConfigInfoReset \/ SetConfigInfo \/ SetTargetsTotal
    \/ TakeServerError \/ StopOnError
    \/ ShutdownStop \/ ShutdownClose \/ ShutdownDrained \/ ShutdownDeadline

Next ==
    \/ AgentStep
    \/ \E f \in Files : EditFile(f)
    \/ \E s \in Signals : Signal(s)
    \/ ServerFails \/ ScrapeBegin \/ ScrapeEnd
    \/ Exited

Spec == Init /\ [][Next]_vars

\* run() keeps running (sched.Reload and sched.Stop return); its select is
\* uniformly random, so neither channel is starved by the other.
FairSpec == Spec /\ WF_vars(AgentStep) /\ SF_vars(TakeServerError) /\ SF_vars(TakeHup)
                 /\ SF_vars(TakeTerm)

----------------------------------------------------------------------------
(* Properties *)

Locs == {"boot", "start", "notify", "select", "load", "check", "level", "reset", "info",
         "total", "stop", "stopErr", "close", "drain", "exited"}

\* The types of run()'s state; sigCh never holds more than its capacity
\* (main.go:116).
TypeOK ==
    /\ file \in Files /\ flag \in ListenFlags /\ pc \in Locs
    /\ newCfg \in Files \union {Unset}
    /\ hashes \subseteq ({cfg} \union Files)
    /\ sigCh \in Seq(Signals) /\ Len(sigCh) <= SigCap
    /\ srv \in {"off", "serving", "failed", "closed"} /\ srvErr \in BOOLEAN
    /\ scrapes \in 0..MaxScrapes
    /\ exit \in {"0", "1", "killed", Unset}

\* Whenever the agent waits for the next signal, everything it runs and
\* reports comes from one configuration: the scheduler's targets, the log
\* level, the one exposed hash and the target count agree, whatever sequence
\* of valid, invalid and rejected reloads came before.
Coherent ==
    pc = "select" =>
        \E c \in Files \union {cfg} :
            /\ c # Invalid
            /\ targets = c.targets
            /\ logLevel = c.logLevel
            /\ hashes = {ComputeHash(c)}
            /\ total = Cardinality(c.targets)
            /\ \A f \in StartupOnly : c[f] = cfg[f]

\* Exit code 0 means a clean end: probes stopped, listener closed or failed,
\* no scrape cut off.
CleanExit ==
    exit = "0" => targets = {} /\ srv # "serving" /\ scrapes = 0

\* A SIGHUP is not lost although sigCh holds one signal: after every SIGHUP
\* the file is read again, unless the process ends.
HupNotLost == hupDue ~> (~hupDue \/ pc = "exited")

\* A fatal server error ends the process.
ServerErrorExits == srvErr ~> pc = "exited"

\* SIGTERM or SIGINT leads to shutdown (main.go:115, README.md:505).
TermShutsDown == termSent ~> pc = "exited"

\* A reload is rejected only if the new file changes a startup-only field:
\* "Startup-only field changed since startup" (README.md:517, 437-439).  The
\* code compares with the configuration of startup after --listen-addr has
\* replaced an address in it (main.go:70-72, 125, 175).
RejectedOnlyIfChanged ==
    rejected # Unset => \E f \in StartupOnly : rejected[f] # startFile[f]
=============================================================================
