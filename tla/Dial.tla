-------------------------------- MODULE Dial --------------------------------
(***************************************************************************)
(* The TCP prober (internal/probe/tcp.go) and the dialer it shares with    *)
(* the tls_cert prober (internal/probe/prober.go, dialTCPWithSplitPhases): *)
(* name resolution, the two "happy eyeballs" workers, the results channel, *)
(* cancellation and the goroutine that closes the losing connection.       *)
(* A connection is identified with the address it leads to.                *)
(***************************************************************************)
EXTENDS ProberOptions, FiniteSets

Workers == {"primary", "fallback"}

VARIABLES
    targets,      \* dialTargets
    dialPC,       \* where Probe is
    wpc,          \* [Workers -> where the worker is]
    widx,         \* [Workers -> index of the address it dials]
    wconn,        \* [Workers -> its connection, or None]
    results,      \* the results channel: connections, None for an error
    failures,     \* errors received from it
    winner,       \* the connection dialTCPHappyEyeballs returns, or None
    cleaner,      \* the closing goroutine: "off", "wait", "done"
    dialDone,     \* dialCtx was cancelled by dialTCPHappyEyeballs
    dialCtxDone,  \* the probe's context has ended
    dialOpen,     \* open connections
    tried,        \* addresses dialled to an end
    success       \* result.Success

workerVars == <<wpc, widx, wconn>>
dialVars == <<targets, dialPC, workerVars, results, failures, winner, cleaner, dialDone,
              dialCtxDone, dialOpen, tried, success>>

----------------------------------------------------------------------------
\* The addresses of a list that belong to family F, in their order.
ofFamily(l, F) ==
    LET kept[i \in 0..Len(l)] ==
          IF i = 0 THEN <<>>
          ELSE IF l[i] \in F THEN Append(kept[i - 1], l[i]) ELSE kept[i - 1]
    IN  kept[Len(l)]

\* splitDialFamilies: the family of the first address goes first.
splitDialFamilies(l) ==
    LET v4 == ofFamily(l, V4)
        v6 == ofFamily(l, V6)
    IN  IF v4 = <<>> \/ v6 = <<>> THEN [primary |-> l, fallback |-> <<>>]
        ELSE IF l[1] \in V6 THEN [primary |-> v6, fallback |-> v4]
        ELSE [primary |-> v4, fallback |-> v6]

Addresses(w) == splitDialFamilies(targets)[w]

\* One family only: dialTCPAddresses is called directly.
Racing == Addresses("fallback") # <<>>
Started == IF Racing THEN Workers ELSE {"primary"}
AllGone == \A w \in Workers : wpc[w] = "gone"

\* dialCtx is derived from the probe's context.
DialCtxDone == dialDone \/ dialCtxDone

DialInit ==
    /\ targets \in TargetLists
    /\ dialPC = "resolve"
    /\ wpc = [w \in Workers |-> "off"]
    /\ widx = [w \in Workers |-> 1]
    /\ wconn = [w \in Workers |-> None]
    /\ results = <<>> /\ failures = 0 /\ winner = None /\ cleaner = "off"
    /\ dialDone = FALSE /\ dialCtxDone = FALSE
    /\ dialOpen = {} /\ tried = {} /\ success = FALSE

\* LookupIPAddr fails.
ResolveFails ==
    /\ dialPC = "resolve"
    /\ dialPC' = "returned"
    /\ UNCHANGED <<targets, workerVars, results, failures, winner, cleaner, dialDone,
                   dialCtxDone, dialOpen, tried, success>>

\* A literal or a successful lookup; startWorker for each family.
StartWorkers ==
    /\ dialPC = "resolve"
    /\ dialPC' = "receive"
    /\ wpc' = [w \in Workers |-> IF w \notin Started THEN "gone"
                                 ELSE IF w = "fallback" THEN "delay" ELSE "next"]
    /\ UNCHANGED <<targets, widx, wconn, results, failures, winner, cleaner, dialDone,
                   dialCtxDone, dialOpen, tried, success>>

----------------------------------------------------------------------------
(* The workers *)

Go(w, loc) ==
    /\ wpc' = [wpc EXCEPT ![w] = loc]
    /\ UNCHANGED <<targets, dialPC, failures, winner, cleaner, dialDone, dialCtxDone, success>>

\* The fallback worker's delay, and its end by cancellation.
DelayOver(w) ==
    /\ wpc[w] = "delay"
    /\ Go(w, "next")
    /\ UNCHANGED <<widx, wconn, results, dialOpen, tried>>

DelayCancelled(w) ==
    /\ wpc[w] = "delay"
    /\ DialCtxDone
    /\ results' = Append(results, None)
    /\ Go(w, "gone")
    /\ UNCHANGED <<widx, wconn, dialOpen, tried>>

\* dialTCPAddresses: DialContext on the next address starts ...
DialStart(w) ==
    /\ wpc[w] = "next"
    /\ widx[w] <= Len(Addresses(w))
    /\ Go(w, "dialing")
    /\ UNCHANGED <<widx, wconn, results, dialOpen, tried>>

\* ... and connects; the outcome is sent later.
DialConnects(w) ==
    /\ wpc[w] = "dialing"
    /\ ~DialCtxDone
    /\ LET a == Addresses(w)[widx[w]]
       IN  /\ wconn' = [wconn EXCEPT ![w] = a]
           /\ dialOpen' = dialOpen \union {a}
           /\ tried' = tried \union {a}
    /\ Go(w, "send")
    /\ UNCHANGED <<widx, results>>

DialError(w) ==
    /\ wpc[w] = "dialing"
    /\ tried' = tried \union {Addresses(w)[widx[w]]}
    /\ widx' = [widx EXCEPT ![w] = @ + 1]
    /\ Go(w, "next")
    /\ UNCHANGED <<wconn, results, dialOpen>>

\* The peer refuses, or the context ends.
DialRefused(w) == ~DialCtxDone /\ DialError(w)
DialCancelled(w) == DialCtxDone /\ DialError(w)

DialExhausted(w) ==
    /\ wpc[w] = "next"
    /\ widx[w] > Len(Addresses(w))
    /\ Go(w, "send")
    /\ UNCHANGED <<widx, wconn, results, dialOpen, tried>>

\* The outcome goes into the channel, which has room for both.
SendOutcome(w) ==
    /\ wpc[w] = "send"
    /\ results' = Append(results, wconn[w])
    /\ Go(w, "gone")
    /\ UNCHANGED <<widx, wconn, dialOpen, tried>>

----------------------------------------------------------------------------
(* dialTCPHappyEyeballs and Probe *)

\* Mutant: the first error ends the dial.
ReceiveErrorFirst ==
    /\ dialPC = "receive"
    /\ results # <<>> /\ Head(results) = None
    /\ results' = Tail(results)
    /\ failures' = failures + 1
    /\ dialPC' = "join"
    /\ UNCHANGED <<targets, workerVars, winner, cleaner, dialDone, dialCtxDone, dialOpen, tried,
                   success>>

ReceiveError ==
    /\ dialPC = "receive"
    /\ results # <<>> /\ Head(results) = None
    /\ results' = Tail(results)
    /\ failures' = failures + 1
    /\ dialPC' = IF failures' = Cardinality(Started) THEN "join" ELSE "receive"
    /\ UNCHANGED <<targets, workerVars, winner, cleaner, dialDone, dialCtxDone, dialOpen, tried,
                   success>>

\* cancel(), and the closing goroutine takes over what is left.
ReceiveConn ==
    /\ dialPC = "receive"
    /\ results # <<>> /\ Head(results) # None
    /\ results' = Tail(results)
    /\ winner' = Head(results)
    /\ dialDone' = TRUE
    /\ cleaner' = IF Racing THEN "wait" ELSE "off"
    /\ dialPC' = "connected"
    /\ UNCHANGED <<targets, workerVars, failures, dialCtxDone, dialOpen, tried, success>>

\* Every worker failed: wg.Wait, then the error is returned.
Join ==
    /\ dialPC = "join"
    /\ AllGone
    /\ dialDone' = TRUE
    /\ dialPC' = "returned"
    /\ UNCHANGED <<targets, workerVars, results, failures, winner, cleaner, dialCtxDone,
                   dialOpen, tried, success>>

\* The caller uses the connection, closes it and returns.
CloseConn ==
    /\ dialPC = "connected"
    /\ dialOpen' = dialOpen \ {winner}
    /\ success' = TRUE
    /\ dialPC' = "returned"
    /\ UNCHANGED <<targets, workerVars, results, failures, winner, cleaner, dialDone,
                   dialCtxDone, tried>>

\* Mutants: the channel is drained without waiting for the workers; the
\* winner is closed too.
CloseLosersNoWait ==
    /\ cleaner = "wait"
    /\ dialOpen' = dialOpen \ {results[i] : i \in DOMAIN results}
    /\ results' = <<>>
    /\ cleaner' = "done"
    /\ UNCHANGED <<targets, dialPC, workerVars, failures, winner, dialDone, dialCtxDone, tried,
                   success>>
CloseLosersAll ==
    /\ cleaner = "wait"
    /\ AllGone
    /\ dialOpen' = {}
    /\ results' = <<>>
    /\ cleaner' = "done"
    /\ UNCHANGED <<targets, dialPC, workerVars, failures, winner, dialDone, dialCtxDone, tried,
                   success>>

\* wg.Wait, close(results), and every other connection is closed.
CloseLosers ==
    /\ cleaner = "wait"
    /\ AllGone
    /\ dialOpen' = dialOpen \ ({results[i] : i \in DOMAIN results} \ {winner})
    /\ results' = <<>>
    /\ cleaner' = "done"
    /\ UNCHANGED <<targets, dialPC, workerVars, failures, winner, dialDone, dialCtxDone, tried,
                   success>>

\* The scheduler's timeout or cancellation.
DialExpires ==
    /\ ~dialCtxDone /\ dialPC # "returned"
    /\ dialCtxDone' = TRUE
    /\ UNCHANGED <<targets, dialPC, workerVars, results, failures, winner, cleaner, dialDone,
                   dialOpen, tried, success>>

Returned == dialPC = "returned" /\ UNCHANGED dialVars

----------------------------------------------------------------------------
Worker(w) ==
    \/ DelayOver(w) \/ DelayCancelled(w)
    \/ DialStart(w) \/ DialCancelled(w) \/ DialExhausted(w) \/ SendOutcome(w)

Main == ResolveFails \/ StartWorkers \/ ReceiveError \/ ReceiveConn \/ Join \/ CloseConn

DialNext ==
    \/ Main
    \/ \E w \in Workers : Worker(w) \/ DialConnects(w) \/ DialRefused(w)
    \/ CloseLosers
    \/ DialExpires
    \/ Returned

DialSpec == DialInit /\ [][DialNext]_dialVars

\* Goroutines run, timers fire (the scheduler gives every probe a timeout)
\* and DialContext obeys its context; no peer is sure to answer.
DialFairness ==
    /\ WF_dialVars(Main) /\ WF_dialVars(CloseLosers) /\ WF_dialVars(DialExpires)
    /\ \A w \in Workers : WF_dialVars(Worker(w))
DialFairSpec == DialSpec /\ DialFairness

----------------------------------------------------------------------------
(* Properties *)

Conns == V4 \union V6

\* The types of the dial race (prober.go:341-404).
DialTypeOK ==
    /\ targets \in TargetLists
    /\ dialPC \in {"resolve", "receive", "join", "connected", "returned"}
    /\ wpc \in [Workers -> {"off", "delay", "next", "dialing", "send", "gone"}]
    /\ wconn \in [Workers -> Conns \union {None}]
    /\ Len(results) + failures <= 2
    /\ winner \in Conns \union {None}
    /\ cleaner \in {"off", "wait", "done"}
    /\ dialOpen \subseteq Conns /\ tried \subseteq Conns
    /\ {dialDone, dialCtxDone, success} \subseteq BOOLEAN

\* The connection handed to the caller is open for as long as the caller has
\* it: the closing goroutine never closes the winner.
WinnerStaysOpen == dialPC = "connected" => winner \in dialOpen

\* A dial fails only when it had to: unless the context ended, every address
\* of both families was tried, and no connection was opened and dropped.
FailureIsComplete ==
    dialPC \in {"join", "returned"} /\ failures > 0 /\ ~success /\ winner = None =>
        /\ dialOpen = {}
        /\ dialCtxDone \/ tried = {targets[i] : i \in DOMAIN targets}

\* The probe returns, and every connection it opened gets closed, the one of
\* a worker that connects after the race is decided too.
Settles == <>[](dialPC = "returned" /\ dialOpen = {})
=============================================================================
