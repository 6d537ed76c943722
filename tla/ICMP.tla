-------------------------------- MODULE ICMP --------------------------------
(***************************************************************************)
(* The ICMP prober (internal/probe/icmp.go): the echo sequence with its    *)
(* ping interval, one socket for all echoes, and the read loop of          *)
(* sendEcho.  Time is discrete: the clock advances only when the prober    *)
(* has nothing to do but wait, so that a step of the code takes no time.   *)
(* RTT sums are left out.                                                  *)
(***************************************************************************)
EXTENDS ProberOptions, FiniteSets

VARIABLES
    pingPC,        \* where the prober is
    seq,           \* the loop variable of runICMPEchoSequence
    wakeAt,        \* when the ping interval timer fires
    pingDeadline,  \* the socket's read deadline
    pingSent,      \* actualSent
    received,      \* received
    now,           \* the clock
    cancelAt,      \* when the context was cancelled, or None
    echoes,        \* sequence numbers written
    answered,      \* sequence numbers the target answered
    faults,        \* a socket operation failed, other than by the deadline
    pingResult

timeVars == <<now, cancelAt>>
icmpVars == <<pingPC, seq, wakeAt, pingDeadline, pingSent, received, timeVars, echoes, answered,
              faults, pingResult>>

\* ctx.Err() # nil
CtxErr == cancelAt # None \/ now >= Timeout

NoICMPResult == [success |-> FALSE, error |-> FALSE, lost |-> 0, of |-> 0, replies |-> 0]

\* PacketLoss is lost / of; a probe that sent nothing reports 1/1.
AllLost == [success |-> FALSE, error |-> TRUE, lost |-> 1, of |-> 1, replies |-> 0]

ICMPInit ==
    /\ pingPC = "resolve" /\ seq = 0
    /\ wakeAt = 0 /\ pingDeadline = 0
    /\ pingSent = 0 /\ received = 0
    /\ now = 0 /\ cancelAt = None
    /\ echoes = {} /\ answered = {} /\ faults = FALSE
    /\ pingResult = NoICMPResult

\* resolveIPv4 or icmp.ListenPacket fails.
SetupFails ==
    /\ pingPC = "resolve"
    /\ pingResult' = AllLost
    /\ pingPC' = "done"
    /\ UNCHANGED <<seq, wakeAt, pingDeadline, pingSent, received, timeVars, echoes, answered,
                   faults>>

Setup ==
    /\ pingPC = "resolve"
    /\ pingPC' = "loop"
    /\ UNCHANGED <<seq, wakeAt, pingDeadline, pingSent, received, timeVars, echoes, answered,
                   faults, pingResult>>

----------------------------------------------------------------------------
(* runICMPEchoSequence *)

\* The head of the loop: the context, then the interval (not before the
\* first echo).
LoopHead ==
    /\ pingPC = "loop"
    /\ IF seq >= PingCount \/ CtxErr
         THEN pingPC' = "sum" /\ UNCHANGED wakeAt
         ELSE IF seq > 0
                THEN pingPC' = "wait" /\ wakeAt' = now + PingInterval
                ELSE pingPC' = "send" /\ UNCHANGED wakeAt
    /\ UNCHANGED <<seq, pingDeadline, pingSent, received, timeVars, echoes, answered, faults,
                   pingResult>>

\* waitForPingInterval
IntervalOver ==
    /\ pingPC = "wait"
    /\ now >= wakeAt
    /\ pingPC' = "send"
    /\ UNCHANGED <<seq, wakeAt, pingDeadline, pingSent, received, timeVars, echoes, answered,
                   faults, pingResult>>

IntervalCancelled ==
    /\ pingPC = "wait"
    /\ CtxErr
    /\ pingPC' = "sum"
    /\ UNCHANGED <<seq, wakeAt, pingDeadline, pingSent, received, timeVars, echoes, answered,
                   faults, pingResult>>

\* The end of runICMPEchoSequence.
Sum ==
    /\ pingPC = "sum"
    /\ pingResult' = IF pingSent = 0 THEN AllLost
                 ELSE [success |-> received > 0, error |-> received = 0,
                       lost |-> pingSent - received, of |-> pingSent, replies |-> received]
    /\ pingPC' = "done"
    /\ UNCHANGED <<seq, wakeAt, pingDeadline, pingSent, received, timeVars, echoes, answered,
                   faults>>

----------------------------------------------------------------------------
(* sendEcho *)

\* Mutant: each echo gets a deadline of its own.
ReadDeadlinePerPing == now + Timeout

\* conn.SetDeadline: the context's deadline, shared by all echoes.
ReadDeadline == Timeout

EchoSent ==
    /\ pingPC = "send"
    /\ pingDeadline' = ReadDeadline
    /\ pingSent' = pingSent + 1
    /\ echoes' = echoes \union {seq}
    /\ pingPC' = "check"
    /\ UNCHANGED <<seq, wakeAt, received, timeVars, answered, faults, pingResult>>

\* Mutant: a failed echo is sent again.
FailedRetry == pingPC' = "loop" /\ UNCHANGED seq

\* sendEcho ends without a reply.
Failed == pingPC' = "loop" /\ seq' = seq + 1

EchoWriteFails ==
    /\ pingPC = "send"
    /\ Failed
    /\ faults' = TRUE
    /\ UNCHANGED <<wakeAt, pingDeadline, pingSent, received, timeVars, echoes, answered,
                   pingResult>>

\* The head of the read loop: a look at the context, then ReadFrom.
ReadLoop ==
    /\ pingPC = "check"
    /\ IF CtxErr THEN Failed ELSE pingPC' = "read" /\ UNCHANGED seq
    /\ UNCHANGED <<wakeAt, pingDeadline, pingSent, received, timeVars, echoes, answered, faults,
                   pingResult>>

\* Mutant: any echo reply counts.
ReplyMatchesAny(s) == TRUE

ReplyMatches(s) == s = seq

\* ReadFrom returns an echo reply, possibly a late or duplicate one: a reply
\* to another echo is skipped.
ReadReply(s) ==
    /\ pingPC = "read"
    /\ now < pingDeadline
    /\ s \in echoes
    /\ answered' = answered \union {s}
    /\ IF ReplyMatches(s)
         THEN pingPC' = "loop" /\ seq' = seq + 1 /\ received' = received + 1
         ELSE pingPC' = "check" /\ UNCHANGED <<seq, received>>
    /\ UNCHANGED <<wakeAt, pingDeadline, pingSent, timeVars, echoes, faults, pingResult>>

\* ReadFrom fails at the socket's deadline.  A cancelled context does not
\* wake it.
ReadTimeout ==
    /\ pingPC = "read"
    /\ now >= pingDeadline
    /\ Failed
    /\ UNCHANGED <<wakeAt, pingDeadline, pingSent, received, timeVars, echoes, answered, faults,
                   pingResult>>

EchoReadFails ==
    /\ pingPC = "read"
    /\ Failed
    /\ faults' = TRUE
    /\ UNCHANGED <<wakeAt, pingDeadline, pingSent, received, timeVars, echoes, answered,
                   pingResult>>

----------------------------------------------------------------------------
(* Time *)

\* Nothing to do: the interval timer or ReadFrom is waiting.
Waiting ==
    \/ pingPC = "wait" /\ now < wakeAt /\ ~CtxErr
    \/ pingPC = "read" /\ now < pingDeadline

Tick ==
    /\ Waiting
    /\ now' = now + 1
    /\ UNCHANGED <<pingPC, seq, wakeAt, pingDeadline, pingSent, received, cancelAt, echoes,
                   answered, faults, pingResult>>

\* The scheduler cancels the probe.
ICMPCancel ==
    /\ pingPC # "done" /\ cancelAt = None /\ now < Timeout
    /\ cancelAt' = now
    /\ UNCHANGED <<pingPC, seq, wakeAt, pingDeadline, pingSent, received, now, echoes, answered,
                   faults, pingResult>>

ICMPDone == pingPC = "done" /\ UNCHANGED icmpVars

----------------------------------------------------------------------------
ICMPStep ==
    \/ SetupFails \/ Setup \/ LoopHead \/ IntervalOver \/ IntervalCancelled \/ Sum
    \/ EchoSent \/ EchoWriteFails \/ ReadLoop \/ ReadTimeout

ICMPNext ==
    \/ ICMPStep
    \/ \E s \in echoes : ReadReply(s)
    \/ EchoReadFails
    \/ Tick \/ ICMPCancel
    \/ ICMPDone

ICMPSpec == ICMPInit /\ [][ICMPNext]_icmpVars

\* The goroutine runs and time passes, however many stray replies arrive; no
\* reply is sure to arrive.
ICMPFairness == WF_icmpVars(ICMPStep) /\ SF_icmpVars(Tick)
ICMPFairSpec == ICMPSpec /\ ICMPFairness

----------------------------------------------------------------------------
(* Properties *)

\* The types of the echo sequence; no more echoes than ping_count
\* (icmp.go:108).
ICMPTypeOK ==
    /\ pingPC \in {"resolve", "loop", "wait", "send", "check", "read", "sum", "done"}
    /\ seq \in 0..PingCount
    /\ pingSent \in 0..PingCount /\ received \in 0..pingSent
    /\ echoes \subseteq 0..PingCount - 1 /\ answered \subseteq echoes
    /\ cancelAt \in 0..Timeout \union {None}

\* The loss ratio is about the echoes that were written, and a reply counts
\* once, for the echo it answers, so that late and duplicate replies never hide
\* the loss of another echo (icmp.go:244-269).  Echoes that a deadline or a
\* cancellation kept from being sent are not lost, an unanswered one always
\* is, and a sequence that ran to its end without socket errors has sent
\* everything and lost nothing.  All echoes share one deadline
\* (docs/metrics.md:449), so an echo without a reply consumes the rest of the
\* probe's time: without socket errors at most the last one is lost.
LossOfSent ==
    pingPC = "done" /\ pingSent > 0 =>
        /\ pingResult.of = Cardinality(echoes)
        /\ pingResult.lost >= Cardinality(echoes \ answered)
        /\ ~faults /\ cancelAt = None /\ now < Timeout
              => pingResult.of = PingCount /\ pingResult.lost = 0
        /\ ~faults => pingResult.lost <= 1
        /\ pingResult.success <=> ~pingResult.error
        /\ pingResult.success => answered # {}

\* The probe does not outlive the timeout the scheduler gave it.
WithinTimeout == pingPC # "done" => now <= Timeout

\* The probe returns, whatever is lost.
ICMPReturns == <>(pingPC = "done")
=============================================================================
