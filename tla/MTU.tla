-------------------------------- MODULE MTU --------------------------------
(***************************************************************************)
(* The MTU prober (internal/probe/mtu.go) on its Linux ping-socket backend *)
(* (mtu_backend_linux.go): sanity echo, step-down over the configured      *)
(* payload sizes, retries, per-attempt and probe deadlines, the socket     *)
(* error queue and the classification of the outcome.  The path's true     *)
(* limits are part of the state, so that what the probe reports can be     *)
(* compared with what is the case.                                         *)
(***************************************************************************)
EXTENDS ProberOptions

mtuSanityPayloadSize == 64
mtuSanitySeq == 0
DefaultMTURetries == 3
Headers == 28        \* IP and ICMP headers

effectiveMTURetries == IF MTURetries < 1 THEN DefaultMTURetries ELSE MTURetries

VARIABLES
    limit,           \* largest payload that crosses the path
    local,           \* largest payload the local interface accepts
    mtuPC,           \* where Probe or probePingSocket is
    step,            \* 0: sanity check; i: Sizes[i]
    attempts,        \* statuses of the attempts of this step
    payloadResults,  \* statuses of the sizes tried so far
    tries,           \* how many attempts each of them took
    samples,         \* number of RTT samples
    mtuSent,         \* echo requests written so far: [seq, size]
    mtuCtxDone,      \* the probe's context has ended
    attemptDone,     \* the attempt's context has ended
    mtuResult

mtuVars == <<limit, local, mtuPC, step, attempts, payloadResults, tries, samples, mtuSent,
             mtuCtxDone, attemptDone, mtuResult>>

\* mtuPayloadError is two statuses here, by what isPermissionError says.
Errors == {"permission", "error"}
MTUStatuses == {"success", "too_large", "local_too_large", "timeout", "unreachable"} \union Errors

NoMTUResult == [state |-> "", detail |-> "", pathMTU |-> -1, success |-> FALSE,
             error |-> FALSE, replies |-> 0]

\* A result without a path MTU.  error: result.Error is not empty.
Failure(state, detail, replies) ==
    [NoMTUResult EXCEPT !.state = state, !.detail = detail, !.error = TRUE, !.replies = replies]

----------------------------------------------------------------------------
(* Classification *)

seqOf(i) == IF i = 0 THEN mtuSanitySeq ELSE Sizes[i]
sizeOf(i) == IF i = 0 THEN mtuSanityPayloadSize ELSE Sizes[i]

hasPayloadStatus(results, status) == \E i \in DOMAIN results : results[i] = status

\* The first status of this order that some attempt has.
Priority == <<"success", "unreachable", "permission", "error", "local_too_large",
              "too_large", "timeout">>

classifyPayloadAttempts(as) ==
    Priority[CHOOSE i \in DOMAIN Priority :
                /\ hasPayloadStatus(as, Priority[i])
                /\ \A j \in 1..i - 1 : ~hasPayloadStatus(as, Priority[j])]

detailForPriorPayloadFailures(results) ==
    IF hasPayloadStatus(results, "local_too_large") THEN "local_message_too_large"
    ELSE IF hasPayloadStatus(results, "too_large") THEN "fragmentation_needed"
    ELSE IF hasPayloadStatus(results, "timeout") THEN "larger_sizes_timed_out"
    ELSE "largest_size_confirmed"

detailForFailedPayloads(results) ==
    IF hasPayloadStatus(results, "local_too_large") THEN "local_message_too_large"
    ELSE IF hasPayloadStatus(results, "too_large") THEN "below_min_tested"
    ELSE "all_sizes_timed_out"

\* classifyMTUResult when a size succeeded after the failures in prior.
classifyMTUResult(size, prior, replies) ==
    LET mtu == size + Headers
        low == ExpectedMinMTU > 0 /\ mtu < ExpectedMinMTU
    IN  [state |-> IF low THEN "degraded" ELSE "ok",
         detail |-> detailForPriorPayloadFailures(prior),
         pathMTU |-> mtu, success |-> ~low, error |-> low, replies |-> replies]

\* A status that ends the probe, at the sanity check or at a size.
failureFor(status, replies) ==
    CASE status = "unreachable" -> Failure("unreachable", "destination_unreachable", replies)
      [] status = "permission"  -> Failure("error", "permission_denied", replies)
      [] status = "error"       -> Failure("error", "internal_error", replies)

\* Timeouts and too-large verdicts fail the check.
applySanityFailure(status) ==
    IF status \in {"unreachable"} \union Errors
      THEN failureFor(status, 0)
      ELSE Failure("unreachable", "sanity_check_failed", 0)

setMTUInconclusive(replies) == Failure("degraded", "inconclusive", replies)

----------------------------------------------------------------------------
MTUInit ==
    /\ limit \in Limits /\ local \in Limits
    /\ mtuPC = "resolve" /\ step = 0
    /\ attempts = <<>> /\ payloadResults = <<>> /\ tries = <<>>
    /\ samples = 0
    /\ mtuSent = {}
    /\ mtuCtxDone = FALSE /\ attemptDone = FALSE
    /\ mtuResult = NoMTUResult

ReturnMTU(r) == mtuResult' = r /\ mtuPC' = "done"

\* resolveIPv4, then the first look at the context.
MTUResolveFails ==
    /\ mtuPC = "resolve"
    /\ ReturnMTU(Failure("error", "resolve_error", 0))
    /\ UNCHANGED <<limit, local, step, attempts, payloadResults, tries, samples, mtuSent,
                   mtuCtxDone, attemptDone>>

Resolve ==
    /\ mtuPC = "resolve"
    /\ IF mtuCtxDone THEN ReturnMTU(setMTUInconclusive(0))
                     ELSE mtuPC' = "open" /\ UNCHANGED mtuResult
    /\ UNCHANGED <<limit, local, step, attempts, payloadResults, tries, samples, mtuSent,
                   mtuCtxDone, attemptDone>>

----------------------------------------------------------------------------
(* probePingSocket: one socket per attempt *)

AttemptReturns(status) ==
    /\ attempts' = Append(attempts, status)
    /\ mtuPC' = "retry"
    /\ UNCHANGED <<limit, local, step, payloadResults, tries, samples, mtuCtxDone, attemptDone,
                   mtuResult>>

\* context.WithTimeout and openMTUPingSocket.
Open ==
    /\ mtuPC = "open"
    /\ mtuPC' = "write"
    /\ attemptDone' = mtuCtxDone
    /\ UNCHANGED <<limit, local, step, attempts, payloadResults, tries, samples, mtuSent,
                   mtuCtxDone, mtuResult>>

OpenFails(e) ==
    /\ mtuPC = "open"
    /\ AttemptReturns(e) /\ UNCHANGED mtuSent

\* unix.Write: EMSGSIZE when the interface cannot take the packet.
WriteRequest ==
    /\ mtuPC = "write"
    /\ IF sizeOf(step) > local
         THEN AttemptReturns("local_too_large") /\ UNCHANGED mtuSent
         ELSE /\ mtuSent' = mtuSent \union {[seq |-> seqOf(step), size |-> sizeOf(step)]}
              /\ mtuPC' = "poll"
              /\ UNCHANGED <<limit, local, step, attempts, payloadResults, tries, samples,
                             mtuCtxDone, attemptDone, mtuResult>>

MTUSendFails(e) ==
    /\ mtuPC = "write"
    /\ AttemptReturns(e) /\ UNCHANGED mtuSent

\* The head of the poll loop: ctx.Err, pollTimeout.
PollExpired ==
    /\ mtuPC = "poll"
    /\ attemptDone
    /\ AttemptReturns("timeout") /\ UNCHANGED mtuSent

\* poll, read or recvmsg fails.
PollFails ==
    /\ mtuPC = "poll"
    /\ AttemptReturns("error") /\ UNCHANGED mtuSent

\* Mutant: every echo reply is taken for the answer.
echoReplyMatchesSequenceAny(r) == TRUE

\* An echo reply with another sequence number is not ours.
echoReplyMatchesSequence(r) == r.seq = seqOf(step)

\* An echo reply.  The kernel matches it to a socket by identifier, and may
\* give a socket the identifier of an earlier one: late and duplicate replies
\* to any earlier request are possible.
PollIn(r) ==
    /\ mtuPC = "poll"
    /\ ~attemptDone
    /\ r.size <= limit
    /\ IF echoReplyMatchesSequence(r)
         THEN AttemptReturns("success") /\ UNCHANGED mtuSent
         ELSE UNCHANGED mtuVars

\* What the error queue can hold for request r.
QueueEvents(r) ==
    {"unreachable", "unexpected"} \union (IF r.size > limit THEN {"fragNeeded"} ELSE {})
                                  \union (IF r.size > local THEN {"localTooLarge"} ELSE {})

\* Mutant: every ICMP destination-unreachable is read as fragmentation needed.
classifyMTUErrorQueueMessageLax(event) ==
    CASE event = "fragNeeded"    -> "too_large"
      [] event = "localTooLarge" -> "local_too_large"
      [] event = "unreachable"   -> "too_large"
      [] event = "unexpected"    -> "error"

classifyMTUErrorQueueMessage(event) ==
    CASE event = "fragNeeded"    -> "too_large"
      [] event = "localTooLarge" -> "local_too_large"
      [] event = "unreachable"   -> "unreachable"
      [] event = "unexpected"    -> "error"

\* drainMTUErrorQueue: a completely quoted packet must carry our sequence
\* number; a truncated quote is not looked at.
PollErr(r, event, quotedComplete) ==
    /\ mtuPC = "poll"
    /\ ~attemptDone
    /\ event \in QueueEvents(r)
    /\ IF quotedComplete /\ r.seq # seqOf(step)
         THEN UNCHANGED mtuVars
         ELSE AttemptReturns(classifyMTUErrorQueueMessage(event)) /\ UNCHANGED mtuSent

----------------------------------------------------------------------------
(* The retry loops and Probe *)

Decisive == {"success", "unreachable"} \union Errors

\* Mutant: the attempts are not counted.
RetryForever ==
    /\ mtuPC = "retry"
    /\ IF attempts[Len(attempts)] \in Decisive \/ mtuCtxDone
         THEN mtuPC' = "classify" /\ UNCHANGED attempts
         ELSE mtuPC' = "open" /\ attempts' = <<>>
    /\ UNCHANGED <<limit, local, step, payloadResults, tries, samples, mtuSent, mtuCtxDone,
                   attemptDone, mtuResult>>

\* probeSmallICMPEchoWithRetries, probePayloadWithDFRetries
Retry ==
    /\ mtuPC = "retry"
    /\ mtuPC' = IF \/ attempts[Len(attempts)] \in Decisive
                   \/ mtuCtxDone
                   \/ Len(attempts) = effectiveMTURetries
               THEN "classify" ELSE "open"
    /\ UNCHANGED <<limit, local, step, attempts, payloadResults, tries, samples, mtuSent,
                   mtuCtxDone, attemptDone, mtuResult>>

\* Mutant: a sanity check cut short by the probe's deadline is a failed one.
SanityNoCtxCheck ==
    /\ mtuPC = "classify" /\ step = 0
    /\ LET status == classifyPayloadAttempts(attempts)
       IN  IF status # "success"
             THEN /\ ReturnMTU(applySanityFailure(status))
                  /\ UNCHANGED <<step, attempts, samples>>
             ELSE /\ samples' = 1
                  /\ step' = 1 /\ attempts' = <<>>
                  /\ mtuPC' = "size"
                  /\ UNCHANGED mtuResult
    /\ tries' = <<Len(attempts)>>
    /\ UNCHANGED <<limit, local, payloadResults, mtuSent, mtuCtxDone, attemptDone>>

\* The sanity check's outcome.
Sanity ==
    /\ mtuPC = "classify" /\ step = 0
    /\ LET status == classifyPayloadAttempts(attempts)
       IN  IF status # "success"
             THEN /\ ReturnMTU(IF status = "timeout" /\ mtuCtxDone
                              THEN setMTUInconclusive(0) ELSE applySanityFailure(status))
                  /\ UNCHANGED <<step, attempts, samples>>
             ELSE /\ samples' = 1
                  /\ step' = 1 /\ attempts' = <<>>
                  /\ mtuPC' = "size"
                  /\ UNCHANGED mtuResult
    /\ tries' = <<Len(attempts)>>
    /\ UNCHANGED <<limit, local, payloadResults, mtuSent, mtuCtxDone, attemptDone>>

\* The head of the loop over the sizes, and what follows the last one.
NextSize ==
    /\ mtuPC = "size"
    /\ IF step > Len(Sizes)
         THEN ReturnMTU(Failure("degraded", detailForFailedPayloads(payloadResults), samples))
         ELSE IF mtuCtxDone
                THEN ReturnMTU(setMTUInconclusive(samples))
                ELSE mtuPC' = "open" /\ UNCHANGED mtuResult
    /\ UNCHANGED <<limit, local, step, attempts, payloadResults, tries, samples, mtuSent,
                   mtuCtxDone, attemptDone>>

\* The outcome of one size.
Payload ==
    /\ mtuPC = "classify" /\ step > 0
    /\ LET status  == classifyPayloadAttempts(attempts)
           replies == IF status = "success" THEN samples + 1 ELSE samples
       IN  /\ payloadResults' = Append(payloadResults, status)
           /\ samples' = replies
           /\ IF status = "timeout" /\ mtuCtxDone
                THEN ReturnMTU(setMTUInconclusive(replies))
                ELSE IF status = "success"
                       THEN ReturnMTU(classifyMTUResult(Sizes[step], payloadResults, replies))
                ELSE IF status \in Decisive
                       THEN ReturnMTU(failureFor(status, replies))
                ELSE mtuPC' = "size" /\ UNCHANGED mtuResult
    /\ tries' = Append(tries, Len(attempts))
    /\ step' = step + 1 /\ attempts' = <<>>
    /\ UNCHANGED <<limit, local, mtuSent, mtuCtxDone, attemptDone>>

----------------------------------------------------------------------------
(* Time *)

\* The per-attempt timeout.
AttemptDeadline ==
    /\ mtuPC = "poll" /\ ~attemptDone
    /\ attemptDone' = TRUE
    /\ UNCHANGED <<limit, local, mtuPC, step, attempts, payloadResults, tries, samples, mtuSent,
                   mtuCtxDone, mtuResult>>

\* The probe's deadline, or its cancellation.
MTUCtxDone ==
    /\ mtuPC # "done" /\ ~mtuCtxDone
    /\ mtuCtxDone' = TRUE /\ attemptDone' = TRUE
    /\ UNCHANGED <<limit, local, mtuPC, step, attempts, payloadResults, tries, samples, mtuSent,
                   mtuResult>>

MTUDone == mtuPC = "done" /\ UNCHANGED mtuVars

----------------------------------------------------------------------------
MTUStep ==
    \/ MTUResolveFails \/ Resolve
    \/ Open \/ WriteRequest
    \/ \E e \in Errors : OpenFails(e) \/ MTUSendFails(e)
    \/ PollExpired \/ Retry \/ Sanity \/ NextSize \/ Payload

MTUNext ==
    \/ MTUStep
    \/ PollFails
    \/ \E r \in mtuSent : \/ PollIn(r)
                          \/ \E event \in QueueEvents(r), complete \in BOOLEAN :
                                PollErr(r, event, complete)
    \/ AttemptDeadline \/ MTUCtxDone
    \/ MTUDone

MTUSpec == MTUInit /\ [][MTUNext]_mtuVars

\* The goroutine runs and timers fire; no message is sure to arrive.
MTUFairness == WF_mtuVars(MTUStep) /\ WF_mtuVars(AttemptDeadline)
MTUFairSpec == MTUSpec /\ MTUFairness

----------------------------------------------------------------------------
(* Properties *)

States == {"ok", "degraded", "unreachable", "error"}
Details == {"largest_size_confirmed", "fragmentation_needed", "larger_sizes_timed_out",
            "below_min_tested", "all_sizes_timed_out", "sanity_check_failed",
            "destination_unreachable", "local_message_too_large", "permission_denied",
            "resolve_error", "internal_error", "inconclusive"}
MTUs == {-1} \union {Sizes[i] + Headers : i \in DOMAIN Sizes}

\* The types of the probe; no more attempts than the retries allow
\* (mtu.go:239-284).
MTUTypeOK ==
    /\ limit \in Limits /\ local \in Limits
    /\ mtuPC \in {"resolve", "open", "write", "poll", "retry", "classify", "size", "done"}
    /\ step \in 0..Len(Sizes) + 1
    /\ attempts \in Seq(MTUStatuses) /\ Len(attempts) <= effectiveMTURetries
    /\ payloadResults \in Seq(MTUStatuses) /\ Len(payloadResults) <= Len(Sizes)
    /\ tries \in Seq(1..effectiveMTURetries)
    /\ samples \in 0..2
    /\ mtuSent \subseteq {[seq |-> seqOf(i), size |-> sizeOf(i)] : i \in 0..Len(Sizes)}
    /\ mtuCtxDone \in BOOLEAN /\ attemptDone \in BOOLEAN
    /\ mtuPC # "done" => mtuResult = NoMTUResult
    /\ mtuPC = "done" =>
          mtuResult \in [state : States, detail : Details, pathMTU : MTUs,
                      success : BOOLEAN, error : BOOLEAN, replies : 0..2]

\* A reported path MTU is real: a packet of that size crossed the path and
\* the local interface, whatever late or duplicate replies the sockets saw.
NeverOverestimates ==
    mtuResult.pathMTU # -1 => /\ mtuResult.pathMTU <= limit + Headers
                              /\ mtuResult.pathMTU <= local + Headers

\* A probe cut short by its deadline does not pass for a completed one: a
\* verdict that rests on timeouts (docs/mtu-pmtud.md:421-430) was reached
\* with all the retries at every size, and at the sanity check, that timed
\* out; nor is a probe that had its time reported as inconclusive.
TimeoutsAreComplete ==
    mtuPC = "done" =>
        /\ mtuResult.detail = "sanity_check_failed" /\ attempts # <<>>
              /\ classifyPayloadAttempts(attempts) = "timeout"
              => tries[1] = effectiveMTURetries
        /\ mtuResult.detail \in {"all_sizes_timed_out", "larger_sizes_timed_out",
                              "below_min_tested", "fragmentation_needed",
                              "local_message_too_large"}
              => \A i \in DOMAIN payloadResults :
                    payloadResults[i] = "timeout" => tries[i + 1] = effectiveMTURetries
        /\ mtuResult.detail = "inconclusive" => mtuCtxDone

\* The detail label tells the truth about the path: fragmentation feedback is
\* reported only if the largest size does not fit the path, a local refusal
\* only if it does not fit the interface, and a confirmed largest size means
\* that this size is the reported MTU.
DetailIsTrue ==
    mtuPC = "done" =>
        /\ mtuResult.detail \in {"fragmentation_needed", "below_min_tested"} => Sizes[1] > limit
        /\ mtuResult.detail = "local_message_too_large" => Sizes[1] > local
        /\ mtuResult.detail = "largest_size_confirmed" => mtuResult.pathMTU = Sizes[1] + Headers

\* The probe returns, even if no message ever arrives.
MTUReturns == <>(mtuPC = "done")
=============================================================================
