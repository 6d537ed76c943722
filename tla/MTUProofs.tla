----------------------------- MODULE MTUProofs -----------------------------
(***************************************************************************)
(* A reported path MTU and its detail label tell the truth about the path, *)
(* whatever late, duplicate or misattributed messages the sockets see: for *)
(* every list of sizes, number of retries and pair of limits.              *)
(***************************************************************************)
EXTENDS MTU, SequenceTheorems, TLAPS

Attempting == {"open", "write", "poll", "retry", "classify"}

StepInv ==
    /\ limit \in Nat /\ local \in Nat
    /\ mtuPC \in {"resolve", "size", "done"} \union Attempting
    /\ step \in 0..Len(Sizes) + 1
    /\ mtuPC \in Attempting => step <= Len(Sizes)
    /\ mtuPC = "resolve" => step = 0
    /\ mtuPC = "size" => step > 0
    /\ attempts \in Seq(MTUStatuses)
    /\ mtuPC \in {"retry", "classify"} => attempts # <<>>
    /\ mtuPC # "done" => mtuResult = NoMTUResult

\* What was written fits the interface.
SentInv ==
    \A r \in mtuSent :
        /\ \E i \in 0..Len(Sizes) : r = [seq |-> seqOf(i), size |-> sizeOf(i)]
        /\ r.size <= local

\* What the statuses of the current step say of the path and the interface.
AttemptsTrue ==
    /\ hasPayloadStatus(attempts, "success") => sizeOf(step) <= limit /\ sizeOf(step) <= local
    /\ step > 0 =>
         /\ mtuSanityPayloadSize <= limit
         /\ hasPayloadStatus(attempts, "too_large") => Sizes[1] > limit
         /\ hasPayloadStatus(attempts, "local_too_large") => Sizes[1] > local
    /\ mtuPC = "poll" => sizeOf(step) <= local

\* What the sizes tried so far say of them.
PriorTrue ==
    mtuPC # "done" =>
        /\ payloadResults \in Seq({"too_large", "local_too_large", "timeout"})
        /\ Len(payloadResults) = IF step = 0 THEN 0 ELSE step - 1
        /\ hasPayloadStatus(payloadResults, "too_large") => Sizes[1] > limit
        /\ hasPayloadStatus(payloadResults, "local_too_large") => Sizes[1] > local

MTUInv ==
    /\ StepInv /\ SentInv /\ AttemptsTrue /\ PriorTrue
    /\ NeverOverestimates /\ DetailIsTrue

----------------------------------------------------------------------------
\* A sequence that is not empty has a first element.
LEMMA FirstElement ==
    ASSUME NEW T, NEW s \in Seq(T), s # <<>>
    PROVE  1 \in DOMAIN s /\ s[1] \in T
<1>1. Len(s) \in Nat \ {0}
  BY EmptySeq
<1>2. 1 \in DOMAIN s
  BY <1>1, LenProperties
<1>3. s[1] \in T
  BY <1>1, ElementOfSeq
<1> QED
  BY <1>2, <1>3

\* The verdict on a step is the status of one of its attempts.
LEMMA ClassifyPayloadAttempts ==
    ASSUME NEW sts \in Seq(MTUStatuses), sts # <<>>
    PROVE  /\ hasPayloadStatus(sts, classifyPayloadAttempts(sts))
           /\ classifyPayloadAttempts(sts) \in MTUStatuses
<1> DEFINE Has(i) == hasPayloadStatus(sts, Priority[i])
           First(i) == Has(i) /\ \A j \in 1..i - 1 : ~Has(j)
<1>1. DOMAIN Priority = 1..7
  BY DEF Priority
<1>2. \E i \in 1..7 : Has(i)
  <2>1. 1 \in DOMAIN sts /\ sts[1] \in MTUStatuses
    BY FirstElement
  <2>2. \A x \in MTUStatuses : \E i \in 1..7 : Priority[i] = x
    <3>1. /\ Priority[1] = "success" /\ Priority[2] = "unreachable"
          /\ Priority[3] = "permission" /\ Priority[4] = "error"
          /\ Priority[5] = "local_too_large" /\ Priority[6] = "too_large"
          /\ Priority[7] = "timeout"
      BY DEF Priority
    <3>2. {1, 2, 3, 4, 5, 6, 7} \subseteq 1..7
      OBVIOUS
    <3> QED
      BY <3>1, <3>2 DEF MTUStatuses, Errors
  <2> QED
    BY <2>1, <2>2 DEF hasPayloadStatus
<1>3. \A i \in 1..7 : Priority[i] \in MTUStatuses
  BY DEF Priority, MTUStatuses, Errors
<1> HIDE DEF Has
<1>4. \E i \in 1..7 : First(i)
  BY <1>2
<1>5. PICK i \in 1..7 : First(i) /\ classifyPayloadAttempts(sts) = Priority[i]
  BY <1>1, <1>4 DEF classifyPayloadAttempts, Has
<1> QED
  BY <1>3, <1>5 DEF Has

\* One more status.
LEMMA AppendStatus ==
    ASSUME NEW T, NEW s \in Seq(T), NEW e \in T, NEW x
    PROVE  hasPayloadStatus(Append(s, e), x) <=> hasPayloadStatus(s, x) \/ e = x
<1>1. /\ \A i \in 1..Len(s) : Append(s, e)[i] = s[i]
      /\ Append(s, e)[Len(s) + 1] = e
  BY AppendProperties
<1>2. DOMAIN Append(s, e) = 1..Len(s) + 1 /\ DOMAIN s = 1..Len(s) /\ Len(s) \in Nat
  BY AppendProperties, LenProperties
<1> QED
  BY <1>1, <1>2 DEF hasPayloadStatus

\* Sizes[1] is the largest size.
LEMMA LargestFirst ==
    \A i \in 1..Len(Sizes) : /\ Sizes[i] \in Nat \ {0} /\ Sizes[1] \in Nat
                             /\ Sizes[i] <= Sizes[1]
  BY SizesAssumption

LEMMA Initially == MTUInit => MTUInv
<1> SUFFICES ASSUME MTUInit PROVE MTUInv
  OBVIOUS
<1> USE SizesAssumption, MTUAssumption DEF MTUInit
<1>1. StepInv /\ SentInv
  BY DEF StepInv, SentInv, Attempting
<1>2. AttemptsTrue /\ PriorTrue
  BY DEF AttemptsTrue, PriorTrue, hasPayloadStatus
<1>3. NeverOverestimates /\ DetailIsTrue
  BY DEF NeverOverestimates, DetailIsTrue, NoMTUResult
<1> QED
  BY <1>1, <1>2, <1>3 DEF MTUInv

\* An attempt that returns a status the network or the interface justifies.
LEMMA AttemptStep ==
    ASSUME MTUInv, NEW status \in MTUStatuses, AttemptReturns(status), UNCHANGED mtuSent,
           mtuPC \in Attempting, mtuPC # "retry", mtuPC # "classify",
           status = "success" => sizeOf(step) <= limit /\ sizeOf(step) <= local,
           status = "too_large" /\ step > 0 => Sizes[1] > limit,
           status = "local_too_large" /\ step > 0 => Sizes[1] > local
    PROVE  MTUInv'
<1> USE DEF AttemptReturns, MTUInv
<1>1. attempts \in Seq(MTUStatuses)
  BY DEF StepInv
<1>2. \A x : hasPayloadStatus(attempts', x) <=> hasPayloadStatus(attempts, x) \/ status = x
  BY <1>1, AppendStatus
<1>3. StepInv'
  BY <1>1 DEF StepInv, Attempting
<1>4. SentInv'
  BY DEF SentInv, seqOf, sizeOf
<1>5. AttemptsTrue'
  BY <1>2 DEF AttemptsTrue, sizeOf
<1>6. PriorTrue'
  BY DEF PriorTrue, hasPayloadStatus, Attempting
<1>7. NeverOverestimates' /\ DetailIsTrue'
  BY DEF NeverOverestimates, DetailIsTrue
<1> QED
  BY <1>3, <1>4, <1>5, <1>6, <1>7

\* Steps that change neither the attempts nor what they are compared with.
LEMMA ControlStep ==
    ASSUME MTUInv,
           \/ MTUResolveFails \/ Resolve \/ Open \/ Retry
           \/ AttemptDeadline \/ MTUCtxDone \/ UNCHANGED mtuVars
    PROVE  MTUInv'
<1> USE DEF MTUInv
<1>1. UNCHANGED <<limit, local, step, attempts, payloadResults, mtuSent>>
  BY DEF MTUResolveFails, Resolve, Open, Retry, AttemptDeadline, MTUCtxDone, mtuVars
<1>2. SentInv'
  BY <1>1 DEF SentInv
<1>3. StepInv' /\ AttemptsTrue' /\ PriorTrue'
  BY <1>1 DEF MTUResolveFails, Resolve, Open, Retry, AttemptDeadline, MTUCtxDone, mtuVars, ReturnMTU,
              StepInv, AttemptsTrue, PriorTrue, Attempting, hasPayloadStatus
<1>4. NeverOverestimates' /\ DetailIsTrue'
  <2>1. CASE UNCHANGED <<mtuPC, mtuResult>>
    BY <1>1, <2>1 DEF NeverOverestimates, DetailIsTrue
  <2>2. CASE UNCHANGED mtuResult /\ mtuPC' # "done"
    BY <1>1, <2>2 DEF NeverOverestimates, DetailIsTrue
  <2>3. CASE mtuResult' \in {Failure("error", "resolve_error", 0), setMTUInconclusive(0)}
    BY <2>3 DEF NeverOverestimates, DetailIsTrue, Failure, setMTUInconclusive, NoMTUResult
  <2> QED
    BY <2>1, <2>2, <2>3
       DEF MTUResolveFails, Resolve, Open, Retry, AttemptDeadline, MTUCtxDone, mtuVars, ReturnMTU
<1> QED
  BY <1>2, <1>3, <1>4

\* One write: what the interface refuses does not fit it.
LEMMA WriteStep ==
    ASSUME MTUInv, WriteRequest
    PROVE  MTUInv'
<1> USE DEF MTUInv
<1>1. CASE sizeOf(step) > local
  <2>1. step > 0 => Sizes[1] > local
    BY <1>1, LargestFirst DEF WriteRequest, StepInv, Attempting, sizeOf
  <2> QED
    BY <1>1, <2>1, AttemptStep DEF WriteRequest, Attempting, MTUStatuses
<1>2. CASE ~(sizeOf(step) > local)
  <2>1. /\ mtuSent' = mtuSent \union {[seq |-> seqOf(step), size |-> sizeOf(step)]}
        /\ mtuPC = "write" /\ mtuPC' = "poll"
        /\ UNCHANGED <<limit, local, step, attempts, payloadResults, mtuResult>>
    BY <1>2 DEF WriteRequest
  <2>2. sizeOf(step) \in Nat /\ sizeOf(step) <= local /\ step \in 0..Len(Sizes)
    BY <1>2, <2>1, LargestFirst, SizesAssumption
       DEF StepInv, Attempting, sizeOf, mtuSanityPayloadSize
  <2>3. SentInv'
    BY <2>1, <2>2 DEF SentInv
  <2>4. StepInv' /\ PriorTrue'
    BY <2>1 DEF StepInv, PriorTrue, Attempting, hasPayloadStatus
  <2>5. AttemptsTrue'
    <3>1. sizeOf(step)' = sizeOf(step)
      BY <2>1 DEF sizeOf
    <3> QED
      BY <2>1, <2>2, <3>1 DEF AttemptsTrue, hasPayloadStatus
  <2>6. NeverOverestimates' /\ DetailIsTrue'
    BY <2>1 DEF NeverOverestimates, DetailIsTrue
  <2> QED
    BY <2>3, <2>4, <2>5, <2>6
<1> QED
  BY <1>1, <1>2

\* Attempts that end in a timeout or a failure of the socket.
LEMMA SocketStep ==
    ASSUME MTUInv,
           \/ PollExpired \/ PollFails
           \/ \E e \in Errors : OpenFails(e) \/ MTUSendFails(e)
    PROVE  MTUInv'
<1>1. PICK status \in {"timeout"} \union Errors :
        AttemptReturns(status) /\ UNCHANGED mtuSent /\ mtuPC \in {"open", "write", "poll"}
  BY DEF PollExpired, PollFails, OpenFails, MTUSendFails, Errors
<1> QED
  BY <1>1, AttemptStep DEF MTUStatuses, Errors, Attempting

\* A matching echo reply: its sequence number is the size it was sent with.
LEMMA ReplyStep ==
    ASSUME MTUInv, NEW r \in mtuSent, PollIn(r)
    PROVE  MTUInv'
<1>1. CASE echoReplyMatchesSequence(r)
  <2>1. PICK i \in 0..Len(Sizes) : r = [seq |-> seqOf(i), size |-> sizeOf(i)]
    BY DEF MTUInv, SentInv
  <2>2. r.size = sizeOf(step)
    <3>1. seqOf(i) = seqOf(step) /\ step \in 0..Len(Sizes)
      BY <1>1, <2>1, SizesAssumption
         DEF echoReplyMatchesSequence, PollIn, MTUInv, StepInv, Attempting
    <3>2. \A j \in 1..Len(Sizes) : Sizes[j] # mtuSanitySeq
      BY LargestFirst DEF mtuSanitySeq
    <3> QED
      BY <2>1, <3>1, <3>2, SizesAssumption DEF seqOf, sizeOf
  <2>3. sizeOf(step) <= limit /\ sizeOf(step) <= local
    BY <2>2 DEF PollIn, MTUInv, AttemptsTrue
  <2> QED
    BY <1>1, <2>3, AttemptStep DEF PollIn, MTUStatuses, Attempting
<1>2. CASE ~echoReplyMatchesSequence(r)
  BY <1>2, ControlStep DEF PollIn
<1> QED
  BY <1>1, <1>2

\* A message of the error queue, about this request or, truncated, about another.
LEMMA QueueStep ==
    ASSUME MTUInv, NEW r \in mtuSent, NEW event \in QueueEvents(r), NEW complete \in BOOLEAN,
           PollErr(r, event, complete)
    PROVE  MTUInv'
<1>1. CASE complete /\ r.seq # seqOf(step)
  BY <1>1, ControlStep DEF PollErr
<1>2. CASE ~(complete /\ r.seq # seqOf(step))
  <2> DEFINE status == classifyMTUErrorQueueMessage(event)
  <2>1. AttemptReturns(status) /\ UNCHANGED mtuSent /\ mtuPC = "poll"
    BY <1>2 DEF PollErr
  <2>2. PICK i \in 0..Len(Sizes) : r = [seq |-> seqOf(i), size |-> sizeOf(i)]
    BY DEF MTUInv, SentInv
  <2>3. r.size \in Nat /\ r.size <= local /\ limit \in Nat /\ local \in Nat
    BY <2>2, LargestFirst, SizesAssumption
       DEF MTUInv, SentInv, StepInv, sizeOf, mtuSanityPayloadSize
  <2>4. event \in {"unreachable", "unexpected"} \/ (event = "fragNeeded" /\ r.size > limit)
    BY <2>3 DEF QueueEvents
  <2>5. status \in {"unreachable", "error"} \/ (status = "too_large" /\ r.size > limit)
    BY <2>4 DEF classifyMTUErrorQueueMessage
  <2> HIDE DEF status
  <2>6. ASSUME r.size > limit, step > 0 PROVE Sizes[1] > limit
    <3>1. mtuSanityPayloadSize <= limit
      BY <2>6 DEF MTUInv, AttemptsTrue
    <3>2. i # 0
      BY <2>2, <2>3, <2>6, <3>1 DEF sizeOf, mtuSanityPayloadSize
    <3> QED
      BY <2>2, <2>3, <2>6, <3>2, LargestFirst DEF sizeOf
  <2> QED
    BY <2>1, <2>5, <2>6, AttemptStep DEF MTUStatuses, Errors, Attempting
<1> QED
  BY <1>1, <1>2

\* A result without a path MTU, with a label that needs no evidence, is true.
LEMMA PlainFailure ==
    ASSUME NEW state, NEW detail, NEW replies,
           detail \notin {"fragmentation_needed", "below_min_tested",
                         "local_message_too_large", "largest_size_confirmed"},
           mtuResult' = Failure(state, detail, replies)
    PROVE  NeverOverestimates' /\ DetailIsTrue'
  BY DEF NeverOverestimates, DetailIsTrue, Failure, NoMTUResult

\* The sizes are tried only after an echo of the sanity size has come back.
LEMMA SanityStep ==
    ASSUME MTUInv, Sanity
    PROVE  MTUInv'
<1> DEFINE status == classifyPayloadAttempts(attempts)
<1>1. /\ hasPayloadStatus(attempts, status) /\ status \in MTUStatuses
      /\ mtuPC = "classify" /\ step = 0
      /\ UNCHANGED <<limit, local, payloadResults, mtuSent>>
  BY ClassifyPayloadAttempts DEF Sanity, MTUInv, StepInv
<1>2. SentInv'
  BY <1>1 DEF MTUInv, SentInv
<1>3. CASE status = "success"
  <2>1. /\ step' = 1 /\ attempts' = <<>> /\ mtuPC' = "size" /\ UNCHANGED mtuResult
    BY <1>3 DEF Sanity
  <2>2. mtuSanityPayloadSize <= limit
    BY <1>1, <1>3 DEF MTUInv, AttemptsTrue, sizeOf
  <2>3. StepInv'
    BY <1>1, <2>1, SizesAssumption DEF MTUInv, StepInv, Attempting
  <2>4. AttemptsTrue'
    BY <1>1, <2>1, <2>2 DEF AttemptsTrue, hasPayloadStatus
  <2>5. PriorTrue'
    BY <1>1, <2>1 DEF MTUInv, PriorTrue, hasPayloadStatus
  <2>6. NeverOverestimates' /\ DetailIsTrue'
    BY <1>1, <2>1 DEF MTUInv, NeverOverestimates, DetailIsTrue
  <2> QED
    BY <1>2, <2>3, <2>4, <2>5, <2>6 DEF MTUInv
<1>4. CASE status # "success"
  <2>1. /\ mtuPC' = "done" /\ UNCHANGED <<step, attempts>>
        /\ mtuResult' = IF status = "timeout" /\ mtuCtxDone
                       THEN setMTUInconclusive(0) ELSE applySanityFailure(status)
    BY <1>4 DEF Sanity, ReturnMTU
  <2>2. StepInv' /\ AttemptsTrue' /\ PriorTrue'
    BY <1>1, <2>1 DEF MTUInv, StepInv, AttemptsTrue, PriorTrue, Attempting, hasPayloadStatus,
                      sizeOf
  <2>3. NeverOverestimates' /\ DetailIsTrue'
    BY <2>1, PlainFailure DEF setMTUInconclusive, applySanityFailure, failureFor, Errors
  <2> QED
    BY <1>2, <2>2, <2>3 DEF MTUInv
<1> QED
  BY <1>3, <1>4

LEMMA NextSizeStep ==
    ASSUME MTUInv, NextSize
    PROVE  MTUInv'
<1> USE DEF MTUInv
<1>1. /\ mtuPC = "size" /\ UNCHANGED <<limit, local, step, attempts, payloadResults, mtuSent>>
      /\ step \in Nat /\ Len(Sizes) \in Nat
  BY SizesAssumption DEF NextSize, StepInv
<1>2. SentInv'
  BY <1>1 DEF SentInv
<1>3. StepInv' /\ AttemptsTrue' /\ PriorTrue'
  BY <1>1 DEF NextSize, ReturnMTU, StepInv, AttemptsTrue, PriorTrue, Attempting,
              hasPayloadStatus, sizeOf
<1>4. NeverOverestimates' /\ DetailIsTrue'
  <2>1. CASE step > Len(Sizes)
    <3>1. mtuResult' = Failure("degraded", detailForFailedPayloads(payloadResults), samples)
      BY <2>1 DEF NextSize, ReturnMTU
    <3> QED
      BY <1>1, <3>1 DEF NeverOverestimates, DetailIsTrue, Failure, NoMTUResult,
                        detailForFailedPayloads, PriorTrue
  <2>2. CASE ~(step > Len(Sizes)) /\ mtuCtxDone
    BY <2>2, PlainFailure DEF NextSize, ReturnMTU, setMTUInconclusive
  <2>3. CASE ~(step > Len(Sizes)) /\ ~mtuCtxDone
    BY <1>1, <2>3 DEF NextSize, NeverOverestimates, DetailIsTrue
  <2> QED
    BY <2>1, <2>2, <2>3
<1> QED
  BY <1>2, <1>3, <1>4

\* A size that succeeds fits; the failures before it are those of larger sizes.
LEMMA PayloadStep ==
    ASSUME MTUInv, Payload
    PROVE  MTUInv'
<1> DEFINE status  == classifyPayloadAttempts(attempts)
           replies == IF status = "success" THEN samples + 1 ELSE samples
<1>1. /\ mtuPC = "classify" /\ step \in 1..Len(Sizes) /\ Len(Sizes) \in Nat
      /\ step' = step + 1 /\ attempts' = <<>>
      /\ payloadResults' = Append(payloadResults, status)
      /\ UNCHANGED <<limit, local, mtuSent>>
  BY SizesAssumption DEF Payload, MTUInv, StepInv, Attempting
<1>2. hasPayloadStatus(attempts, status) /\ status \in MTUStatuses
  BY <1>1, ClassifyPayloadAttempts DEF MTUInv, StepInv
<1>3. /\ IF status = "timeout" /\ mtuCtxDone
           THEN ReturnMTU(setMTUInconclusive(replies))
           ELSE IF status = "success"
                  THEN ReturnMTU(classifyMTUResult(Sizes[step], payloadResults, replies))
           ELSE IF status \in Decisive
                  THEN ReturnMTU(failureFor(status, replies))
           ELSE mtuPC' = "size" /\ UNCHANGED mtuResult
  BY DEF Payload
<1> HIDE DEF status, replies
<1>4. SentInv'
  BY <1>1 DEF MTUInv, SentInv
<1>5. AttemptsTrue'
  BY <1>1, <1>3 DEF MTUInv, AttemptsTrue, hasPayloadStatus, ReturnMTU
<1>6. StepInv'
  BY <1>1, <1>3 DEF MTUInv, StepInv, Attempting, ReturnMTU
<1>7. CASE mtuPC' = "size" /\ UNCHANGED mtuResult
  <2>1. status \in {"too_large", "local_too_large", "timeout"}
    BY <1>2, <1>3, <1>7 DEF MTUStatuses, Errors, Decisive, ReturnMTU
  <2>2. /\ payloadResults \in Seq({"too_large", "local_too_large", "timeout"})
        /\ Len(payloadResults) = step - 1
    BY <1>1 DEF MTUInv, PriorTrue
  <2>3. /\ payloadResults' \in Seq({"too_large", "local_too_large", "timeout"})
        /\ Len(payloadResults') = Len(payloadResults) + 1
    BY <1>1, <2>1, <2>2, AppendProperties
  <2>4. \A x : hasPayloadStatus(payloadResults', x)
                <=> hasPayloadStatus(payloadResults, x) \/ status = x
    BY <1>1, <2>1, <2>2, AppendStatus
  <2>5. PriorTrue'
    BY <1>1, <1>2, <2>2, <2>3, <2>4 DEF MTUInv, PriorTrue, AttemptsTrue
  <2>6. NeverOverestimates' /\ DetailIsTrue'
    BY <1>1, <1>7 DEF MTUInv, NeverOverestimates, DetailIsTrue
  <2> QED
    BY <1>4, <1>5, <1>6, <2>5, <2>6 DEF MTUInv
<1>8. CASE mtuPC' = "done"
  <2>1. PriorTrue'
    BY <1>8 DEF PriorTrue
  <2>2. CASE status = "success"
    <3>1. mtuResult' = classifyMTUResult(Sizes[step], payloadResults, replies)
      BY <1>3, <2>2 DEF ReturnMTU
    <3>2. Sizes[step] <= limit /\ Sizes[step] <= local
      BY <1>1, <1>2, <2>2 DEF MTUInv, AttemptsTrue, sizeOf
    <3>3. /\ mtuResult'.pathMTU = Sizes[step] + Headers
          /\ mtuResult'.detail = detailForPriorPayloadFailures(payloadResults)
      BY <3>1 DEF classifyMTUResult
    <3>4. NeverOverestimates'
      BY <1>1, <3>2, <3>3, LargestFirst DEF NeverOverestimates, Headers, MTUInv, StepInv
    <3>5. payloadResults = <<>> \/ detailForPriorPayloadFailures(payloadResults) # "largest_size_confirmed"
      <4>1. payloadResults \in Seq({"too_large", "local_too_large", "timeout"})
        BY <1>1 DEF MTUInv, PriorTrue
      <4>2. ASSUME payloadResults # <<>>
            PROVE  \E x \in {"too_large", "local_too_large", "timeout"} :
                      hasPayloadStatus(payloadResults, x)
        <5>1. /\ 1 \in DOMAIN payloadResults
              /\ payloadResults[1] \in {"too_large", "local_too_large", "timeout"}
          BY <4>1, <4>2, FirstElement
        <5> QED
          BY <5>1 DEF hasPayloadStatus
      <4> QED
        BY <4>2 DEF detailForPriorPayloadFailures
    <3>6. payloadResults = <<>> => step = 1
      BY <1>1, EmptySeq DEF MTUInv, PriorTrue
    <3>7. DetailIsTrue'
      BY <1>1, <3>3, <3>5, <3>6
         DEF DetailIsTrue, detailForPriorPayloadFailures, MTUInv, PriorTrue
    <3> QED
      BY <1>4, <1>5, <1>6, <2>1, <3>4, <3>7 DEF MTUInv
  <2>3. CASE status # "success"
    <3>1. \/ mtuResult' = setMTUInconclusive(replies)
          \/ status \in {"unreachable"} \union Errors /\ mtuResult' = failureFor(status, replies)
      BY <1>3, <1>8, <2>3 DEF ReturnMTU, Decisive
    <3>2. NeverOverestimates' /\ DetailIsTrue'
      BY <3>1, PlainFailure DEF setMTUInconclusive, failureFor, Errors
    <3> QED
      BY <1>4, <1>5, <1>6, <2>1, <3>2 DEF MTUInv
  <2> QED
    BY <2>2, <2>3
<1> QED
  BY <1>3, <1>7, <1>8 DEF ReturnMTU

----------------------------------------------------------------------------
\* The inductive invariant of the step-down (mtu.go:74-211): every status that was
\* recorded is true of the path and the interface.
THEOREM MTUInvariant == MTUSpec => []MTUInv
<1>1. MTUInv /\ [MTUNext]_mtuVars => MTUInv'
  BY ControlStep, WriteStep, SocketStep, ReplyStep, QueueStep, SanityStep, NextSizeStep,
     PayloadStep DEF MTUNext, MTUStep, MTUDone
<1> QED
  BY <1>1, Initially, PTL DEF MTUSpec

\* A reported path MTU crossed the path and the interface: an attempt succeeds only
\* on a reply with the sequence number of its size (mtu_backend_linux.go).
THEOREM MTUNeverOverestimates == MTUSpec => []NeverOverestimates
<1>1. MTUInv => NeverOverestimates
  BY DEF MTUInv
<1> QED
  BY <1>1, MTUInvariant, PTL

\* The detail label of a result is true of the path (classifyMTUResult, mtu.go),
\* although truncated quotes in the error queue are not attributed.
THEOREM MTUDetailIsTrue == MTUSpec => []DetailIsTrue
<1>1. MTUInv => DetailIsTrue
  BY DEF MTUInv
<1> QED
  BY <1>1, MTUInvariant, PTL

----------------------------------------------------------------------------
(* Verdicts that rest on timeouts *)

\* A step is classified when an attempt was decisive, the retries were used up
\* or the probe's time was; the sizes left behind used up their retries.
RetryInv ==
    /\ mtuPC = "classify" => \/ mtuCtxDone
                             \/ Len(attempts) = effectiveMTURetries
                             \/ attempts[Len(attempts)] \in Decisive
    /\ mtuPC # "done" =>
         /\ tries \in Seq(Nat) /\ Len(tries) = step
         /\ \A i \in DOMAIN payloadResults :
               payloadResults[i] = "timeout" => tries[i + 1] = effectiveMTURetries

TimeoutsInv == RetryInv /\ TimeoutsAreComplete

\* Only attempts that were all indecisive are classified as a timeout.
LEMMA TimeoutIsIndecisive ==
    ASSUME NEW sts \in Seq(MTUStatuses), sts # <<>>, classifyPayloadAttempts(sts) = "timeout"
    PROVE  sts[Len(sts)] \notin Decisive
<1> DEFINE Has(i) == hasPayloadStatus(sts, Priority[i])
           First(i) == Has(i) /\ \A j \in 1..i - 1 : ~Has(j)
<1>1. DOMAIN Priority = 1..7
  BY DEF Priority
<1>2. hasPayloadStatus(sts, "timeout")
  BY ClassifyPayloadAttempts
<1>3. /\ Priority[1] = "success" /\ Priority[2] = "unreachable"
      /\ Priority[3] = "permission" /\ Priority[4] = "error"
      /\ Priority[5] = "local_too_large" /\ Priority[6] = "too_large"
      /\ Priority[7] = "timeout"
  BY DEF Priority
<1>4. Has(7)
  BY <1>2, <1>3
<1> HIDE DEF Has
<1>5. \E i \in 1..7 : First(i)
  BY <1>4
<1>6. PICK i \in 1..7 : First(i) /\ Priority[i] = "timeout"
  BY <1>1, <1>5 DEF classifyPayloadAttempts, Has
<1>7. i = 7
  BY <1>3, <1>6
<1>8. ~Has(1) /\ ~Has(2) /\ ~Has(3) /\ ~Has(4)
  BY <1>6, <1>7
<1>9. Len(sts) \in DOMAIN sts
  <2>1. Len(sts) \in Nat \ {0} /\ DOMAIN sts = 1..Len(sts)
    BY EmptySeq, LenProperties
  <2> QED
    BY <2>1
<1> QED
  BY <1>3, <1>8, <1>9 DEF Has, hasPayloadStatus, Decisive, Errors

\* A timeout that the probe's deadline did not cut short took all the retries.
LEMMA TimeoutTookRetries ==
    ASSUME MTUInv, RetryInv, mtuPC = "classify", ~mtuCtxDone,
           classifyPayloadAttempts(attempts) = "timeout"
    PROVE  Len(attempts) = effectiveMTURetries
  BY TimeoutIsIndecisive DEF MTUInv, StepInv, RetryInv

\* One more size, with its status and its number of attempts.
LEMMA AppendTry ==
    ASSUME NEW T, NEW ps \in Seq(T), NEW status \in T, NEW ts \in Seq(Nat), NEW n \in Nat,
           Len(ts) = Len(ps) + 1, NEW all,
           \A i \in DOMAIN ps : ps[i] = "timeout" => ts[i + 1] = all,
           status = "timeout" => n = all
    PROVE  \A i \in DOMAIN Append(ps, status) :
              Append(ps, status)[i] = "timeout" => Append(ts, n)[i + 1] = all
<1>1. Len(ps) \in Nat /\ DOMAIN ps = 1..Len(ps)
  BY LenProperties
<1>2. /\ DOMAIN Append(ps, status) = 1..Len(ps) + 1
      /\ \A i \in 1..Len(ps) : Append(ps, status)[i] = ps[i]
      /\ Append(ps, status)[Len(ps) + 1] = status
  BY AppendProperties, LenProperties, <1>1
<1>3. /\ \A i \in 1..Len(ts) : Append(ts, n)[i] = ts[i]
      /\ Append(ts, n)[Len(ts) + 1] = n
  BY AppendProperties
<1> SUFFICES ASSUME NEW i \in 1..Len(ps) + 1, Append(ps, status)[i] = "timeout"
             PROVE  Append(ts, n)[i + 1] = all
  BY <1>2
<1>4. CASE i \in 1..Len(ps)
  <2>1. i + 1 \in 1..Len(ts)
    BY <1>1, <1>4
  <2>2. Append(ts, n)[i + 1] = ts[i + 1]
    BY <1>3, <2>1
  <2>3. ps[i] = "timeout" /\ i \in DOMAIN ps
    BY <1>1, <1>2, <1>4
  <2> QED
    BY <2>2, <2>3
<1>5. CASE i = Len(ps) + 1
  BY <1>1, <1>2, <1>3, <1>5
<1> QED
  BY <1>1, <1>4, <1>5

\* The steps before a verdict.
LEMMA BeforeVerdict ==
    ASSUME MTUInv, TimeoutsInv, mtuPC # "done", mtuPC' \notin {"done", "classify"},
           UNCHANGED <<step, payloadResults, tries>>
    PROVE  TimeoutsInv'
  BY DEF TimeoutsInv, RetryInv, TimeoutsAreComplete

LEMMA TimeoutsSanity ==
    ASSUME MTUInv, TimeoutsInv, Sanity
    PROVE  TimeoutsInv'
<1> DEFINE status == classifyPayloadAttempts(attempts)
<1>1. /\ mtuPC = "classify" /\ step = 0 /\ tries' = <<Len(attempts)>>
      /\ UNCHANGED <<payloadResults, mtuCtxDone>>
      /\ Len(attempts) \in Nat
      /\ payloadResults \in Seq({"too_large", "local_too_large", "timeout"})
      /\ Len(payloadResults) = 0
  BY LenProperties DEF Sanity, MTUInv, StepInv, PriorTrue
<1>2. CASE status = "success"
  <2>1. mtuPC' = "size" /\ step' = 1
    BY <1>2 DEF Sanity
  <2>2. DOMAIN payloadResults = {}
    BY <1>1, LenProperties
  <2>3. tries' \in Seq(Nat) /\ Len(tries') = 1
    BY <1>1
  <2> QED
    BY <1>1, <2>1, <2>2, <2>3 DEF TimeoutsInv, RetryInv, TimeoutsAreComplete
<1>3. CASE status # "success"
  <2>1. /\ mtuPC' = "done" /\ UNCHANGED attempts
        /\ mtuResult' = IF status = "timeout" /\ mtuCtxDone
                       THEN setMTUInconclusive(0) ELSE applySanityFailure(status)
    BY <1>3 DEF Sanity, ReturnMTU
  <2>2. CASE status = "timeout" /\ mtuCtxDone
    <3>1. mtuResult'.detail = "inconclusive"
      BY <2>1, <2>2 DEF setMTUInconclusive, Failure, NoMTUResult
    <3> QED
      BY <1>1, <2>1, <2>2, <3>1 DEF TimeoutsInv, RetryInv, TimeoutsAreComplete
  <2>3. CASE ~(status = "timeout" /\ mtuCtxDone)
    <3>1. mtuResult'.detail \in {"destination_unreachable", "permission_denied",
                              "internal_error", "sanity_check_failed"}
      BY <2>1, <2>3 DEF applySanityFailure, failureFor, Failure, NoMTUResult, Errors
    <3>2. status = "timeout" => Len(attempts) = effectiveMTURetries
      BY <1>1, <2>3, TimeoutTookRetries DEF TimeoutsInv
    <3>3. classifyPayloadAttempts(attempts)' = status
      BY <2>1 DEF classifyPayloadAttempts, hasPayloadStatus
    <3>4. tries'[1] = Len(attempts)
      BY <1>1
    <3> QED
      BY <2>1, <3>1, <3>2, <3>3, <3>4 DEF TimeoutsInv, RetryInv, TimeoutsAreComplete
  <2> QED
    BY <2>2, <2>3
<1> QED
  BY <1>2, <1>3

LEMMA TimeoutsPayload ==
    ASSUME MTUInv, TimeoutsInv, Payload
    PROVE  TimeoutsInv'
<1> DEFINE status  == classifyPayloadAttempts(attempts)
           replies == IF status = "success" THEN samples + 1 ELSE samples
<1>1. /\ mtuPC = "classify" /\ step \in Nat \ {0}
      /\ step' = step + 1 /\ attempts' = <<>>
      /\ payloadResults' = Append(payloadResults, status)
      /\ tries' = Append(tries, Len(attempts))
      /\ UNCHANGED mtuCtxDone
      /\ status \in MTUStatuses /\ Len(attempts) \in Nat
  BY ClassifyPayloadAttempts, LenProperties DEF Payload, MTUInv, StepInv
<1>2. /\ IF status = "timeout" /\ mtuCtxDone
           THEN ReturnMTU(setMTUInconclusive(replies))
           ELSE IF status = "success"
                  THEN ReturnMTU(classifyMTUResult(Sizes[step], payloadResults, replies))
           ELSE IF status \in Decisive
                  THEN ReturnMTU(failureFor(status, replies))
           ELSE mtuPC' = "size" /\ UNCHANGED mtuResult
  BY DEF Payload
<1>3. status = "timeout" /\ ~mtuCtxDone => Len(attempts) = effectiveMTURetries
  BY <1>1, TimeoutTookRetries DEF TimeoutsInv
<1>4. /\ payloadResults \in Seq(MTUStatuses) /\ tries \in Seq(Nat)
      /\ Len(tries) = step /\ Len(payloadResults) = step - 1
      /\ \A i \in DOMAIN payloadResults :
            payloadResults[i] = "timeout" => tries[i + 1] = effectiveMTURetries
  BY <1>1 DEF MTUInv, PriorTrue, TimeoutsInv, RetryInv, MTUStatuses
<1> HIDE DEF status, replies
<1>5. CASE status = "timeout" /\ mtuCtxDone
  <2>1. mtuPC' = "done" /\ mtuResult'.detail = "inconclusive"
    BY <1>2, <1>5 DEF ReturnMTU, setMTUInconclusive, Failure, NoMTUResult
  <2> QED
    BY <1>1, <1>5, <2>1 DEF TimeoutsInv, RetryInv, TimeoutsAreComplete
<1>6. CASE ~(status = "timeout" /\ mtuCtxDone)
  <2>1. \A i \in DOMAIN payloadResults' :
           payloadResults'[i] = "timeout" => tries'[i + 1] = effectiveMTURetries
    <3>1. Len(tries) = Len(payloadResults) + 1
      BY <1>1, <1>4
    <3>2. status = "timeout" => Len(attempts) = effectiveMTURetries
      BY <1>3, <1>6
    <3> QED
      BY <1>1, <1>4, <3>1, <3>2, AppendTry
  <2>2. tries' \in Seq(Nat) /\ Len(tries') = step'
    BY <1>1, <1>4, AppendProperties
  <2>3. CASE mtuPC' = "size"
    BY <2>1, <2>2, <2>3 DEF TimeoutsInv, RetryInv, TimeoutsAreComplete, effectiveMTURetries
  <2>4. CASE mtuPC' = "done"
    <3>1. mtuResult'.detail \notin {"sanity_check_failed", "inconclusive"}
      <4>1. CASE status = "success"
        BY <1>2, <4>1 DEF ReturnMTU, classifyMTUResult, detailForPriorPayloadFailures
      <4>2. CASE status # "success"
        BY <1>2, <1>6, <2>4, <4>2
           DEF ReturnMTU, Decisive, failureFor, Failure, NoMTUResult, Errors
      <4> QED
        BY <4>1, <4>2
    <3> QED
      BY <2>1, <2>4, <3>1 DEF TimeoutsInv, RetryInv, TimeoutsAreComplete, effectiveMTURetries
  <2> QED
    BY <1>2, <2>3, <2>4 DEF ReturnMTU
<1> QED
  BY <1>5, <1>6

LEMMA TimeoutsNextSize ==
    ASSUME MTUInv, TimeoutsInv, NextSize
    PROVE  TimeoutsInv'
<1>1. /\ mtuPC = "size"
      /\ UNCHANGED <<step, attempts, payloadResults, tries, mtuCtxDone>>
  BY DEF NextSize
<1>2. CASE step > Len(Sizes)
  <2>1. /\ mtuPC' = "done"
        /\ mtuResult'.detail \in {"local_message_too_large", "below_min_tested",
                               "all_sizes_timed_out"}
    BY <1>2 DEF NextSize, ReturnMTU, Failure, NoMTUResult, detailForFailedPayloads
  <2> QED
    BY <1>1, <2>1 DEF TimeoutsInv, RetryInv, TimeoutsAreComplete
<1>3. CASE ~(step > Len(Sizes)) /\ mtuCtxDone
  <2>1. mtuPC' = "done" /\ mtuResult'.detail = "inconclusive"
    BY <1>3 DEF NextSize, ReturnMTU, setMTUInconclusive, Failure, NoMTUResult
  <2> QED
    BY <1>1, <1>3, <2>1 DEF TimeoutsInv, RetryInv, TimeoutsAreComplete
<1>4. CASE ~(step > Len(Sizes)) /\ ~mtuCtxDone
  BY <1>1, <1>4, BeforeVerdict DEF NextSize
<1> QED
  BY <1>2, <1>3, <1>4

LEMMA TimeoutsResolve ==
    ASSUME MTUInv, TimeoutsInv, MTUResolveFails \/ Resolve
    PROVE  TimeoutsInv'
<1>1. mtuPC = "resolve" /\ UNCHANGED <<step, attempts, payloadResults, tries, mtuCtxDone>>
  BY DEF MTUResolveFails, Resolve
<1>2. CASE mtuPC' = "open"
  BY <1>1, <1>2, BeforeVerdict
<1>3. CASE mtuPC' = "done"
  <2>1. \/ mtuResult'.detail = "resolve_error"
        \/ mtuCtxDone /\ mtuResult'.detail = "inconclusive"
    BY <1>3 DEF MTUResolveFails, Resolve, ReturnMTU, setMTUInconclusive, Failure, NoMTUResult
  <2> QED
    BY <1>1, <1>3, <2>1 DEF TimeoutsInv, RetryInv, TimeoutsAreComplete
<1> QED
  BY <1>2, <1>3 DEF MTUResolveFails, Resolve, ReturnMTU

LEMMA TimeoutsRetry ==
    ASSUME MTUInv, TimeoutsInv, Retry
    PROVE  TimeoutsInv'
  BY DEF Retry, TimeoutsInv, RetryInv, TimeoutsAreComplete

LEMMA TimeoutsTime ==
    ASSUME MTUInv, TimeoutsInv, AttemptDeadline \/ MTUCtxDone \/ UNCHANGED mtuVars
    PROVE  TimeoutsInv'
<1>1. UNCHANGED <<mtuPC, step, attempts, payloadResults, tries, mtuResult>>
  BY DEF AttemptDeadline, MTUCtxDone, mtuVars
<1>2. mtuCtxDone => mtuCtxDone'
  BY DEF AttemptDeadline, MTUCtxDone, mtuVars
<1>3. classifyPayloadAttempts(attempts)' = classifyPayloadAttempts(attempts)
  BY <1>1 DEF classifyPayloadAttempts, hasPayloadStatus
<1> QED
  BY <1>1, <1>2, <1>3 DEF TimeoutsInv, RetryInv, TimeoutsAreComplete

\* A verdict that rests on timeouts used all the retries at the sanity check and at
\* every size that timed out, and only a probe whose context ended is inconclusive
\* (mtu.go:74-211, 239-284): for every number of retries and list of sizes.
THEOREM MTUTimeoutsAreComplete == MTUSpec => []TimeoutsAreComplete
<1>1. MTUInit => TimeoutsInv
  BY DEF MTUInit, TimeoutsInv, RetryInv, TimeoutsAreComplete
<1>2. ASSUME MTUInv, TimeoutsInv, [MTUNext]_mtuVars PROVE TimeoutsInv'
  <2>1. CASE \/ Open \/ WriteRequest \/ PollExpired \/ PollFails
             \/ \E e \in Errors : OpenFails(e) \/ MTUSendFails(e)
    BY <1>2, <2>1, BeforeVerdict
       DEF Open, WriteRequest, PollExpired, PollFails, OpenFails, MTUSendFails, AttemptReturns
  <2>2. ASSUME NEW r \in mtuSent, PollIn(r) PROVE TimeoutsInv'
    BY <1>2, <2>2, BeforeVerdict, TimeoutsTime DEF PollIn, AttemptReturns
  <2>3. ASSUME NEW r \in mtuSent, NEW event \in QueueEvents(r), NEW complete \in BOOLEAN,
               PollErr(r, event, complete)
        PROVE  TimeoutsInv'
    BY <1>2, <2>3, BeforeVerdict, TimeoutsTime DEF PollErr, AttemptReturns
  <2> QED
    BY <1>2, <2>1, <2>2, <2>3, TimeoutsResolve, TimeoutsRetry, TimeoutsSanity,
       TimeoutsNextSize, TimeoutsPayload, TimeoutsTime DEF MTUNext, MTUStep, MTUDone
<1>3. TimeoutsInv => TimeoutsAreComplete
  BY DEF TimeoutsInv
<1> QED
  BY <1>1, <1>2, <1>3, MTUInvariant, PTL DEF MTUSpec
=============================================================================
