----------------------------- MODULE ICMPProofs -----------------------------
(***************************************************************************)
(* The echo sequence counts what it sent, never hides a loss behind a late *)
(* or duplicate reply and does not outlive its timeout: for every number   *)
(* of echoes, interval and timeout.                                        *)
(***************************************************************************)
EXTENDS ICMP, Integers, FiniteSetTheorems, TLAPS

Locs == {"resolve", "loop", "wait", "send", "check", "read", "sum", "done"}

SequenceInv ==
    /\ pingPC \in Locs
    /\ seq \in 0..PingCount /\ pingSent \in Nat /\ received \in Nat
    /\ now \in Nat /\ cancelAt \in Nat \union {None}
    /\ pingPC \in {"wait", "send", "check", "read"} => seq < PingCount

\* The current echo is written while its reply is awaited.
Awaiting == pingPC \in {"check", "read"}

\* A reply is counted for an echo that the sequence has left behind.
Counted == answered \intersect 0..(seq - 1)

CountInv ==
    /\ echoes \subseteq IF Awaiting THEN 0..seq ELSE 0..(seq - 1)
    /\ answered \subseteq echoes
    /\ Awaiting => seq \in echoes
    /\ pingSent = Cardinality(echoes)
    /\ received <= Cardinality(Counted)

\* All echoes so far were answered, or the last one was not and the context has
\* ended.
AllAnswered == pingSent = seq /\ received = seq

FaultFreeInv ==
    ~faults =>
        /\ pingPC \in {"resolve", "wait", "send"} => AllAnswered
        /\ Awaiting => pingSent = seq + 1 /\ received = seq
        /\ pingPC = "loop" => AllAnswered \/ (CtxErr /\ pingSent = received + 1)
        /\ pingPC = "sum" => \/ AllAnswered /\ (CtxErr \/ seq = PingCount)
                             \/ CtxErr /\ pingSent = received + 1
        /\ pingPC = "done" /\ pingSent > 0 =>
             /\ pingSent = received \/ pingSent = received + 1
             /\ ~CtxErr => pingSent = PingCount /\ received = PingCount

ResultInv ==
    /\ pingPC = "resolve" => pingSent = 0
    /\ pingPC = "done" /\ pingSent > 0 =>
         pingResult = [success |-> received > 0, error |-> received = 0,
                   lost |-> pingSent - received, of |-> pingSent, replies |-> received]

TimeInv ==
    /\ WithinTimeout
    /\ Awaiting => pingDeadline = Timeout

ICMPInv == SequenceInv /\ CountInv /\ FaultFreeInv /\ ResultInv /\ TimeInv

----------------------------------------------------------------------------
LEMMA Initially == ICMPInit => ICMPInv
<1> SUFFICES ASSUME ICMPInit PROVE ICMPInv
  OBVIOUS
<1> USE PingAssumption DEF ICMPInit
<1>1. SequenceInv /\ TimeInv
  BY DEF SequenceInv, TimeInv, WithinTimeout, Awaiting, Locs
<1>2. CountInv
  <2>1. Counted = {} /\ Cardinality({}) = 0
    BY FS_EmptySet DEF Counted
  <2> QED
    BY <2>1 DEF CountInv, Awaiting
<1>3. FaultFreeInv /\ ResultInv
  BY DEF FaultFreeInv, ResultInv, AllAnswered, Awaiting
<1> QED
  BY <1>1, <1>2, <1>3 DEF ICMPInv

LEMMA SequenceStep ==
    ASSUME ICMPInv, [ICMPNext]_icmpVars
    PROVE  SequenceInv'
<1> USE PingAssumption DEF ICMPInv, SequenceInv, Locs, timeVars, Failed
<1>1. CASE SetupFails \/ Setup \/ IntervalOver \/ IntervalCancelled \/ Sum
  BY <1>1 DEF SetupFails, Setup, IntervalOver, IntervalCancelled, Sum
<1>2. CASE LoopHead
  BY <1>2 DEF LoopHead
<1>3. CASE EchoSent \/ EchoWriteFails
  BY <1>3 DEF EchoSent, EchoWriteFails
<1>4. CASE ReadLoop
  BY <1>4 DEF ReadLoop
<1>5. ASSUME NEW s \in echoes, ReadReply(s) PROVE SequenceInv'
  BY <1>5 DEF ReadReply, ReplyMatches
<1>6. CASE ReadTimeout \/ EchoReadFails
  BY <1>6 DEF ReadTimeout, EchoReadFails
<1>7. CASE Tick \/ ICMPCancel
  BY <1>7 DEF Tick, ICMPCancel
<1>8. CASE UNCHANGED icmpVars
  BY <1>8 DEF icmpVars
<1> QED
  BY <1>1, <1>2, <1>3, <1>4, <1>5, <1>6, <1>7, <1>8 DEF ICMPNext, ICMPStep, ICMPDone

\* What is written and counted is finite.
LEMMA Finite ==
    ASSUME SequenceInv, CountInv
    PROVE  /\ IsFiniteSet(echoes) /\ IsFiniteSet(answered) /\ IsFiniteSet(Counted)
           /\ Cardinality(Counted) <= Cardinality(answered)
           /\ Cardinality(answered) <= Cardinality(echoes)
           /\ {Cardinality(Counted), Cardinality(answered), Cardinality(echoes)} \subseteq Nat
<1>1. IsFiniteSet(echoes)
  <2>1. IsFiniteSet(0..seq) /\ echoes \subseteq 0..seq
    BY FS_Interval DEF SequenceInv, CountInv
  <2> QED
    BY <2>1, FS_Subset
<1>2. IsFiniteSet(answered) /\ Cardinality(answered) <= Cardinality(echoes)
  BY <1>1, FS_Subset DEF CountInv
<1>3. IsFiniteSet(Counted) /\ Cardinality(Counted) <= Cardinality(answered)
  BY <1>2, FS_Subset DEF Counted
<1> QED
  BY <1>1, <1>2, <1>3, FS_CardinalityType

\* More replies, or a longer sequence, never make fewer counted ones.
LEMMA CountedGrows ==
    ASSUME SequenceInv, CountInv, NEW A, NEW n \in Nat, answered \subseteq A, A \subseteq echoes,
           n >= seq
    PROVE  received <= Cardinality(A \intersect 0..(n - 1))
<1> DEFINE B == A \intersect 0..(n - 1)
<1>1. Counted \subseteq B
  BY DEF Counted, SequenceInv
<1>2. IsFiniteSet(B)
  BY Finite, FS_Subset
<1> HIDE DEF B
<1>3. Cardinality(B) \in Nat /\ Cardinality(Counted) <= Cardinality(B)
  BY <1>1, <1>2, FS_CardinalityType, FS_Subset
<1>4. received <= Cardinality(B)
  BY <1>3, Finite DEF CountInv, SequenceInv
<1> QED
  BY <1>4 DEF B

LEMMA CountStep ==
    ASSUME ICMPInv, [ICMPNext]_icmpVars
    PROVE  CountInv'
<1> USE PingAssumption DEF ICMPInv, Failed
<1>1. CASE EchoSent
  <2>1. seq \notin echoes /\ echoes' = echoes \union {seq}
    BY <1>1 DEF EchoSent, CountInv, Awaiting, SequenceInv
  <2>2. pingSent' = Cardinality(echoes')
    <3>1. Cardinality(echoes \union {seq}) = Cardinality(echoes) + 1
      BY <2>1, Finite, FS_AddElement
    <3> QED
      BY <1>1, <2>1, <3>1 DEF EchoSent, CountInv
  <2> QED
    BY <1>1, <2>1, <2>2 DEF EchoSent, CountInv, Awaiting, Counted, SequenceInv
<1>2. ASSUME NEW s \in echoes, ReadReply(s) PROVE CountInv'
  <2>1. /\ answered' = answered \union {s} /\ answered' \subseteq echoes
        /\ UNCHANGED <<echoes, pingSent>> /\ pingPC = "read" /\ seq \in Nat
    BY <1>2 DEF ReadReply, CountInv, SequenceInv
  <2>2. CASE s = seq
    <3>1. pingPC' = "loop" /\ seq' = seq + 1 /\ received' = received + 1
      BY <1>2, <2>2 DEF ReadReply, ReplyMatches
    <3>2. Counted' = Counted \union {seq} /\ seq \notin Counted
      BY <2>1, <2>2, <3>1 DEF Counted, CountInv, Awaiting, SequenceInv
    <3>3. Cardinality(Counted') = Cardinality(Counted) + 1
      BY <3>2, Finite, FS_AddElement
    <3> QED
      BY <2>1, <3>1, <3>3, Finite DEF CountInv, Awaiting, SequenceInv
  <2>3. CASE s # seq
    <3>1. pingPC' = "check" /\ UNCHANGED <<seq, received>>
      BY <1>2, <2>3 DEF ReadReply, ReplyMatches
    <3>2. received <= Cardinality(answered' \intersect 0..(seq - 1))
      <4>1. SequenceInv /\ CountInv /\ seq >= seq /\ answered \subseteq answered'
        BY <2>1
      <4> QED
        BY ONLY <2>1, <4>1, CountedGrows
    <3> QED
      BY <2>1, <3>1, <3>2 DEF CountInv, Counted, Awaiting
  <2> QED
    BY <2>2, <2>3
<1>3. CASE EchoWriteFails \/ ReadTimeout \/ EchoReadFails \/ (ReadLoop /\ CtxErr)
  <2>1. /\ UNCHANGED <<echoes, answered, pingSent, received>>
        /\ seq' = seq + 1 /\ pingPC' = "loop" /\ seq \in Nat
    BY <1>3 DEF EchoWriteFails, ReadTimeout, EchoReadFails, ReadLoop, SequenceInv
  <2>2. received <= Cardinality(answered \intersect 0..(seq' - 1))
    <3>1. SequenceInv /\ CountInv /\ seq' \in Nat /\ seq' >= seq
      BY <2>1
    <3>2. answered \subseteq answered /\ answered \subseteq echoes
      BY DEF CountInv
    <3> QED
      BY ONLY <3>1, <3>2, CountedGrows
  <2> QED
    BY <2>1, <2>2 DEF CountInv, Counted, Awaiting
<1>4. CASE \/ SetupFails \/ Setup \/ LoopHead \/ IntervalOver \/ IntervalCancelled \/ Sum
           \/ (ReadLoop /\ ~CtxErr) \/ Tick \/ ICMPCancel \/ UNCHANGED icmpVars
  <2>1. /\ UNCHANGED <<seq, echoes, answered, pingSent, received>>
        /\ Awaiting' <=> Awaiting
    BY <1>4 DEF SetupFails, Setup, LoopHead, IntervalOver, IntervalCancelled, Sum, ReadLoop,
                Tick, ICMPCancel, icmpVars, Awaiting
  <2> QED
    BY <2>1 DEF CountInv, Counted
<1> QED
  BY <1>1, <1>2, <1>3, <1>4 DEF ICMPNext, ICMPStep, ICMPDone

\* An ended context stays ended.
LEMMA ContextStaysEnded ==
    ASSUME ICMPInv, [ICMPNext]_icmpVars, CtxErr
    PROVE  CtxErr'
<1>1. CASE Tick
  BY <1>1, PingAssumption DEF Tick, CtxErr, ICMPInv, SequenceInv
<1>2. CASE ICMPCancel
  BY <1>2, PingAssumption DEF ICMPCancel, CtxErr, ICMPInv, SequenceInv
<1>3. CASE UNCHANGED timeVars
  BY <1>3 DEF timeVars, CtxErr
<1> QED
  BY <1>1, <1>2, <1>3
     DEF ICMPNext, ICMPStep, ICMPDone, icmpVars, SetupFails, Setup, LoopHead, IntervalOver,
         IntervalCancelled, Sum, EchoSent, EchoWriteFails, ReadLoop, ReadReply, ReadTimeout,
         EchoReadFails

LEMMA FaultFreeStep ==
    ASSUME ICMPInv, [ICMPNext]_icmpVars
    PROVE  FaultFreeInv'
<1> SUFFICES ASSUME ~faults' PROVE FaultFreeInv'
  BY DEF FaultFreeInv
<1> USE PingAssumption DEF ICMPInv, SequenceInv, Failed, AllAnswered, Awaiting
<1>1. CASE SetupFails \/ Setup
  BY <1>1 DEF SetupFails, Setup, FaultFreeInv, ResultInv
<1>2. CASE LoopHead
  <2>1. UNCHANGED <<seq, pingSent, received, faults>> /\ (CtxErr' <=> CtxErr)
    BY <1>2 DEF LoopHead, timeVars, CtxErr
  <2> QED
    BY <1>2, <2>1 DEF LoopHead, FaultFreeInv
<1>3. CASE IntervalOver \/ IntervalCancelled
  BY <1>3, ContextStaysEnded DEF IntervalOver, IntervalCancelled, FaultFreeInv
<1>4. CASE Sum
  <2>1. UNCHANGED <<seq, pingSent, received, faults>> /\ (CtxErr' <=> CtxErr)
    BY <1>4 DEF Sum, timeVars, CtxErr
  <2> QED
    BY <1>4, <2>1 DEF Sum, FaultFreeInv
<1>5. CASE EchoSent
  BY <1>5 DEF EchoSent, FaultFreeInv
<1>6. CASE EchoWriteFails \/ EchoReadFails
  BY <1>6 DEF EchoWriteFails, EchoReadFails
<1>7. CASE ReadLoop
  BY <1>7, ContextStaysEnded DEF ReadLoop, FaultFreeInv
<1>8. ASSUME NEW s \in echoes, ReadReply(s) PROVE FaultFreeInv'
  BY <1>8 DEF ReadReply, ReplyMatches, FaultFreeInv
<1>9. CASE ReadTimeout
  <2>1. CtxErr
    BY <1>9 DEF ReadTimeout, TimeInv, CtxErr
  <2> QED
    BY <1>9, <2>1, ContextStaysEnded DEF ReadTimeout, FaultFreeInv
<1>10. CASE Tick \/ ICMPCancel
  <2>1. pingPC # "done"
    BY <1>10 DEF Tick, Waiting, ICMPCancel
  <2>2. UNCHANGED <<pingPC, seq, pingSent, received, faults>>
    BY <1>10 DEF Tick, ICMPCancel
  <2> QED
    BY <2>1, <2>2, ContextStaysEnded DEF FaultFreeInv
<1>11. CASE UNCHANGED icmpVars
  BY <1>11 DEF icmpVars, timeVars, FaultFreeInv, CtxErr
<1> QED
  BY <1>1, <1>2, <1>3, <1>4, <1>5, <1>6, <1>7, <1>8, <1>9, <1>10, <1>11
     DEF ICMPNext, ICMPStep, ICMPDone

LEMMA ResultStep ==
    ASSUME ICMPInv, [ICMPNext]_icmpVars
    PROVE  ResultInv'
<1> USE DEF ICMPInv, ResultInv, SequenceInv, Failed
<1>1. CASE SetupFails \/ Setup \/ LoopHead \/ IntervalOver \/ IntervalCancelled \/ Sum
  BY <1>1 DEF SetupFails, Setup, LoopHead, IntervalOver, IntervalCancelled, Sum
<1>2. CASE EchoSent \/ EchoWriteFails \/ ReadLoop
  BY <1>2 DEF EchoSent, EchoWriteFails, ReadLoop
<1>3. ASSUME NEW s \in echoes, ReadReply(s) PROVE ResultInv'
  BY <1>3 DEF ReadReply
<1>4. CASE ReadTimeout \/ EchoReadFails \/ Tick \/ ICMPCancel
  BY <1>4 DEF ReadTimeout, EchoReadFails, Tick, ICMPCancel
<1>5. CASE UNCHANGED icmpVars
  BY <1>5 DEF icmpVars
<1> QED
  BY <1>1, <1>2, <1>3, <1>4, <1>5 DEF ICMPNext, ICMPStep, ICMPDone

\* The clock advances only while the prober waits, and every wait ends at the
\* context's deadline: a read by its socket deadline, the interval by its select.
LEMMA TimeStep ==
    ASSUME ICMPInv, [ICMPNext]_icmpVars
    PROVE  TimeInv'
<1> USE PingAssumption DEF ICMPInv, TimeInv, WithinTimeout, Awaiting, SequenceInv, Failed
<1>1. CASE Tick
  BY <1>1 DEF Tick, Waiting, CtxErr
<1>2. CASE EchoSent
  BY <1>2 DEF EchoSent, timeVars, ReadDeadline
<1>3. CASE SetupFails \/ Setup \/ LoopHead \/ IntervalOver \/ IntervalCancelled \/ Sum
  BY <1>3 DEF SetupFails, Setup, LoopHead, IntervalOver, IntervalCancelled, Sum, timeVars
<1>4. CASE EchoWriteFails \/ ReadLoop \/ ReadTimeout \/ EchoReadFails
  BY <1>4 DEF EchoWriteFails, ReadLoop, ReadTimeout, EchoReadFails, timeVars
<1>5. ASSUME NEW s \in echoes, ReadReply(s) PROVE TimeInv'
  BY <1>5 DEF ReadReply, timeVars
<1>6. CASE ICMPCancel
  BY <1>6 DEF ICMPCancel
<1>7. CASE UNCHANGED icmpVars
  BY <1>7 DEF icmpVars, timeVars
<1> QED
  BY <1>1, <1>2, <1>3, <1>4, <1>5, <1>6, <1>7 DEF ICMPNext, ICMPStep, ICMPDone

\* The inductive invariant of the echo sequence (icmp.go:95-160): the counters
\* follow the sets of written and answered echoes at every point of the loop.
THEOREM ICMPInvariant == ICMPSpec => []ICMPInv
<1>1. ICMPInv /\ [ICMPNext]_icmpVars => ICMPInv'
  BY SequenceStep, CountStep, FaultFreeStep, ResultStep, TimeStep DEF ICMPInv
<1> QED
  BY <1>1, Initially, PTL DEF ICMPSpec

----------------------------------------------------------------------------
\* The inductive invariant bounds the loss from both sides.
LEMMA LossBounds ==
    ASSUME ICMPInv
    PROVE  LossOfSent
<1> SUFFICES ASSUME pingPC = "done", pingSent > 0 PROVE LossOfSent
  BY DEF LossOfSent
<1>1. pingResult = [success |-> received > 0, error |-> received = 0,
                lost |-> pingSent - received, of |-> pingSent, replies |-> received]
  BY DEF ICMPInv, ResultInv
<1>2. /\ pingSent = Cardinality(echoes) /\ answered \subseteq echoes
      /\ received <= Cardinality(answered) /\ Cardinality(answered) \in Nat
  BY Finite DEF ICMPInv, CountInv, SequenceInv
<1>3. pingSent - received >= Cardinality(echoes \ answered)
  <2>1. Cardinality(echoes \ answered) = Cardinality(echoes) - Cardinality(echoes \intersect answered)
    BY Finite, FS_Difference DEF ICMPInv
  <2>2. echoes \intersect answered = answered
    BY <1>2
  <2>3. Cardinality(echoes) \in Nat /\ received \in Nat
    BY Finite DEF ICMPInv, SequenceInv
  <2>4. ASSUME NEW e \in Nat, NEW a \in Nat, NEW r \in Nat, r <= a
        PROVE  e - r >= e - a
    BY <2>4
  <2>5. Cardinality(echoes) - received >= Cardinality(echoes) - Cardinality(answered)
    BY ONLY <1>2, <2>3, <2>4
  <2>6. Cardinality(echoes \ answered) = Cardinality(echoes) - Cardinality(answered)
    BY ONLY <2>1, <2>2
  <2> QED
    BY ONLY <1>2, <2>5, <2>6
<1>4. received > 0 => answered # {}
  BY <1>2, FS_EmptySet DEF ICMPInv, SequenceInv
<1>5. /\ ~faults /\ cancelAt = None /\ now < Timeout
            => pingSent = PingCount /\ pingSent - received = 0
      /\ ~faults => pingSent - received <= 1
  BY PingAssumption DEF ICMPInv, SequenceInv, FaultFreeInv, CtxErr
<1>6. /\ pingResult.success <=> received > 0
      /\ pingResult.error <=> received = 0
      /\ pingResult.lost = pingSent - received
      /\ pingResult.of = pingSent
  BY <1>1
<1>7. received \in Nat
  BY DEF ICMPInv, SequenceInv
<1>8. pingResult.success <=> ~pingResult.error
  BY <1>6, <1>7
<1>9. pingResult.lost >= Cardinality(echoes \ answered)
  BY ONLY <1>3, <1>6
<1>10. pingResult.of = Cardinality(echoes)
  BY ONLY <1>2, <1>6
<1> QED
  BY <1>4, <1>5, <1>6, <1>8, <1>9, <1>10 DEF LossOfSent

\* The reported loss is about the echoes written, covers every unanswered one
\* and is at most the last one while the socket works (icmp.go:244-269).
THEOREM ICMPLoss == ICMPSpec => []LossOfSent
  BY ICMPInvariant, LossBounds, PTL

\* The sequence never runs past the deadline of its context (icmp.go:95-269).
THEOREM ICMPWithinTimeout == ICMPSpec => []WithinTimeout
<1>1. ICMPInv => WithinTimeout
  BY DEF ICMPInv, TimeInv
<1> QED
  BY <1>1, ICMPInvariant, PTL
=============================================================================
