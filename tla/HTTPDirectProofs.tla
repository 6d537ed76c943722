-------------------------- MODULE HTTPDirectProofs --------------------------
(***************************************************************************)
(* What a direct HTTP probe reports is about the whole body and about the  *)
(* last hop, and its phases do not overlap, for every redirect limit, body *)
(* limit and set of body lengths.                                          *)
(*                                                                         *)
(* All hops write to one set of timestamps.  The argument orders them:     *)
(* unless a callback came out of order, a timestamp of an earlier hop is   *)
(* older than every one of a later hop, and within a hop a phase ends      *)
(* before the next begins.                                                 *)
(***************************************************************************)
EXTENDS HTTPDirect, TLAPS

Stamps == [at : Nat, hop : Nat]

\* Every timestamp was taken, for a hop that has begun, or is zero.
TsInv ==
    /\ hop \in Nat \ {0} /\ clock \in Nat \ {0} /\ raced \in BOOLEAN
    /\ dest \in Hops
    /\ ts \in [Fields -> Stamps]
    /\ \A f \in Fields : /\ ts[f].at < clock /\ ts[f].hop <= hop
                         /\ ts[f].at = 0 <=> ts[f].hop = 0

\* What a hop reports after f.
After(f) ==
    CASE f = "dnsEnd" -> {"connectStart", "connectEnd", "tlsStart", "tlsEnd", "wroteRequest",
                          "gotFirstByte"}
      [] f = "connectEnd" -> {"tlsStart", "tlsEnd", "wroteRequest", "gotFirstByte"}
      [] f = "tlsEnd" -> {"wroteRequest", "gotFirstByte"}
      [] f = "wroteRequest" -> {"gotFirstByte"}
      [] OTHER -> {}

\* Hops follow each other, and so do the phases of one hop.
OrderInv ==
    ~raced => \A f, g \in Fields :
        /\ ts[f].hop < ts[g].hop => ts[f].at < ts[g].at
        /\ g \in After(f) /\ ts[f].hop = ts[g].hop /\ ts[f].hop > 0 => ts[f].at < ts[g].at

\* The end of a phase is never of a later hop than its beginning.
PairInv ==
    ~raced => /\ ts["dnsEnd"].hop <= ts["dnsStart"].hop
              /\ ts["connectEnd"].hop <= ts["connectStart"].hop
              /\ ts["tlsEnd"].hop <= ts["tlsStart"].hop
              /\ ts["wroteRequest"].hop <= ts["connectEnd"].hop
              /\ ts["gotFirstByte"].hop <= ts["wroteRequest"].hop

\* The fields the current hop has not set yet.
NotYet ==
    CASE tr = "begin" -> Fields
      [] tr = "dns" -> Fields \ {"dnsStart"}
      [] tr = "dial" -> Fields \ {"dnsStart", "dnsEnd"}
      [] tr \in {"connect", "connectLast", "race", "fallback", "tls"} ->
            {"tlsStart", "tlsEnd", "wroteRequest", "gotFirstByte"}
      [] tr = "tlsWait" -> {"tlsEnd", "wroteRequest", "gotFirstByte"}
      [] tr = "write" -> {"wroteRequest", "gotFirstByte"}
      [] tr = "await" -> {"gotFirstByte"}
      [] OTHER -> {}

NotYetInv ==
    /\ pc = "start" /\ ~raced => \A g \in Fields : ts[g].hop < hop
    /\ pc = "do" /\ ~raced => \A g \in NotYet : ts[g].hop < hop

Connecting == {"connect", "connectLast", "race", "fallback"}
Connected == {"tls", "tlsWait", "write", "await", "answered"}
Secured == {"write", "await", "answered"}

\* The fields it has set.
HopInv ==
    pc \in {"do", "read", "readErr", "verdict"} =>
        /\ tr \in {"begin", "dns", "dial", "failed"} \union Connecting \union Connected
        /\ pc # "do" => tr = "answered"
        /\ dest.lookup /\ tr \in {"dns", "dial"} \union Connecting \union Connected =>
             ts["dnsStart"].hop = hop
        /\ dest.lookup /\ tr \in {"dial"} \union Connecting \union Connected =>
             ts["dnsEnd"].hop = hop
        /\ tr = "dns" => ts["dnsStart"].hop = hop
        /\ tr \in Connecting \union Connected => ts["connectStart"].hop = hop
        /\ tr \in Connected => /\ ts["connectEnd"].hop > 0
                               /\ ~raced => ts["connectEnd"].hop = hop
        /\ tr = "tlsWait" => ts["tlsStart"].hop = hop
        /\ tr \in {"tls", "tlsWait"} => dest.scheme = "https"
        /\ tr \in Secured /\ dest.scheme = "https" =>
             ts["tlsStart"].hop = hop /\ ts["tlsEnd"].hop = hop
        /\ tr \in {"await", "answered"} =>
             /\ ts["wroteRequest"].hop > 0 \/ \E c \in late : c.field = "wroteRequest"
             /\ ~raced => ts["wroteRequest"].hop = hop
        /\ tr = "answered" => ts["gotFirstByte"].hop = hop

\* Callbacks that come late are those that lost a race or, once client.Do has
\* returned for the context's sake, the one the transport was waiting for.
LateInv ==
    /\ late \subseteq [field : Fields, hop : 1..hop, race : BOOLEAN]
    /\ \A c \in late : c.race => c.field \in {"connectEnd", "wroteRequest"}
    /\ pc \notin {"doErr", "done"} => \A c \in late : c.race
    /\ pc = "doErr" /\ ~raced => \A c \in late : ~c.race =>
         /\ c.hop = hop
         /\ \A g \in After(c.field) : ts[g].hop < hop
         /\ \/ c.field = "dnsEnd" /\ ts["dnsStart"].hop = hop
            \/ c.field = "connectEnd" /\ ts["connectStart"].hop = hop
            \/ c.field = "tlsEnd" /\ ts["tlsStart"].hop = hop
            \/ c.field = "wroteRequest" /\ ts["connectEnd"].hop = hop
         /\ \A d \in late : d.race \/ d = c

TransferInv ==
    pc \in {"readErr", "verdict"} =>
        /\ transferEnd \in Stamps /\ transferEnd.hop = hop /\ transferEnd.at > 0
        /\ ~raced => \A f \in Fields : ts[f].at < transferEnd.at

ResultInv ==
    /\ mode \in Modes
    /\ pc \in {"start", "do", "doErr", "read", "readErr", "verdict", "done"}
    /\ pc \in {"start", "do", "doErr"} => result = NoResult
    /\ pc \in {"read", "readErr", "verdict"} =>
         result = [NoResult EXCEPT !.received = TRUE] /\ body \in Nat

TraceInv == TsInv /\ OrderInv /\ PairInv /\ NotYetInv /\ HopInv /\ LateInv /\ TransferInv

HTTPInv == TraceInv /\ ResultInv /\ BodyVerdict /\ PhasesComplete /\ PhasesDisjoint

----------------------------------------------------------------------------
\* One callback stores a new, latest timestamp.
LEMMA SetTs ==
    ASSUME TsInv, NEW f \in Fields, NEW h \in 1..hop, set(f, h), UNCHANGED <<hop, dest>>,
           raced' \in BOOLEAN
    PROVE  /\ TsInv'
           /\ ts'[f] = [at |-> clock, hop |-> h]
           /\ ts'[f].at = clock /\ ts'[f].hop = h
           /\ \A g \in Fields \ {f} : ts'[g] = ts[g]
<1>1. /\ ts'[f] = [at |-> clock, hop |-> h]
      /\ \A g \in Fields \ {f} : ts'[g] = ts[g]
  BY DEF TsInv, set
<1>2. ts' \in [Fields -> Stamps]
  BY DEF TsInv, set, Stamps
<1>3. ts'[f].at = clock /\ ts'[f].hop = h
  BY <1>1
<1>4. clock' = clock + 1
  BY DEF set
<1>5. \A g \in Fields : /\ ts'[g].at < clock' /\ ts'[g].hop <= hop'
                        /\ ts'[g].at = 0 <=> ts'[g].hop = 0
  <2> TAKE g \in Fields
  <2>1. CASE g = f
    BY <1>3, <1>4, <2>1 DEF TsInv
  <2>2. CASE g # f
    <3>1. ts[g].at \in Nat
      BY DEF TsInv, Stamps
    <3> QED
      BY <1>1, <1>4, <2>2, <3>1 DEF TsInv
  <2> QED
    BY <2>1, <2>2
<1> QED
  BY <1>1, <1>2, <1>3, <1>4, <1>5 DEF TsInv

\* It keeps the order when it is the current hop's and comes in its turn.
LEMMA SetOrder ==
    ASSUME TsInv, OrderInv, NEW f \in Fields, set(f, hop), UNCHANGED <<hop, dest, raced>>,
           ~raced => \A g \in After(f) : ts[g].hop < hop
    PROVE  OrderInv'
<1> SUFFICES ASSUME ~raced, NEW e \in Fields, NEW g \in Fields
             PROVE  /\ ts'[e].hop < ts'[g].hop => ts'[e].at < ts'[g].at
                    /\ g \in After(e) /\ ts'[e].hop = ts'[g].hop /\ ts'[e].hop > 0 =>
                         ts'[e].at < ts'[g].at
  BY DEF OrderInv, After
<1>1. /\ ts'[f].at = clock /\ ts'[f].hop = hop
      /\ \A x \in Fields \ {f} : ts'[x] = ts[x]
  <2>1. hop \in 1..hop /\ raced' \in BOOLEAN
    BY DEF TsInv
  <2> QED
    BY <2>1, SetTs
<1>2. /\ ts[e].at \in Nat /\ ts[g].at \in Nat /\ ts[e].hop \in Nat /\ ts[g].hop \in Nat
      /\ ts[e].at < clock /\ ts[g].at < clock /\ ts[e].hop <= hop /\ ts[g].hop <= hop
      /\ hop \in Nat /\ clock \in Nat
  BY DEF TsInv, Stamps
<1>3. f \notin After(f)
  BY DEF After
<1>4. CASE e = f
  BY <1>1, <1>2, <1>3, <1>4
<1>5. CASE e # f /\ g = f
  BY <1>1, <1>2, <1>5
<1>6. CASE e # f /\ g # f
  BY <1>1, <1>6 DEF OrderInv
<1> QED
  BY <1>4, <1>5, <1>6

\* The record of a late callback.
LEMMA LateRecord ==
    ASSUME NEW f \in Fields, NEW h \in 1..hop, NEW race \in BOOLEAN
    PROVE  \E c : /\ c = [field |-> f, hop |-> h, race |-> race]
                  /\ c \in [field : Fields, hop : 1..hop, race : BOOLEAN]
                  /\ c.field = f /\ c.hop = h /\ c.race = race
<1> DEFINE c == [field |-> f, hop |-> h, race |-> race]
<1>1. c.field = f /\ c.hop = h /\ c.race = race
  OBVIOUS
<1>2. c \in [field : Fields, hop : 1..hop, race : BOOLEAN]
  OBVIOUS
<1> QED
  BY <1>1, <1>2

\* A callback of the current hop in its turn.
LEMMA InTurn ==
    ASSUME TraceInv, pc = "do", NEW f \in Fields, set(f, hop),
           UNCHANGED <<pc, hop, dest, raced>>,
           ~raced => \A g \in After(f) : ts[g].hop < hop,
           \/ late' = late
           \/ late' = late \union {[field |-> "connectEnd", hop |-> hop, race |-> TRUE]}
    PROVE  /\ TsInv' /\ OrderInv' /\ LateInv' /\ TransferInv'
           /\ ts'[f].hop = hop /\ \A g \in Fields \ {f} : ts'[g] = ts[g]
           /\ hop \in Nat /\ hop > 0 /\ raced \in BOOLEAN
           /\ \A g \in Fields : ts[g].hop \in Nat /\ ts[g].hop <= hop
<1>1. hop \in 1..hop /\ raced' \in BOOLEAN /\ hop \in Nat /\ hop > 0
  BY DEF TraceInv, TsInv
<1>2. TsInv' /\ OrderInv'
  BY <1>1, SetTs, SetOrder DEF TraceInv
<1>3. ts'[f].hop = hop /\ \A g \in Fields \ {f} : ts'[g] = ts[g]
  BY <1>1, SetTs DEF TraceInv
<1>4. LateInv'
  <2>1. \A c \in late' \ late : /\ c \in [field : Fields, hop : 1..hop, race : BOOLEAN]
                                /\ c.race /\ c.field = "connectEnd"
    <3>1. PICK c : /\ c = [field |-> "connectEnd", hop |-> hop, race |-> TRUE]
                   /\ c \in [field : Fields, hop : 1..hop, race : BOOLEAN]
                   /\ c.field = "connectEnd" /\ c.race = TRUE
      <4>1. "connectEnd" \in Fields
        BY DEF Fields
      <4> QED
        BY <1>1, <4>1, LateRecord
    <3>2. late' = late \/ late' = late \union {c}
      BY <3>1
    <3> QED
      BY <3>1, <3>2
  <2>2. late' \subseteq [field : Fields, hop : 1..hop, race : BOOLEAN]
    BY <2>1 DEF TraceInv, LateInv
  <2>3. \A c \in late' : c.race /\ c.field \in {"connectEnd", "wroteRequest"}
    BY <2>1 DEF TraceInv, LateInv
  <2> QED
    BY <2>2, <2>3 DEF LateInv
<1>5. TransferInv'
  BY DEF TransferInv
<1>6. \A g \in Fields : ts[g].hop \in Nat /\ ts[g].hop <= hop
  BY DEF TraceInv, TsInv, Stamps
<1> QED
  BY <1>1, <1>2, <1>3, <1>4, <1>5, <1>6 DEF TraceInv, TsInv

LEMMA DNSStep ==
    ASSUME TraceInv, DNSStart \/ DNSDone
    PROVE  TraceInv'
<1> USE DEF At, Move, Fields
<1>1. CASE DNSStart
  <2>1. /\ pc = "do" /\ tr = "begin" /\ tr' = "dns" /\ set("dnsStart", hop) /\ dest.lookup
        /\ UNCHANGED <<pc, hop, dest, raced, late>>
    BY <1>1 DEF DNSStart
  <2>2. ~raced => \A g \in After("dnsStart") : ts[g].hop < hop
    BY DEF After
  <2>3. /\ TsInv' /\ OrderInv' /\ LateInv' /\ TransferInv'
        /\ ts'["dnsStart"].hop = hop /\ \A g \in Fields \ {"dnsStart"} : ts'[g] = ts[g]
        /\ \A g \in Fields : ts[g].hop \in Nat /\ ts[g].hop <= hop
    BY <2>1, <2>2, InTurn
  <2>4. PairInv'
    BY <2>1, <2>3 DEF TraceInv, PairInv
  <2>5. NotYetInv'
    BY <2>1, <2>3 DEF TraceInv, NotYetInv, NotYet
  <2>6. HopInv'
    BY <2>1, <2>3 DEF HopInv, Connecting, Connected, Secured
  <2> QED
    BY <2>3, <2>4, <2>5, <2>6 DEF TraceInv
<1>2. CASE DNSDone
  <2>1. /\ pc = "do" /\ tr = "dns" /\ tr' \in {"dial", "failed"} /\ set("dnsEnd", hop)
        /\ UNCHANGED <<pc, hop, dest, raced, late>>
    BY <1>2 DEF DNSDone
  <2>2. ~raced => \A g \in After("dnsEnd") : ts[g].hop < hop
    BY <2>1 DEF After, TraceInv, NotYetInv, NotYet
  <2>3. /\ TsInv' /\ OrderInv' /\ LateInv' /\ TransferInv'
        /\ ts'["dnsEnd"].hop = hop /\ \A g \in Fields \ {"dnsEnd"} : ts'[g] = ts[g]
        /\ \A g \in Fields : ts[g].hop \in Nat /\ ts[g].hop <= hop
    BY <2>1, <2>2, InTurn
  <2>4. ts["dnsStart"].hop = hop
    BY <2>1 DEF TraceInv, HopInv
  <2>5. PairInv'
    BY <2>1, <2>3, <2>4 DEF TraceInv, PairInv
  <2>6. NotYetInv'
    BY <2>1, <2>3 DEF TraceInv, NotYetInv, NotYet
  <2>7. HopInv'
    BY <2>1, <2>3, <2>4 DEF HopInv, Connecting, Connected, Secured
  <2> QED
    BY <2>3, <2>5, <2>6, <2>7 DEF TraceInv
<1> QED
  BY <1>1, <1>2

LEMMA ConnectStartStep ==
    ASSUME TraceInv, ConnectStart \/ FallbackStart
    PROVE  TraceInv'
<1> USE DEF At, Move, Fields
<1>1. /\ pc = "do" /\ tr' \in {"connect", "connectLast", "race"} /\ set("connectStart", hop)
      /\ \/ tr \in {"dial", "connect", "fallback"}
         \/ tr = "begin" /\ ~dest.lookup
      /\ UNCHANGED <<pc, hop, dest, raced, late>>
  BY DEF ConnectStart, FallbackStart
<1>2. ~raced => \A g \in After("connectStart") : ts[g].hop < hop
  BY DEF After
<1>3. /\ TsInv' /\ OrderInv' /\ LateInv' /\ TransferInv'
      /\ ts'["connectStart"].hop = hop /\ \A g \in Fields \ {"connectStart"} : ts'[g] = ts[g]
      /\ \A g \in Fields : ts[g].hop \in Nat /\ ts[g].hop <= hop
  BY <1>1, <1>2, InTurn
<1>4. PairInv'
  BY <1>1, <1>3 DEF TraceInv, PairInv
<1>5. NotYetInv'
  BY <1>1, <1>3 DEF TraceInv, NotYetInv, NotYet
<1>6. HopInv'
  BY <1>1, <1>3 DEF TraceInv, HopInv, Connecting, Connected, Secured
<1> QED
  BY <1>3, <1>4, <1>5, <1>6 DEF TraceInv

LEMMA ConnectDoneStep ==
    ASSUME TraceInv, ConnectDone
    PROVE  TraceInv'
<1> USE DEF At, Move, Fields
<1>1. /\ pc = "do" /\ tr \in {"connect", "connectLast", "race"} /\ set("connectEnd", hop)
      /\ tr' \in {"tls", "write", "fallback", "connectLast", "failed"}
      /\ tr' = "tls" => dest.scheme = "https"
      /\ tr' = "write" => dest.scheme # "https"
      /\ UNCHANGED <<pc, hop, dest, raced>>
  BY DEF ConnectDone, AfterConnect
<1>2. \/ late' = late
      \/ late' = late \union {[field |-> "connectEnd", hop |-> hop, race |-> TRUE]}
  BY DEF ConnectDone
<1>3. ~raced => \A g \in After("connectEnd") : ts[g].hop < hop
  BY <1>1 DEF After, TraceInv, NotYetInv, NotYet
<1>4. /\ TsInv' /\ OrderInv' /\ LateInv' /\ TransferInv'
      /\ ts'["connectEnd"].hop = hop /\ \A g \in Fields \ {"connectEnd"} : ts'[g] = ts[g]
      /\ \A g \in Fields : ts[g].hop \in Nat /\ ts[g].hop <= hop
      /\ hop \in Nat /\ hop > 0
  BY <1>1, <1>2, <1>3, InTurn
<1>5. ts["connectStart"].hop = hop
  BY <1>1 DEF TraceInv, HopInv, Connecting
<1>6. PairInv'
  BY <1>1, <1>4, <1>5 DEF TraceInv, PairInv
<1>7. NotYetInv'
  BY <1>1, <1>4 DEF TraceInv, NotYetInv, NotYet
<1>8. HopInv'
  BY <1>1, <1>4, <1>5 DEF TraceInv, HopInv, Connecting, Connected, Secured
<1> QED
  BY <1>4, <1>6, <1>7, <1>8 DEF TraceInv

LEMMA TLSStep ==
    ASSUME TraceInv, TLSHandshakeStart \/ TLSHandshakeDone
    PROVE  TraceInv'
<1> USE DEF At, Move, Fields
<1>1. CASE TLSHandshakeStart
  <2>1. /\ pc = "do" /\ tr = "tls" /\ tr' = "tlsWait" /\ set("tlsStart", hop)
        /\ UNCHANGED <<pc, hop, dest, raced, late>>
    BY <1>1 DEF TLSHandshakeStart
  <2>2. ~raced => \A g \in After("tlsStart") : ts[g].hop < hop
    BY DEF After
  <2>3. /\ TsInv' /\ OrderInv' /\ LateInv' /\ TransferInv'
        /\ ts'["tlsStart"].hop = hop /\ \A g \in Fields \ {"tlsStart"} : ts'[g] = ts[g]
        /\ \A g \in Fields : ts[g].hop \in Nat /\ ts[g].hop <= hop
    BY <2>1, <2>2, InTurn
  <2>4. PairInv'
    BY <2>1, <2>3 DEF TraceInv, PairInv
  <2>5. NotYetInv'
    BY <2>1, <2>3 DEF TraceInv, NotYetInv, NotYet
  <2>6. HopInv'
    BY <2>1, <2>3 DEF TraceInv, HopInv, Connecting, Connected, Secured
  <2> QED
    BY <2>3, <2>4, <2>5, <2>6 DEF TraceInv
<1>2. CASE TLSHandshakeDone
  <2>1. /\ pc = "do" /\ tr = "tlsWait" /\ tr' \in {"write", "failed"} /\ set("tlsEnd", hop)
        /\ UNCHANGED <<pc, hop, dest, raced, late>>
    BY <1>2 DEF TLSHandshakeDone
  <2>2. ~raced => \A g \in After("tlsEnd") : ts[g].hop < hop
    BY <2>1 DEF After, TraceInv, NotYetInv, NotYet
  <2>3. /\ TsInv' /\ OrderInv' /\ LateInv' /\ TransferInv'
        /\ ts'["tlsEnd"].hop = hop /\ \A g \in Fields \ {"tlsEnd"} : ts'[g] = ts[g]
        /\ \A g \in Fields : ts[g].hop \in Nat /\ ts[g].hop <= hop
    BY <2>1, <2>2, InTurn
  <2>4. ts["tlsStart"].hop = hop
    BY <2>1 DEF TraceInv, HopInv
  <2>5. PairInv'
    BY <2>1, <2>3, <2>4 DEF TraceInv, PairInv
  <2>6. NotYetInv'
    BY <2>1, <2>3 DEF TraceInv, NotYetInv, NotYet
  <2>7. HopInv'
    BY <2>1, <2>3, <2>4 DEF TraceInv, HopInv, Connecting, Connected, Secured
  <2> QED
    BY <2>3, <2>5, <2>6, <2>7 DEF TraceInv
<1> QED
  BY <1>1, <1>2

LEMMA WroteRequestStep ==
    ASSUME TraceInv, WroteRequest
    PROVE  TraceInv'
<1> USE DEF At, Move, Fields
<1>1. /\ pc = "do" /\ tr = "write" /\ tr' \in {"await", "failed"} /\ set("wroteRequest", hop)
      /\ UNCHANGED <<pc, hop, dest, raced, late>>
  BY DEF WroteRequest
<1>2. ~raced => \A g \in After("wroteRequest") : ts[g].hop < hop
  BY <1>1 DEF After, TraceInv, NotYetInv, NotYet
<1>3. /\ TsInv' /\ OrderInv' /\ LateInv' /\ TransferInv'
      /\ ts'["wroteRequest"].hop = hop /\ \A g \in Fields \ {"wroteRequest"} : ts'[g] = ts[g]
      /\ \A g \in Fields : ts[g].hop \in Nat /\ ts[g].hop <= hop
      /\ hop \in Nat /\ hop > 0
  BY <1>1, <1>2, InTurn
<1>4. ~raced => ts["connectEnd"].hop = hop
  BY <1>1 DEF TraceInv, HopInv, Connected
<1>5. PairInv'
  BY <1>1, <1>3, <1>4 DEF TraceInv, PairInv
<1>6. NotYetInv'
  BY <1>1, <1>3 DEF TraceInv, NotYetInv, NotYet
<1>7. HopInv'
  BY <1>1, <1>3 DEF TraceInv, HopInv, Connecting, Connected, Secured
<1> QED
  BY <1>3, <1>5, <1>6, <1>7 DEF TraceInv

\* The first byte, in its turn or before the write is reported.
LEMMA FirstByteStep ==
    ASSUME TraceInv, GotFirstResponseByte
    PROVE  TraceInv'
<1> USE DEF At, Fields
<1>1. /\ pc = "do" /\ tr \in {"await", "write"} /\ tr' = "answered"
      /\ set("gotFirstByte", hop) /\ UNCHANGED <<pc, hop, dest>>
  BY DEF GotFirstResponseByte
<1>2. CASE tr = "await"
  <2>1. UNCHANGED <<raced, late>>
    BY <1>2 DEF GotFirstResponseByte, TraceInv, TsInv
  <2>2. ~raced => \A g \in After("gotFirstByte") : ts[g].hop < hop
    BY DEF After
  <2>3. /\ TsInv' /\ OrderInv' /\ LateInv' /\ TransferInv'
        /\ ts'["gotFirstByte"].hop = hop /\ \A g \in Fields \ {"gotFirstByte"} : ts'[g] = ts[g]
        /\ \A g \in Fields : ts[g].hop \in Nat /\ ts[g].hop <= hop
    BY <1>1, <2>1, <2>2, InTurn
  <2>4. PairInv'
    BY <1>1, <1>2, <2>1, <2>3 DEF TraceInv, PairInv, HopInv
  <2>5. NotYetInv'
    BY <1>1 DEF NotYetInv, NotYet
  <2>6. HopInv'
    BY <1>1, <1>2, <2>1, <2>3 DEF TraceInv, HopInv, Connecting, Connected, Secured
  <2> QED
    BY <2>3, <2>4, <2>5, <2>6 DEF TraceInv
<1>3. CASE tr = "write"
  <2>1. /\ raced' = TRUE
        /\ late' = late \union {[field |-> "wroteRequest", hop |-> hop, race |-> TRUE]}
    BY <1>3 DEF GotFirstResponseByte
  <2>2. hop \in 1..hop
    BY DEF TraceInv, TsInv
  <2>3. /\ TsInv' /\ ts'["gotFirstByte"].hop = hop
        /\ \A g \in Fields \ {"gotFirstByte"} : ts'[g] = ts[g]
    BY <1>1, <2>1, <2>2, SetTs DEF TraceInv
  <2>4. OrderInv' /\ PairInv' /\ NotYetInv' /\ TransferInv'
    BY <1>1, <2>1 DEF OrderInv, PairInv, NotYetInv, TransferInv
  <2> PICK c : /\ c = [field |-> "wroteRequest", hop |-> hop, race |-> TRUE]
               /\ c \in [field : Fields, hop : 1..hop, race : BOOLEAN]
               /\ c.field = "wroteRequest" /\ c.race = TRUE
    BY <2>2, LateRecord
  <2>5. LateInv'
    <3>1. late' = late \union {c}
      BY <2>1
    <3>2. late' \subseteq [field : Fields, hop : 1..hop, race : BOOLEAN]
      BY <3>1 DEF TraceInv, LateInv
    <3>3. \A d \in late' : d.race /\ d.field \in {"connectEnd", "wroteRequest"}
      BY <1>1, <3>1 DEF TraceInv, LateInv
    <3> QED
      BY <1>1, <3>2, <3>3 DEF LateInv
  <2>6. \E d \in late' : d.field = "wroteRequest"
    BY <2>1
  <2>7. HopInv'
    BY <1>1, <1>3, <2>1, <2>3, <2>6 DEF TraceInv, HopInv, Connecting, Connected, Secured
  <2> QED
    BY <2>3, <2>4, <2>5, <2>7 DEF TraceInv
<1> QED
  BY <1>1, <1>2, <1>3

\* A callback that lost a race marks the timestamps as out of order; one that is in
\* flight when the context ends is the last of its hop.
LEMMA LateStep ==
    ASSUME TraceInv, NEW c \in late, LateCallback(c)
    PROVE  TraceInv'
<1>1. /\ pc # "done" /\ set(c.field, c.hop) /\ late' = late \ {c}
      /\ raced' = (raced \/ c.race)
      /\ UNCHANGED <<pc, hop, dest, tr, transferEnd>>
  BY DEF LateCallback
<1>2. c.field \in Fields /\ c.hop \in 1..hop /\ c.race \in BOOLEAN /\ raced \in BOOLEAN
  BY DEF TraceInv, LateInv, TsInv
<1>3. /\ TsInv' /\ ts'[c.field].hop = c.hop
      /\ \A g \in Fields \ {c.field} : ts'[g] = ts[g]
  <2>1. raced' \in BOOLEAN
    BY <1>1, <1>2
  <2> QED
    BY <1>1, <1>2, <2>1, SetTs DEF TraceInv
<1>4. late' \subseteq [field : Fields, hop : 1..hop, race : BOOLEAN]
  BY <1>1 DEF TraceInv, LateInv
<1>5. CASE c.race
  <2>1. raced' = TRUE /\ c.field \in {"connectEnd", "wroteRequest"}
    BY <1>1, <1>5 DEF TraceInv, LateInv
  <2>2. OrderInv' /\ PairInv' /\ NotYetInv'
    BY <2>1 DEF OrderInv, PairInv, NotYetInv
  <2>3. LateInv'
    BY <1>1, <1>4, <2>1 DEF TraceInv, LateInv
  <2>4. TransferInv'
    BY <1>1, <2>1 DEF TraceInv, TransferInv
  <2>5. HopInv'
    <3>1. c.field = "wroteRequest" => ts'["wroteRequest"].hop > 0
      BY <1>2, <1>3 DEF TraceInv, TsInv
    <3>2. c.field = "connectEnd" => ts'["connectEnd"].hop > 0
      BY <1>2, <1>3 DEF TraceInv, TsInv
    <3>3. c.field # "wroteRequest" /\ (\E d \in late : d.field = "wroteRequest") =>
            \E d \in late' : d.field = "wroteRequest"
      BY <1>1
    <3>4. /\ ts'["dnsStart"] = ts["dnsStart"] /\ ts'["dnsEnd"] = ts["dnsEnd"]
          /\ ts'["connectStart"] = ts["connectStart"] /\ ts'["tlsStart"] = ts["tlsStart"]
          /\ ts'["tlsEnd"] = ts["tlsEnd"] /\ ts'["gotFirstByte"] = ts["gotFirstByte"]
          /\ c.field # "connectEnd" => ts'["connectEnd"] = ts["connectEnd"]
          /\ c.field # "wroteRequest" => ts'["wroteRequest"] = ts["wroteRequest"]
      BY <1>3, <2>1 DEF Fields
    <3> QED
      BY <1>1, <2>1, <3>1, <3>2, <3>3, <3>4 DEF TraceInv, HopInv
  <2> QED
    BY <1>3, <2>2, <2>3, <2>4, <2>5 DEF TraceInv
<1>6. CASE ~c.race
  <2>1. pc = "doErr" /\ raced' = raced
    BY <1>1, <1>2, <1>6 DEF TraceInv, LateInv
  <2>2. HopInv' /\ NotYetInv' /\ TransferInv'
    BY <1>1, <2>1 DEF HopInv, NotYetInv, TransferInv
  <2>3. CASE raced
    BY <1>1, <1>3, <1>4, <2>1, <2>2, <2>3
       DEF TraceInv, OrderInv, PairInv, LateInv
  <2>4. CASE ~raced
    <3>1. /\ c.hop = hop
          /\ \A g \in After(c.field) : ts[g].hop < hop
          /\ \/ c.field = "dnsEnd" /\ ts["dnsStart"].hop = hop
             \/ c.field = "connectEnd" /\ ts["connectStart"].hop = hop
             \/ c.field = "tlsEnd" /\ ts["tlsStart"].hop = hop
             \/ c.field = "wroteRequest" /\ ts["connectEnd"].hop = hop
          /\ \A d \in late : d.race \/ d = c
      BY <1>6, <2>1, <2>4 DEF TraceInv, LateInv
    <3>2. OrderInv'
      BY <1>1, <1>2, <2>1, <3>1, SetOrder DEF TraceInv
    <3>3. \A g \in Fields : ts[g].hop \in Nat /\ ts[g].hop <= hop
      BY DEF TraceInv, TsInv, Stamps
    <3>4. PairInv'
      BY <1>3, <2>1, <2>4, <3>1, <3>3 DEF TraceInv, PairInv, Fields
    <3>5. LateInv'
      BY <1>1, <1>4, <2>1, <3>1 DEF TraceInv, LateInv
    <3> QED
      BY <1>3, <2>2, <3>2, <3>4, <3>5 DEF TraceInv
  <2> QED
    BY <2>3, <2>4
<1> QED
  BY <1>5, <1>6

\* client.Do returns for the context's sake: what is in flight comes later.
LEMMA DoExpiredStep ==
    ASSUME TraceInv, DoExpired
    PROVE  TraceInv'
<1>1. /\ pc = "do" /\ pc' = "doErr" /\ UNCHANGED <<hop, dest, tr, raced, clock, ts>>
      /\ late' = late \union {[field |-> f, hop |-> hop, race |-> FALSE] : f \in InFlight}
  BY DEF DoExpired
<1>2. hop \in 1..hop
  BY DEF TraceInv, TsInv
<1>3. \A c \in late : c.race
  BY <1>1 DEF TraceInv, LateInv
<1>4. CASE InFlight = {}
  <2>1. late' = late
    BY <1>1, <1>4
  <2> QED
    BY <1>1, <1>3, <2>1 DEF TraceInv, TsInv, OrderInv, PairInv, NotYetInv, HopInv, LateInv,
                            TransferInv
<1>5. ASSUME NEW f \in Fields, InFlight = {f} PROVE TraceInv'
  <2>1. PICK c : /\ c = [field |-> f, hop |-> hop, race |-> FALSE]
                 /\ c \in [field : Fields, hop : 1..hop, race : BOOLEAN]
                 /\ c.field = f /\ c.hop = hop /\ c.race = FALSE
    BY <1>2, LateRecord
  <2>2. late' = late \union {c}
    BY <1>1, <1>5, <2>1
  <2>3. \/ f = "dnsEnd" /\ tr = "dns"
        \/ f = "connectEnd" /\ tr \in {"connect", "connectLast", "race"}
        \/ f = "tlsEnd" /\ tr = "tlsWait"
        \/ f = "wroteRequest" /\ tr = "write"
    BY <1>5 DEF InFlight
  <2>4. ~raced => \A g \in After(f) : ts[g].hop < hop
    BY <1>1, <2>3 DEF TraceInv, NotYetInv, NotYet, After, Fields
  <2>5. ~raced =>
          \/ f = "dnsEnd" /\ ts["dnsStart"].hop = hop
          \/ f = "connectEnd" /\ ts["connectStart"].hop = hop
          \/ f = "tlsEnd" /\ ts["tlsStart"].hop = hop
          \/ f = "wroteRequest" /\ ts["connectEnd"].hop = hop
    BY <1>1, <2>3 DEF TraceInv, HopInv, Connecting, Connected
  <2>6. LateInv'
    <3>1. late' \subseteq [field : Fields, hop : 1..hop, race : BOOLEAN]
      BY <2>1, <2>2 DEF TraceInv, LateInv
    <3>2. \A d \in late' : d.race => d.field \in {"connectEnd", "wroteRequest"}
      BY <2>1, <2>2 DEF TraceInv, LateInv
    <3>3. \A d \in late' : ~d.race => d = c
      BY <1>3, <2>2
    <3>4. After(f)' = After(f)
      BY DEF After
    <3> QED
      BY <1>1, <2>1, <2>4, <2>5, <3>1, <3>2, <3>3, <3>4 DEF LateInv
  <2>7. TsInv' /\ OrderInv' /\ PairInv'
    BY <1>1 DEF TraceInv, TsInv, OrderInv, PairInv
  <2>8. NotYetInv' /\ HopInv' /\ TransferInv'
    BY <1>1 DEF NotYetInv, HopInv, TransferInv
  <2> QED
    BY <2>6, <2>7, <2>8 DEF TraceInv
<1> QED
  BY <1>4, <1>5 DEF InFlight, Fields

\* Steps without a callback.
LEMMA QuietStep ==
    ASSUME TraceInv,
           \/ ConnectionLost \/ DoFails \/ ReadBody
           \/ \E isURL \in BOOLEAN : Begin(isURL)
           \/ \E n \in BodyLengths : DoReturns(n)
    PROVE  TraceInv'
<1>1. UNCHANGED <<hop, dest, raced, ts, late>>
  BY DEF ConnectionLost, DoFails, ReadBody, Begin, DoReturns, Move
<1>2. TsInv' /\ OrderInv' /\ PairInv'
  <2>1. TsInv'
    <3>1. \/ clock' = clock \/ clock' = clock + 1
      BY DEF ConnectionLost, DoFails, ReadBody, Begin, DoReturns, Move
    <3>2. clock \in Nat /\ \A f \in Fields : ts[f].at \in Nat /\ ts[f].at < clock
      BY DEF TraceInv, TsInv, Stamps
    <3>3. clock' \in Nat \ {0} /\ \A f \in Fields : ts[f].at < clock'
      BY <3>1, <3>2 DEF TraceInv, TsInv
    <3> QED
      BY <1>1, <3>3 DEF TraceInv, TsInv
  <2> QED
    BY <1>1, <2>1 DEF TraceInv, OrderInv, PairInv
<1>3. CASE ConnectionLost
  BY <1>1, <1>2, <1>3
     DEF ConnectionLost, At, Move, TraceInv, NotYetInv, NotYet, HopInv, LateInv, TransferInv,
         Connecting, Connected, Secured
<1>4. CASE DoFails
  BY <1>1, <1>2, <1>4
     DEF DoFails, At, TraceInv, NotYetInv, HopInv, LateInv, TransferInv
<1>5. ASSUME NEW isURL \in BOOLEAN, Begin(isURL) PROVE TraceInv'
  BY <1>1, <1>2, <1>5
     DEF Begin, TraceInv, NotYetInv, NotYet, HopInv, LateInv, TransferInv,
         Connecting, Connected, Secured
<1>6. ASSUME NEW n \in BodyLengths, DoReturns(n) PROVE TraceInv'
  BY <1>1, <1>2, <1>6
     DEF DoReturns, At, TraceInv, NotYetInv, HopInv, LateInv, TransferInv
<1>7. CASE ReadBody
  <2>1. /\ pc = "read" /\ pc' \in {"verdict", "readErr"} /\ tr' = tr
        /\ transferEnd' = [at |-> clock, hop |-> hop]
    BY <1>7 DEF ReadBody
  <2>2. NotYetInv' /\ HopInv' /\ LateInv'
    BY <1>1, <2>1 DEF TraceInv, NotYetInv, HopInv, LateInv
  <2>3. TransferInv'
    BY <1>1, <2>1 DEF TraceInv, TsInv, TransferInv, Stamps
  <2> QED
    BY <1>2, <2>2, <2>3 DEF TraceInv
<1> QED
  BY <1>3, <1>4, <1>5, <1>6, <1>7

\* The next hop begins with the timestamps of the ones before it.
LEMMA RedirectStep ==
    ASSUME TraceInv, NEW next \in Hops, FollowRedirect(next)
    PROVE  TraceInv'
<1>1. /\ pc = "do" /\ pc' = "do" /\ tr' = "begin" /\ hop' = hop + 1 /\ dest' \in Hops
      /\ UNCHANGED <<late, raced, clock, ts>>
  BY DEF FollowRedirect, At
<1>2. hop \in Nat /\ \A f \in Fields : ts[f].hop \in Nat /\ ts[f].hop <= hop
  BY DEF TraceInv, TsInv, Stamps
<1>3. TsInv' /\ OrderInv' /\ PairInv'
  <2>1. \A f \in Fields : ts[f].hop <= hop + 1
    BY <1>2
  <2> QED
    BY <1>1, <1>2, <2>1 DEF TraceInv, TsInv, OrderInv, PairInv
<1>4. NotYetInv'
  BY <1>1, <1>2 DEF NotYetInv, NotYet
<1>5. HopInv' /\ TransferInv'
  BY <1>1 DEF HopInv, TransferInv, Connecting, Connected, Secured
<1>6. LateInv'
  <2>1. 1..hop \subseteq 1..hop + 1
    BY <1>2
  <2>2. late \subseteq [field : Fields, hop : 1..hop + 1, race : BOOLEAN]
    BY <2>1 DEF TraceInv, LateInv
  <2> QED
    BY <1>1, <2>2 DEF TraceInv, LateInv
<1> QED
  BY <1>3, <1>4, <1>5, <1>6 DEF TraceInv

\* The return of the probe, the end of its context, and stuttering.
LEMMA ReturnStep ==
    ASSUME TraceInv, UNCHANGED <<hop, dest, tr, late, raced, clock, ts, transferEnd>>,
           pc' = "done" \/ pc' = pc
    PROVE  TraceInv'
<1>1. TsInv' /\ OrderInv' /\ PairInv'
  BY DEF TraceInv, TsInv, OrderInv, PairInv
<1>2. NotYetInv' /\ HopInv' /\ LateInv' /\ TransferInv'
  BY DEF TraceInv, NotYetInv, NotYet, HopInv, LateInv, TransferInv
<1> QED
  BY <1>1, <1>2 DEF TraceInv

LEMMA TraceStep ==
    ASSUME TraceInv, [Next]_vars
    PROVE  TraceInv'
<1>1. CASE Prober
  <2>1. CASE \E isURL \in BOOLEAN : Begin(isURL)
    BY <2>1, QuietStep
  <2>2. CASE ~\E isURL \in BOOLEAN : Begin(isURL)
    BY <1>1, <2>2, ReturnStep DEF Prober, ReturnDoErr, ReturnReadErr, VerdictHTTP, VerdictBody
  <2> QED
    BY <2>1, <2>2
<1>2. CASE Expire \/ Done \/ UNCHANGED vars
  BY <1>2, ReturnStep DEF Expire, Done, vars
<1>3. CASE Transport \/ Peer \/ DoExpired \/ ReadBody
  BY <1>3, DNSStep, ConnectStartStep, ConnectDoneStep, TLSStep, WroteRequestStep,
     FirstByteStep, LateStep, DoExpiredStep, QuietStep, RedirectStep DEF Transport, Peer
<1> QED
  BY <1>1, <1>2, <1>3 DEF Next

----------------------------------------------------------------------------
(* Phases *)

\* [a, b] and [c, d] do not overlap, or one of them is empty.
Apart(a, b, c, d) ==
    \/ a.at >= b.at \/ c.at >= d.at
    \/ b.at <= c.at \/ d.at <= a.at

\* Intervals that lie within a hop each do not overlap when those of one hop do not.
LEMMA WithinHops ==
    ASSUME NEW a \in Stamps, NEW b \in Stamps, NEW c \in Stamps, NEW d \in Stamps,
           b.hop <= a.hop, d.hop <= c.hop,
           a.hop < b.hop => a.at < b.at, b.hop < a.hop => b.at < a.at,
           c.hop < d.hop => c.at < d.at, d.hop < c.hop => d.at < c.at,
           b.hop < c.hop => b.at < c.at, d.hop < a.hop => d.at < a.at,
           b.hop = c.hop => b.at <= c.at
    PROVE  Apart(a, b, c, d)
<1>1. /\ a.at \in Nat /\ b.at \in Nat /\ c.at \in Nat /\ d.at \in Nat
      /\ a.hop \in Nat /\ b.hop \in Nat /\ c.hop \in Nat /\ d.hop \in Nat
  BY DEF Stamps
<1> QED
  BY <1>1 DEF Apart

Ready(t) == laterOf(t["tlsEnd"], t["connectEnd"])
TTFBStart(t) == IF t["wroteRequest"] = Zero THEN Ready(t) ELSE t["wroteRequest"]

Span(phase, from, to) == [phase |-> phase, from |-> from, to |-> to]

\* The spans of buildPhases, one by one.
LEMMA BuildPhases ==
    ASSUME NEW t, NEW end
    PROVE  /\ \A p \in buildPhases(t, end) :
                 \/ p = Span("dns_resolve", t["dnsStart"], t["dnsEnd"])
                 \/ p = Span("tcp_connect", t["connectStart"], t["connectEnd"])
                 \/ p = Span("tls_handshake", t["tlsStart"], t["tlsEnd"])
                 \/ p = Span("request_write", Ready(t), t["wroteRequest"])
                 \/ p = Span("ttfb", TTFBStart(t), t["gotFirstByte"])
                 \/ p = Span("transfer", t["gotFirstByte"], end)
           /\ \A p \in buildPhases(t, end) : p.from # Zero /\ p.to # Zero
           /\ t["connectStart"] # Zero /\ t["connectEnd"] # Zero =>
                 Span("tcp_connect", t["connectStart"], t["connectEnd"]) \in buildPhases(t, end)
           /\ t["dnsStart"] # Zero /\ t["dnsEnd"] # Zero =>
                 Span("dns_resolve", t["dnsStart"], t["dnsEnd"]) \in buildPhases(t, end)
           /\ t["tlsStart"] # Zero /\ t["tlsEnd"] # Zero =>
                 Span("tls_handshake", t["tlsStart"], t["tlsEnd"]) \in buildPhases(t, end)
           /\ Ready(t) # Zero /\ t["wroteRequest"] # Zero =>
                 Span("request_write", Ready(t), t["wroteRequest"]) \in buildPhases(t, end)
           /\ TTFBStart(t) # Zero /\ t["gotFirstByte"] # Zero =>
                 Span("ttfb", TTFBStart(t), t["gotFirstByte"]) \in buildPhases(t, end)
           /\ t["gotFirstByte"] # Zero /\ end # Zero =>
                 Span("transfer", t["gotFirstByte"], end) \in buildPhases(t, end)
  BY DEF buildPhases, Ready, TTFBStart, Span

\* Zero is the timestamp of no hop.
LEMMA ZeroHop ==
    ASSUME TsInv, NEW f \in Fields
    PROVE  ts[f] \in Stamps /\ (ts[f] = Zero <=> ts[f].hop = 0)
<1>1. ts[f] \in Stamps /\ (ts[f].at = 0 <=> ts[f].hop = 0)
  BY DEF TsInv
<1>2. Zero.at = 0 /\ Zero.hop = 0 /\ Zero \in Stamps
  BY DEF Zero, Stamps
<1>3. \A x \in Stamps : x.hop = 0 /\ x.at = 0 => x = Zero
  BY DEF Stamps, Zero
<1> QED
  BY <1>1, <1>2, <1>3

\* The connection is ready when the later of its two ends is reached; unless a callback
\* came out of order, that is in the hop of the connect or a later one.
LEMMA ReadyStamp ==
    ASSUME TsInv, OrderInv
    PROVE  /\ Ready(ts) \in {ts["tlsEnd"], ts["connectEnd"]}
           /\ Ready(ts).at >= ts["tlsEnd"].at /\ Ready(ts).at >= ts["connectEnd"].at
           /\ ~raced => Ready(ts).hop >= ts["connectEnd"].hop
           /\ ts["connectEnd"].hop > 0 => Ready(ts) # Zero
<1>1. /\ ts["tlsEnd"] \in Stamps /\ ts["connectEnd"] \in Stamps
      /\ ts["tlsEnd"].at \in Nat /\ ts["connectEnd"].at \in Nat
      /\ ts["tlsEnd"].hop \in Nat /\ ts["connectEnd"].hop \in Nat
  BY DEF TsInv, Stamps, Fields
<1>2. Ready(ts) = IF ts["tlsEnd"].at > ts["connectEnd"].at THEN ts["tlsEnd"] ELSE ts["connectEnd"]
  BY DEF Ready, laterOf
<1>3. ~raced /\ ts["tlsEnd"].hop < ts["connectEnd"].hop => ts["tlsEnd"].at < ts["connectEnd"].at
  BY DEF OrderInv, Fields
<1>4. ts["connectEnd"].hop > 0 => ts["connectEnd"].at > 0
  BY <1>1 DEF TsInv, Fields
<1>5. Zero.at = 0
  BY DEF Zero
<1> QED
  BY <1>1, <1>2, <1>3, <1>4, <1>5

\* The phases of an order of timestamps do not overlap.
LEMMA PhasesApart ==
    ASSUME TsInv, OrderInv, PairInv, ~raced, NEW end \in Stamps,
           end # Zero => /\ end.hop = hop /\ ts["gotFirstByte"].hop = hop
                         /\ \A f \in Fields : ts[f].at < end.at,
           NEW p \in buildPhases(ts, end), NEW q \in buildPhases(ts, end)
    PROVE  p = q \/ Apart(p.from, p.to, q.from, q.to)
<1> DEFINE r == Ready(ts)
<1>1. \A f \in Fields : /\ ts[f] \in Stamps /\ ts[f].at \in Nat /\ ts[f].hop \in Nat
                        /\ ts[f].hop <= hop /\ (ts[f].at = 0 <=> ts[f].hop = 0)
  BY DEF TsInv, Stamps
<1>2. \A f, g \in Fields : ts[f].hop < ts[g].hop => ts[f].at < ts[g].at
  BY DEF OrderInv
<1>3. \A f, g \in Fields : g \in After(f) /\ ts[f].hop = ts[g].hop => ts[f].at <= ts[g].at
  BY <1>1 DEF OrderInv
<1>4. /\ r \in {ts["tlsEnd"], ts["connectEnd"]}
      /\ r.at >= ts["tlsEnd"].at /\ r.at >= ts["connectEnd"].at
      /\ r.hop >= ts["connectEnd"].hop
  BY ReadyStamp
<1> HIDE DEF r
<1>5. /\ ts["dnsEnd"].hop <= ts["dnsStart"].hop
      /\ ts["connectEnd"].hop <= ts["connectStart"].hop
      /\ ts["tlsEnd"].hop <= ts["tlsStart"].hop
      /\ ts["wroteRequest"].hop <= ts["connectEnd"].hop
      /\ ts["gotFirstByte"].hop <= ts["wroteRequest"].hop
  BY DEF PairInv
<1>6. \A f \in Fields : ts[f].hop = r.hop /\ f \in {"dnsEnd", "connectEnd", "tlsEnd"} =>
                          ts[f].at <= r.at
  BY <1>3, <1>4 DEF After, Fields
<1>7. r \in Stamps /\ r.hop <= hop /\ ts["wroteRequest"].hop <= r.hop
  BY <1>1, <1>4, <1>5 DEF Fields
<1>8. /\ \A f \in Fields : ts[f].hop < r.hop => ts[f].at < r.at
      /\ \A f \in Fields : r.hop < ts[f].hop => r.at < ts[f].at
  BY <1>2, <1>4 DEF Fields
<1> DEFINE Follows(x, y) == x.hop = y.hop => x.at <= y.at
           Marks == {ts[f] : f \in Fields} \union {r} \union {x \in {end} : x # Zero}
<1>9. \A a, b, c, d \in Marks :
         b.hop <= a.hop /\ d.hop <= c.hop /\ Follows(b, c) => Apart(a, b, c, d)
  <2>1. \A x \in Marks : x \in Stamps
    BY <1>1, <1>7
  <2>2. \A x, y \in Marks : x.hop < y.hop => x.at < y.at
    <3> SUFFICES ASSUME NEW x \in Marks, NEW y \in Marks, x.hop < y.hop PROVE x.at < y.at
      OBVIOUS
    <3>1. CASE y = end /\ end # Zero
      <4>1. x # end
        BY <2>1, <3>1 DEF Stamps
      <4>2. \A f \in Fields : ts[f].at < end.at
        BY <3>1
      <4>3. r.at < end.at
        BY <1>4, <4>2 DEF Fields
      <4> QED
        BY <3>1, <4>1, <4>2, <4>3
    <3>2. CASE x = end /\ end # Zero
      <4>1. y.hop <= hop /\ hop \in Nat
        BY <1>1, <1>7, <3>2 DEF TsInv
      <4> QED
        BY <2>1, <3>2, <4>1 DEF Stamps
    <3>3. CASE /\ x \in {ts[f] : f \in Fields} \union {r}
               /\ y \in {ts[f] : f \in Fields} \union {r}
      <4>1. ~(r.hop < r.hop)
        BY <1>7 DEF Stamps
      <4> QED
        BY <1>2, <1>8, <3>3, <4>1
    <3> QED
      BY <3>1, <3>2, <3>3
  <2>3. \A x \in Marks : x.hop \in Nat /\ x.at \in Nat
    BY <2>1 DEF Stamps
  <2> HIDE DEF Marks
  <2> SUFFICES ASSUME NEW a \in Marks, NEW b \in Marks, NEW c \in Marks, NEW d \in Marks,
                      b.hop <= a.hop, d.hop <= c.hop, b.hop = c.hop => b.at <= c.at
               PROVE  Apart(a, b, c, d)
    OBVIOUS
  <2> QED
    BY <2>1, <2>2, WithinHops
<1>10. /\ \A f \in Fields : ts[f] \in Marks
       /\ r \in Marks /\ (end # Zero => end \in Marks)
  OBVIOUS
<1>11. /\ Follows(ts["dnsEnd"], ts["connectStart"]) /\ Follows(ts["dnsEnd"], ts["tlsStart"])
       /\ Follows(ts["dnsEnd"], r) /\ Follows(ts["dnsEnd"], ts["wroteRequest"])
       /\ Follows(ts["dnsEnd"], ts["gotFirstByte"])
       /\ Follows(ts["connectEnd"], ts["tlsStart"]) /\ Follows(ts["connectEnd"], r)
       /\ Follows(ts["connectEnd"], ts["wroteRequest"])
       /\ Follows(ts["connectEnd"], ts["gotFirstByte"])
       /\ Follows(ts["tlsEnd"], r) /\ Follows(ts["tlsEnd"], ts["wroteRequest"])
       /\ Follows(ts["tlsEnd"], ts["gotFirstByte"])
       /\ Follows(ts["wroteRequest"], ts["wroteRequest"])
       /\ Follows(ts["wroteRequest"], ts["gotFirstByte"])
       /\ Follows(ts["gotFirstByte"], ts["gotFirstByte"])
  BY <1>1, <1>3, <1>6 DEF After, Fields
<1>12. end # Zero => end.hop <= ts["gotFirstByte"].hop
  BY DEF Stamps
<1> HIDE DEF Follows, Marks
<1>13. /\ Apart(ts["dnsStart"], ts["dnsEnd"], ts["connectStart"], ts["connectEnd"])
      /\ Apart(ts["dnsStart"], ts["dnsEnd"], ts["tlsStart"], ts["tlsEnd"])
      /\ Apart(ts["dnsStart"], ts["dnsEnd"], ts["wroteRequest"], ts["gotFirstByte"])
      /\ Apart(ts["connectStart"], ts["connectEnd"], ts["tlsStart"], ts["tlsEnd"])
      /\ Apart(ts["connectStart"], ts["connectEnd"], ts["wroteRequest"], ts["gotFirstByte"])
      /\ Apart(ts["tlsStart"], ts["tlsEnd"], ts["wroteRequest"], ts["gotFirstByte"])
  BY <1>5, <1>7, <1>9, <1>10, <1>11 DEF Fields
<1>14. /\ Apart(ts["dnsStart"], ts["dnsEnd"], r, ts["wroteRequest"])
      /\ Apart(ts["connectStart"], ts["connectEnd"], r, ts["wroteRequest"])
      /\ Apart(ts["tlsStart"], ts["tlsEnd"], r, ts["wroteRequest"])
      /\ Apart(r, ts["wroteRequest"], ts["wroteRequest"], ts["gotFirstByte"])
  BY <1>5, <1>7, <1>9, <1>10, <1>11 DEF Fields
<1>15. end # Zero => /\ Apart(ts["dnsStart"], ts["dnsEnd"], ts["gotFirstByte"], end)
                    /\ Apart(ts["connectStart"], ts["connectEnd"], ts["gotFirstByte"], end)
                    /\ Apart(ts["tlsStart"], ts["tlsEnd"], ts["gotFirstByte"], end)
                    /\ Apart(r, ts["wroteRequest"], ts["gotFirstByte"], end)
                    /\ Apart(ts["wroteRequest"], ts["gotFirstByte"], ts["gotFirstByte"], end)
  BY <1>5, <1>7, <1>9, <1>10, <1>11, <1>12 DEF Fields
<1>16. \A a, b, c, d : Apart(a, b, c, d) => Apart(c, d, a, b)
  BY DEF Apart
<1>17. ts["gotFirstByte"] # Zero => TTFBStart(ts) = ts["wroteRequest"]
  <2>1. "gotFirstByte" \in Fields /\ "wroteRequest" \in Fields
    BY DEF Fields
  <2>2. ts["gotFirstByte"].hop = 0 => ts["gotFirstByte"] = Zero
    BY <2>1, ZeroHop
  <2>3. ts["wroteRequest"] = Zero => ts["wroteRequest"].hop = 0
    BY <2>1, ZeroHop
  <2> QED
    BY <1>1, <1>5, <2>1, <2>2, <2>3 DEF TTFBStart
<1>18. \A x \in buildPhases(ts, end) :
          \/ x = Span("dns_resolve", ts["dnsStart"], ts["dnsEnd"])
          \/ x = Span("tcp_connect", ts["connectStart"], ts["connectEnd"])
          \/ x = Span("tls_handshake", ts["tlsStart"], ts["tlsEnd"])
          \/ x = Span("request_write", r, ts["wroteRequest"])
          \/ x = Span("ttfb", ts["wroteRequest"], ts["gotFirstByte"])
          \/ x = Span("transfer", ts["gotFirstByte"], end) /\ end # Zero
  <2> TAKE x \in buildPhases(ts, end)
  <2>1. x.from # Zero /\ x.to # Zero
    BY BuildPhases
  <2>2. \A ph, a, b : x = Span(ph, a, b) => a # Zero /\ b # Zero
    BY <2>1 DEF Span
  <2>3. \/ x = Span("dns_resolve", ts["dnsStart"], ts["dnsEnd"])
        \/ x = Span("tcp_connect", ts["connectStart"], ts["connectEnd"])
        \/ x = Span("tls_handshake", ts["tlsStart"], ts["tlsEnd"])
        \/ x = Span("request_write", r, ts["wroteRequest"])
        \/ x = Span("ttfb", TTFBStart(ts), ts["gotFirstByte"])
        \/ x = Span("transfer", ts["gotFirstByte"], end)
    BY BuildPhases DEF r
  <2> QED
    BY <1>17, <2>2, <2>3
<1>19. \A ph, a, b : Span(ph, a, b).from = a /\ Span(ph, a, b).to = b
  BY DEF Span
<1> QED
  BY <1>13, <1>14, <1>15, <1>16, <1>18, <1>19

\* After a response the phases are there, whatever callbacks are late, and they are
\* those of the last hop unless a callback came out of order.
LEMMA ResponsePhases ==
    ASSUME TraceInv, pc \in {"readErr", "verdict"}, NEW P, P = buildPhases(ts, transferEnd)
    PROVE  /\ {"tcp_connect", "ttfb", "transfer"} \subseteq {p.phase : p \in P}
           /\ dest.scheme = "https" => "tls_handshake" \in {p.phase : p \in P}
           /\ dest.lookup => "dns_resolve" \in {p.phase : p \in P}
           /\ (\A c \in late : c.field # "wroteRequest") =>
                "request_write" \in {p.phase : p \in P}
           /\ ~raced => \A p \in P :
                \/ p.from.hop = hop /\ p.to.hop = hop
                \/ p.phase = "dns_resolve" /\ ~dest.lookup
                \/ p.phase = "tls_handshake" /\ dest.scheme = "http"
<1>1. /\ hop \in Nat /\ hop > 0
      /\ ts["connectStart"].hop = hop /\ ts["connectEnd"].hop > 0
      /\ ts["gotFirstByte"].hop = hop
      /\ dest.scheme = "https" => ts["tlsStart"].hop = hop /\ ts["tlsEnd"].hop = hop
      /\ dest.lookup => ts["dnsStart"].hop = hop /\ ts["dnsEnd"].hop = hop
      /\ ts["wroteRequest"].hop > 0 \/ \E c \in late : c.field = "wroteRequest"
      /\ ~raced => ts["connectEnd"].hop = hop /\ ts["wroteRequest"].hop = hop
  BY DEF TraceInv, TsInv, HopInv, Connected, Secured
<1>2. \A f \in Fields : ts[f].hop \in Nat /\ (ts[f] # Zero <=> ts[f].hop > 0)
  <2> TAKE f \in Fields
  <2>1. ts[f] \in Stamps /\ (ts[f] = Zero <=> ts[f].hop = 0)
    BY ZeroHop DEF TraceInv
  <2> QED
    BY <2>1 DEF Stamps
<1>3. /\ ts["connectStart"] # Zero /\ ts["connectEnd"] # Zero /\ ts["gotFirstByte"] # Zero
      /\ dest.scheme = "https" => ts["tlsStart"] # Zero /\ ts["tlsEnd"] # Zero
      /\ dest.lookup => ts["dnsStart"] # Zero /\ ts["dnsEnd"] # Zero
      /\ (\A c \in late : c.field # "wroteRequest") => ts["wroteRequest"] # Zero
  BY <1>1, <1>2 DEF Fields
<1>4. Ready(ts) # Zero /\ TTFBStart(ts) # Zero
  BY <1>1, ReadyStamp DEF TraceInv, TTFBStart
<1>5. transferEnd # Zero /\ transferEnd.hop = hop
  <2>1. transferEnd.hop = hop
    BY DEF TraceInv, TransferInv
  <2>2. Zero.hop = 0
    BY DEF Zero
  <2> QED
    BY <1>1, <2>1, <2>2
<1>6. \A ph, a, b : /\ Span(ph, a, b).phase = ph /\ Span(ph, a, b).from = a
                    /\ Span(ph, a, b).to = b
  BY DEF Span
<1>7. {"tcp_connect", "ttfb", "transfer"} \subseteq {p.phase : p \in P}
  <2>1. /\ Span("tcp_connect", ts["connectStart"], ts["connectEnd"]) \in P
        /\ Span("ttfb", TTFBStart(ts), ts["gotFirstByte"]) \in P
        /\ Span("transfer", ts["gotFirstByte"], transferEnd) \in P
    BY <1>3, <1>4, <1>5, BuildPhases
  <2> QED
    BY <1>6, <2>1
<1>8. dest.scheme = "https" => "tls_handshake" \in {p.phase : p \in P}
  <2>1. dest.scheme = "https" => Span("tls_handshake", ts["tlsStart"], ts["tlsEnd"]) \in P
    BY <1>3, BuildPhases
  <2> QED
    BY <1>6, <2>1
<1>9. dest.lookup => "dns_resolve" \in {p.phase : p \in P}
  <2>1. dest.lookup => Span("dns_resolve", ts["dnsStart"], ts["dnsEnd"]) \in P
    BY <1>3, BuildPhases
  <2> QED
    BY <1>6, <2>1
<1>10. (\A c \in late : c.field # "wroteRequest") => "request_write" \in {p.phase : p \in P}
  <2>1. (\A c \in late : c.field # "wroteRequest") =>
           Span("request_write", Ready(ts), ts["wroteRequest"]) \in P
    BY <1>3, <1>4, BuildPhases
  <2> QED
    BY <1>6, <2>1
<1>11. ASSUME ~raced, NEW p \in P
       PROVE  \/ p.from.hop = hop /\ p.to.hop = hop
              \/ p.phase = "dns_resolve" /\ ~dest.lookup
              \/ p.phase = "tls_handshake" /\ dest.scheme = "http"
  <2>1. \/ p = Span("dns_resolve", ts["dnsStart"], ts["dnsEnd"])
        \/ p = Span("tcp_connect", ts["connectStart"], ts["connectEnd"])
        \/ p = Span("tls_handshake", ts["tlsStart"], ts["tlsEnd"])
        \/ p = Span("request_write", Ready(ts), ts["wroteRequest"])
        \/ p = Span("ttfb", TTFBStart(ts), ts["gotFirstByte"])
        \/ p = Span("transfer", ts["gotFirstByte"], transferEnd)
    BY <1>11, BuildPhases
  <2>2. Ready(ts).hop = hop
    <3>1. Ready(ts) \in {ts["tlsEnd"], ts["connectEnd"]} /\ Ready(ts).hop >= ts["connectEnd"].hop
      BY <1>11, ReadyStamp DEF TraceInv
    <3>2. ts["tlsEnd"].hop <= hop /\ ts["tlsEnd"].hop \in Nat
      BY DEF TraceInv, TsInv, Stamps, Fields
    <3> QED
      BY <1>1, <1>11, <3>1, <3>2
  <2>3. TTFBStart(ts).hop = hop
    BY <1>1, <1>11, <2>2 DEF TTFBStart
  <2>4. dest.scheme \in {"http", "https"}
    BY DEF TraceInv, TsInv, Hops, Schemes
  <2> QED
    BY <1>1, <1>5, <1>6, <1>11, <2>1, <2>2, <2>3, <2>4
<1> QED
  BY <1>7, <1>8, <1>9, <1>10, <1>11

----------------------------------------------------------------------------
(* The result *)

\* Before the probe returns its result says only whether a response came.
LEMMA Undecided ==
    ASSUME ResultInv', pc' # "done"
    PROVE  BodyVerdict' /\ PhasesComplete' /\ PhasesDisjoint'
<1>1. result' \in {NoResult, [NoResult EXCEPT !.received = TRUE]}
  BY DEF ResultInv
<1>2. /\ result'.phases = {}
      /\ result'.bodyEval = FALSE /\ result'.truncEval = FALSE /\ result'.success = FALSE
  BY <1>1 DEF NoResult
<1> QED
  BY <1>2 DEF BodyVerdict, PhasesComplete, PhasesDisjoint

\* The phases of the result, when they are those of buildPhases.
LEMMA ReturnedPhases ==
    ASSUME TraceInv, NEW end \in Stamps,
           UNCHANGED <<hop, raced, ts>>, result'.phases = buildPhases(ts, end),
           end # Zero => /\ end.hop = hop /\ ts["gotFirstByte"].hop = hop
                         /\ ~raced => \A f \in Fields : ts[f].at < end.at
    PROVE  PhasesDisjoint'
<1> SUFFICES ASSUME ~raced, NEW p \in buildPhases(ts, end), NEW q \in buildPhases(ts, end)
             PROVE  p = q \/ Apart(p.from, p.to, q.from, q.to)
  BY DEF PhasesDisjoint, Apart
<1> QED
  BY PhasesApart DEF TraceInv

LEMMA ReturnWithResponse ==
    ASSUME TraceInv, pc \in {"readErr", "verdict"}, pc' = "done",
           UNCHANGED <<hop, dest, late, raced, ts>>,
           result'.phases = buildPhases(ts, transferEnd)
    PROVE  PhasesComplete' /\ PhasesDisjoint'
<1>1. /\ transferEnd \in Stamps /\ transferEnd.hop = hop
      /\ ts["gotFirstByte"].hop = hop
      /\ ~raced => \A f \in Fields : ts[f].at < transferEnd.at
  BY DEF TraceInv, TransferInv, HopInv
<1>2. PhasesDisjoint'
  BY <1>1, ReturnedPhases
<1>3. OwnPhases' = OwnPhases
  BY DEF OwnPhases
<1>4. /\ OwnPhases \ {"request_write"} \subseteq {p.phase : p \in result'.phases}
      /\ (\A c \in late : c.field # "wroteRequest") =>
           "request_write" \in {p.phase : p \in result'.phases}
  BY ResponsePhases DEF OwnPhases
<1>5. ASSUME ~raced, NEW p \in result'.phases, p.phase \in OwnPhases
      PROVE  p.from.hop = hop /\ p.to.hop = hop
  BY <1>5, ResponsePhases DEF OwnPhases
<1>6. PhasesComplete'
  BY <1>3, <1>4, <1>5 DEF PhasesComplete, Phases
<1> QED
  BY <1>2, <1>6

LEMMA ResultStep ==
    ASSUME HTTPInv, [Next]_vars
    PROVE  ResultInv' /\ BodyVerdict' /\ PhasesComplete' /\ PhasesDisjoint'
<1> USE DEF HTTPInv
<1>1. CASE UNCHANGED vars
  <2>1. UNCHANGED <<mode, pc, hop, dest, late, raced, body, result>>
    BY <1>1 DEF vars, config
  <2> QED
    BY <2>1 DEF ResultInv, BodyVerdict, PhasesComplete, OwnPhases, Phases, PhasesDisjoint
<1>2. CASE Transport \/ Expire
  <2>1. pc # "done" /\ UNCHANGED <<mode, pc, body, result>>
    BY <1>2 DEF Transport, DNSStart, DNSDone, ConnectStart, FallbackStart, ConnectDone,
                TLSHandshakeStart, TLSHandshakeDone, WroteRequest, GotFirstResponseByte,
                ConnectionLost, LateCallback, Expire, At, Move, config
  <2>2. ResultInv'
    BY <2>1 DEF ResultInv
  <2> QED
    BY <2>1, <2>2, Undecided
<1>3. CASE Peer \/ DoExpired \/ ReadBody
  <2>1. ResultInv' /\ pc' # "done"
    <3>1. CASE (\E next \in Hops : FollowRedirect(next)) \/ DoFails \/ DoExpired
      BY <3>1 DEF FollowRedirect, DoFails, DoExpired, At, config, ResultInv
    <3>2. ASSUME NEW n \in BodyLengths, DoReturns(n) PROVE ResultInv' /\ pc' # "done"
      <4>1. n \in Nat
        BY LimitAssumption
      <4> QED
        BY <3>2, <4>1 DEF DoReturns, At, config, ResultInv, NoResult
    <3>3. CASE ReadBody
      BY <3>3 DEF ReadBody, config, ResultInv
    <3> QED
      BY <1>3, <3>1, <3>2, <3>3 DEF Peer
  <2> QED
    BY <2>1, Undecided
<1>4. ASSUME NEW isURL \in BOOLEAN, Begin(isURL)
      PROVE  ResultInv' /\ BodyVerdict' /\ PhasesComplete' /\ PhasesDisjoint'
  <2>1. pc = "start" /\ mode' = mode /\ result = NoResult
    BY <1>4 DEF Begin, config, ResultInv
  <2>2. CASE isURL
    <3>1. ResultInv' /\ pc' # "done"
      BY <1>4, <2>1, <2>2 DEF Begin, ResultInv
    <3> QED
      BY <3>1, Undecided
  <2>3. CASE ~isURL
    <3>1. pc' = "done" /\ result' = [result EXCEPT !.err = TRUE]
      BY <1>4, <2>3 DEF Begin
    <3>2. /\ result'.phases = {} /\ result'.received = FALSE
          /\ result'.bodyEval = FALSE /\ result'.truncEval = FALSE /\ result'.success = FALSE
      BY <2>1, <3>1 DEF NoResult
    <3> QED
      BY <2>1, <3>1, <3>2 DEF ResultInv, BodyVerdict, PhasesComplete, PhasesDisjoint
  <2> QED
    BY <2>2, <2>3
<1>5. CASE ReturnDoErr
  <2>1. /\ pc = "doErr" /\ pc' = "done"
        /\ result' = [result EXCEPT !.err = TRUE, !.phases = buildPhases(ts, Zero)]
        /\ result = NoResult
        /\ UNCHANGED <<mode, hop, raced, ts>>
    BY <1>5 DEF ReturnDoErr, config, ResultInv
  <2>2. /\ result'.phases = buildPhases(ts, Zero) /\ result'.received = FALSE
        /\ result'.bodyEval = FALSE /\ result'.truncEval = FALSE /\ result'.success = FALSE
    BY <2>1 DEF NoResult
  <2>3. PhasesDisjoint'
    <3>1. Zero \in Stamps
      BY DEF Zero, Stamps
    <3> QED
      BY <2>1, <2>2, <3>1, ReturnedPhases
  <2> QED
    BY <2>1, <2>2, <2>3 DEF ResultInv, BodyVerdict, PhasesComplete
<1>6. CASE ReturnReadErr
  <2>1. /\ pc = "readErr" /\ pc' = "done"
        /\ result' = [result EXCEPT !.err = TRUE, !.phases = buildPhases(ts, transferEnd)]
        /\ result = [NoResult EXCEPT !.received = TRUE]
        /\ UNCHANGED <<mode, hop, dest, late, raced, ts>>
    BY <1>6 DEF ReturnReadErr, config, ResultInv
  <2>2. /\ result'.phases = buildPhases(ts, transferEnd)
        /\ result'.bodyEval = FALSE /\ result'.truncEval = FALSE /\ result'.success = FALSE
    BY <2>1 DEF NoResult
  <2>3. PhasesComplete' /\ PhasesDisjoint'
    BY <2>1, <2>2, ReturnWithResponse
  <2> QED
    BY <2>1, <2>2, <2>3 DEF ResultInv, BodyVerdict
<1>7. pc = "verdict" => (bytesRead > BodyLimit <=> body > BodyLimit)
  BY LimitAssumption DEF ResultInv, bytesRead
<1>8. ASSUME NEW statusOk \in BOOLEAN, VerdictHTTP(statusOk)
      PROVE  ResultInv' /\ BodyVerdict' /\ PhasesComplete' /\ PhasesDisjoint'
  <2>1. /\ pc = "verdict" /\ pc' = "done"
        /\ result' = [result EXCEPT !.phases = buildPhases(ts, transferEnd),
                                    !.truncEval = TRUE, !.truncated = bytesRead > BodyLimit,
                                    !.success = statusOk, !.err = ~statusOk]
        /\ result = [NoResult EXCEPT !.received = TRUE]
        /\ UNCHANGED <<mode, hop, dest, late, raced, ts, body>>
    BY <1>8 DEF VerdictHTTP, config, ResultInv
  <2>2. /\ result'.phases = buildPhases(ts, transferEnd)
        /\ result'.bodyEval = FALSE /\ result'.truncEval = TRUE
        /\ result'.truncated = (bytesRead > BodyLimit)
    BY <2>1 DEF NoResult
  <2>3. PhasesComplete' /\ PhasesDisjoint'
    BY <2>1, <2>2, ReturnWithResponse
  <2>4. BodyVerdict'
    BY <1>7, <2>1, <2>2 DEF BodyVerdict
  <2> QED
    BY <2>1, <2>3, <2>4 DEF ResultInv
<1>9. ASSUME NEW statusOk \in BOOLEAN, NEW found \in BOOLEAN, VerdictBody(statusOk, found)
      PROVE  ResultInv' /\ BodyVerdict' /\ PhasesComplete' /\ PhasesDisjoint'
  <2>1. /\ pc = "verdict" /\ pc' = "done"
        /\ result = [NoResult EXCEPT !.received = TRUE]
        /\ UNCHANGED <<mode, hop, dest, late, raced, ts, body>>
    BY <1>9 DEF VerdictBody, config, ResultInv
  <2>2. /\ result'.phases = buildPhases(ts, transferEnd) /\ result'.truncEval = FALSE
        /\ bytesRead > BodyLimit => result'.bodyEval = FALSE /\ result'.success = FALSE
        /\ ~(bytesRead > BodyLimit) => result'.bodyEval = TRUE
    <3>1. CASE bytesRead > BodyLimit
      <4>1. result' = [result EXCEPT !.err = TRUE, !.phases = buildPhases(ts, transferEnd)]
        BY <1>9, <3>1 DEF VerdictBody
      <4> QED
        BY <2>1, <3>1, <4>1 DEF NoResult
    <3>2. CASE ~(bytesRead > BodyLimit)
      <4> DEFINE ok == found /\ statusOk
      <4>1. result' = [result EXCEPT !.phases = buildPhases(ts, transferEnd),
                                     !.bodyEval = TRUE, !.match = found,
                                     !.success = ok, !.err = ~ok]
        BY <1>9, <3>2 DEF VerdictBody
      <4> HIDE DEF ok
      <4> QED
        BY <2>1, <3>2, <4>1 DEF NoResult
    <3> QED
      BY <3>1, <3>2
  <2>3. PhasesComplete' /\ PhasesDisjoint'
    BY <2>1, <2>2, ReturnWithResponse
  <2>4. BodyVerdict'
    <3>1. body \in Nat /\ (bytesRead > BodyLimit <=> body > BodyLimit)
      BY <1>7, <2>1 DEF ResultInv
    <3> QED
      BY <2>1, <2>2, <3>1, LimitAssumption DEF BodyVerdict
  <2> QED
    BY <2>1, <2>3, <2>4 DEF ResultInv
<1> QED
  BY <1>1, <1>2, <1>3, <1>4, <1>5, <1>6, <1>8, <1>9 DEF Next, Prober, Done

----------------------------------------------------------------------------
LEMMA Initially == Init => HTTPInv
<1> SUFFICES ASSUME Init PROVE HTTPInv
  OBVIOUS
<1> USE DEF Init
<1>1. \A f \in Fields : ts[f] = Zero
  OBVIOUS
<1>2. Zero \in Stamps /\ Zero.at = 0 /\ Zero.hop = 0
  BY DEF Zero, Stamps
<1>3. TsInv
  <2>1. ts \in [Fields -> Stamps]
    BY <1>2
  <2>2. \A f \in Fields : /\ ts[f].at < clock /\ ts[f].hop <= hop
                          /\ ts[f].at = 0 <=> ts[f].hop = 0
    <3>1. Zero.at < clock /\ Zero.hop <= hop /\ (Zero.at = 0 <=> Zero.hop = 0)
      BY <1>2
    <3> QED
      BY <1>1, <3>1
  <2>3. hop \in Nat \ {0} /\ clock \in Nat \ {0}
    OBVIOUS
  <2>4. raced \in BOOLEAN /\ dest \in Hops
    BY Zenon
  <2> QED
    BY <2>1, <2>2, <2>3, <2>4 DEF TsInv
<1>4. OrderInv /\ PairInv /\ NotYetInv
  BY <1>1, <1>2 DEF OrderInv, PairInv, NotYetInv, Fields
<1>5. HopInv /\ LateInv /\ TransferInv
  BY DEF HopInv, LateInv, TransferInv
<1>6. ResultInv
  BY DEF ResultInv, NoResult
<1>7. BodyVerdict /\ PhasesComplete /\ PhasesDisjoint
  BY DEF BodyVerdict, PhasesComplete, PhasesDisjoint, NoResult
<1> QED
  BY <1>3, <1>4, <1>5, <1>6, <1>7 DEF HTTPInv, TraceInv

\* The invariant of a direct probe: timestamps that are in order unless a callback came
\* out of order, and a result that fits them (http.go:209-256, http_trace.go).
THEOREM HTTPInvariant == Spec => []HTTPInv
<1>1. ASSUME HTTPInv, [Next]_vars PROVE HTTPInv'
  BY <1>1, TraceStep, ResultStep DEF HTTPInv
<1> QED
  BY <1>1, Initially, PTL DEF Spec

\* A pattern is never matched against the beginning of a longer body, and truncation is
\* reported exactly for bodies over the limit (http_body.go:200-208, http.go:225-236).
THEOREM HTTPBodyVerdict == Spec => []BodyVerdict
<1>1. HTTPInv => BodyVerdict
  BY DEF HTTPInv
<1> QED
  BY <1>1, HTTPInvariant, PTL

\* A probe that got a response reports every phase its last hop went through, with the
\* times of that hop, for redirect chains of any length and whatever callbacks are late
\* (http.go:200-256).
THEOREM HTTPPhasesComplete == Spec => []PhasesComplete
<1>1. HTTPInv => PhasesComplete
  BY DEF HTTPInv
<1> QED
  BY <1>1, HTTPInvariant, PTL

\* "Phases are non-overlapping" (http.go:485) although all hops share one set of
\* timestamps, unless a callback came out of order.
THEOREM HTTPPhasesDisjoint == Spec => []PhasesDisjoint
<1>1. HTTPInv => PhasesDisjoint
  BY DEF HTTPInv
<1> QED
  BY <1>1, HTTPInvariant, PTL
=============================================================================
