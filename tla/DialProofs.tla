----------------------------- MODULE DialProofs -----------------------------
(***************************************************************************)
(* The winner of a dial race stays open while its user has it, and a dial  *)
(* that fails has tried every address, for every list of addresses.        *)
(***************************************************************************)
EXTENDS Dial, WellFoundedInduction, FiniteSetTheorems, TLAPS

\* Until a winner is taken nothing closes a connection, so that everything a
\* worker is about to send, or has sent, is open or an error.
PendingOpen ==
    dialPC \in {"resolve", "receive"} =>
        /\ cleaner = "off"
        /\ \A w \in Workers : wpc[w] = "send" => wconn[w] \in dialOpen \union {None}
        /\ results \in Seq(dialOpen \union {None})

\* A worker is connected only once it has something to send.
ConnectedSends ==
    /\ wpc \in [Workers -> {"off", "delay", "next", "dialing", "send", "gone"}]
    /\ DOMAIN wconn = Workers
    /\ \A w \in Workers : wpc[w] \notin {"send", "gone"} => wconn[w] = None
    /\ dialPC = "resolve" => \A w \in Workers : wpc[w] = "off"

DialInv == ConnectedSends /\ PendingOpen /\ WinnerStaysOpen

LEMMA SeqMonotonic ==
    ASSUME NEW S, NEW T, S \subseteq T, NEW s \in Seq(S)
    PROVE  s \in Seq(T)
OBVIOUS

LEMMA WorkerStep ==
    ASSUME DialInv, NEW w \in Workers, Worker(w) \/ DialConnects(w) \/ DialRefused(w)
    PROVE  DialInv'
<1> USE DEF DialInv, Go
<1>1. CASE DelayOver(w) \/ DialStart(w) \/ DialExhausted(w)
  BY <1>1 DEF DelayOver, DialStart, DialExhausted, ConnectedSends, PendingOpen, WinnerStaysOpen
<1>2. CASE DialCancelled(w) \/ DialRefused(w)
  BY <1>2 DEF DialCancelled, DialRefused, DialError, ConnectedSends, PendingOpen,
              WinnerStaysOpen
<1>3. CASE DelayCancelled(w)
  BY <1>3 DEF DelayCancelled, ConnectedSends, PendingOpen, WinnerStaysOpen
<1>4. CASE DialConnects(w)
  <2> DEFINE a == Addresses(w)[widx[w]]
  <2>1. /\ wconn' = [wconn EXCEPT ![w] = a] /\ wpc' = [wpc EXCEPT ![w] = "send"]
        /\ dialOpen' = dialOpen \union {a}
        /\ UNCHANGED <<dialPC, results, cleaner, winner>>
    BY <1>4 DEF DialConnects
  <2> HIDE DEF a
  <2>2. dialOpen \union {None} \subseteq dialOpen' \union {None}
    BY <2>1
  <2>3. dialPC \in {"resolve", "receive"} => results' \in Seq(dialOpen' \union {None})
    BY <2>1, <2>2, SeqMonotonic DEF PendingOpen
  <2>4. ConnectedSends'
    BY <1>4, <2>1 DEF DialConnects, ConnectedSends
  <2>5. PendingOpen'
    BY <2>1, <2>3 DEF ConnectedSends, PendingOpen
  <2> QED
    BY <2>1, <2>4, <2>5 DEF WinnerStaysOpen
<1>5. CASE SendOutcome(w)
  BY <1>5 DEF SendOutcome, ConnectedSends, PendingOpen, WinnerStaysOpen
<1> QED
  BY <1>1, <1>2, <1>3, <1>4, <1>5 DEF Worker

\* The connection handed to the caller is open for as long as the caller has it
\* (dialTCPHappyEyeballs, prober.go:341-404): what the workers send is open, and
\* the closing goroutine leaves out the winner.
THEOREM DialWinner == DialSpec => []WinnerStaysOpen
<1>1. DialInit => DialInv
  BY DEF DialInit, DialInv, ConnectedSends, PendingOpen, WinnerStaysOpen, Workers
<1>2. ASSUME DialInv, [DialNext]_dialVars PROVE DialInv'
  <2> USE <1>2 DEF DialInv
  <2>1. CASE ResolveFails \/ Join \/ CloseConn
    BY <2>1 DEF ResolveFails, Join, CloseConn, workerVars, ConnectedSends, PendingOpen,
                WinnerStaysOpen
  <2>7. CASE DialExpires \/ UNCHANGED dialVars
    <3>1. UNCHANGED <<dialPC, wpc, wconn, results, winner, cleaner, dialOpen>>
      BY <2>7, Zenon DEF DialExpires, dialVars, workerVars
    <3> QED
      BY <3>1 DEF ConnectedSends, PendingOpen, WinnerStaysOpen
  <2>2. CASE StartWorkers
    BY <2>2 DEF StartWorkers, ConnectedSends, PendingOpen, WinnerStaysOpen
  <2>3. CASE ReceiveError
    BY <2>3 DEF ReceiveError, workerVars, ConnectedSends, PendingOpen, WinnerStaysOpen
  <2>4. CASE ReceiveConn
    BY <2>4 DEF ReceiveConn, workerVars, ConnectedSends, PendingOpen, WinnerStaysOpen
  <2>5. CASE CloseLosers
    BY <2>5 DEF CloseLosers, workerVars, ConnectedSends, PendingOpen, WinnerStaysOpen
  <2>6. CASE \E w \in Workers : Worker(w) \/ DialConnects(w) \/ DialRefused(w)
    BY <2>6, WorkerStep
  <2> QED
    BY <2>1, <2>2, <2>3, <2>4, <2>5, <2>6, <2>7 DEF DialNext, Main, Returned
<1>3. DialInv => WinnerStaysOpen
  BY DEF DialInv
<1> QED
  BY <1>1, <1>2, <1>3, PTL DEF DialSpec

----------------------------------------------------------------------------
(* What the loop of splitDialFamilies computes *)

Vals(s) == {s[i] : i \in DOMAIN s}

\* Every set of numbers has a least one; used for induction: what fails for
\* some number fails for a least one.
LEMMA LeastNumber ==
    ASSUME NEW T \in SUBSET Nat, T # {}
    PROVE  \E x \in T : \A y \in T : x <= y
<1> DEFINE R == OpToRel(<, Nat)
<1>1. IsWellFoundedOn(R, Nat)
  BY NatLessThanWellFounded
<1>2. \A x, y \in Nat : x < y => <<x, y>> \in R
  BY DEF OpToRel
<1> HIDE DEF R
<1>3. PICK x \in T : \A y \in T : ~(<<y, x>> \in R)
  BY <1>1, WFMin
<1>4. \A y \in T : x \in Nat /\ y \in Nat /\ ~(y < x)
  BY <1>2, <1>3
<1> QED
  BY <1>3, <1>4

\* Induction up to n, with a set in the place of a predicate.
LEMMA SetInduction ==
    ASSUME NEW n \in Nat, NEW T, 0 \in T, \A i \in 1..n : i - 1 \in T => i \in T
    PROVE  0..n \subseteq T
<1> DEFINE U == (0..n) \ T
<1> SUFFICES ASSUME U # {} PROVE FALSE
  OBVIOUS
<1>1. U \in SUBSET Nat
  OBVIOUS
<1> HIDE DEF U
<1>2. PICK i \in U : \A j \in U : i <= j
  BY <1>1, LeastNumber
<1>3. i \in 1..n /\ i - 1 \in 0..n
  BY <1>2 DEF U
<1>4. i - 1 \notin U
  BY <1>2, <1>3
<1> QED
  BY <1>2, <1>3, <1>4 DEF U

LEMMA AppendVals ==
    ASSUME NEW S, NEW s \in Seq(S), NEW e \in S
    PROVE  Append(s, e) \in Seq(S) /\ Vals(Append(s, e)) = Vals(s) \union {e}
<1>1. /\ Append(s, e) \in Seq(S)
      /\ DOMAIN Append(s, e) = 1..(Len(s) + 1) /\ DOMAIN s = 1..Len(s) /\ Len(s) \in Nat
      /\ \A i \in 1..Len(s) : Append(s, e)[i] = s[i]
      /\ Append(s, e)[Len(s) + 1] = e
  OBVIOUS
<1>2. Vals(s) \union {e} \subseteq Vals(Append(s, e))
  BY <1>1 DEF Vals
<1>3. \A i \in 1..(Len(s) + 1) : Append(s, e)[i] \in Vals(s) \union {e}
  <2> TAKE i \in 1..(Len(s) + 1)
  <2>1. i \in 1..Len(s) \/ i = Len(s) + 1
    BY <1>1
  <2> QED
    BY <1>1, <2>1 DEF Vals
<1>4. Vals(Append(s, e)) \subseteq Vals(s) \union {e}
  BY <1>1, <1>3 DEF Vals
<1> QED
  BY <1>1, <1>2, <1>4

\* The loop of ofFamily after i addresses is well defined.
Kept(l, F, n, g) ==
    g = [i \in 0..n |-> IF i = 0 THEN <<>>
                        ELSE IF l[i] \in F THEN Append(g[i - 1], l[i]) ELSE g[i - 1]]

LEMMA KeptExists ==
    ASSUME NEW l, NEW F, NEW n \in Nat
    PROVE  \E g : Kept(l, F, n, g)
<1> DEFINE T == {k \in Nat : ~\E g : Kept(l, F, k, g)}
<1> SUFFICES ASSUME T # {} PROVE FALSE
  OBVIOUS
<1>1. PICK k \in T : \A j \in T : k <= j
  BY LeastNumber, T \in SUBSET Nat
<1>2. k # 0
  <2>1. Kept(l, F, 0, [i \in 0..0 |-> <<>>])
    BY DEF Kept
  <2> QED
    BY <2>1
<1>3. k - 1 \in Nat /\ k - 1 \notin T
  BY <1>1, <1>2
<1>4. PICK g : Kept(l, F, k - 1, g)
  BY <1>3
<1> DEFINE last == IF l[k] \in F THEN Append(g[k - 1], l[k]) ELSE g[k - 1]
           h == [i \in 0..k |-> IF i = k THEN last ELSE g[i]]
<1>5. Kept(l, F, k, h)
  <2>1. \A i \in 0..(k - 1) : h[i] = g[i]
    BY <1>2, <1>3
  <2>2. \A i \in 0..k : h[i] = IF i = 0 THEN <<>>
                               ELSE IF l[i] \in F THEN Append(h[i - 1], l[i]) ELSE h[i - 1]
    <3> TAKE i \in 0..k
    <3>1. CASE i = k
      <4>1. h[k] = last /\ h[k - 1] = g[k - 1]
        BY <1>3, <2>1
      <4> QED
        BY <1>2, <3>1, <4>1
    <3>2. CASE i # k
      <4>1. i \in 0..(k - 1) /\ h[i] = g[i] /\ (i # 0 => i - 1 \in 0..(k - 1))
        BY <1>3, <2>1, <3>2
      <4>2. g[i] = IF i = 0 THEN <<>>
                   ELSE IF l[i] \in F THEN Append(g[i - 1], l[i]) ELSE g[i - 1]
        BY <1>4, <4>1 DEF Kept
      <4>3. i # 0 => h[i - 1] = g[i - 1]
        BY <2>1, <4>1
      <4> HIDE DEF h
      <4> QED
        BY <4>1, <4>2, <4>3
    <3> QED
      BY <3>1, <3>2
  <2>3. h = [i \in 0..k |-> h[i]]
    OBVIOUS
  <2> HIDE DEF h
  <2> QED
    BY <2>2, <2>3 DEF Kept
<1> QED
  BY <1>5

\* What ofFamily keeps: the addresses of the list that are in the family.
LEMMA OfFamily ==
    ASSUME NEW S, NEW F, NEW l \in Seq(S)
    PROVE  /\ ofFamily(l, F) \in Seq(S)
           /\ Vals(ofFamily(l, F)) = Vals(l) \intersect F
<1> DEFINE n == Len(l)
           f == CHOOSE g : Kept(l, F, n, g)
<1>1. n \in Nat /\ DOMAIN l = 1..n /\ \A i \in 1..n : l[i] \in S
  OBVIOUS
<1>2. Kept(l, F, n, f)
  BY <1>1, KeptExists
<1>3. ofFamily(l, F) = f[n]
  BY Zenon DEF ofFamily, Kept
<1> HIDE DEF f, n
<1> DEFINE P(i) == f[i] \in Seq(S) /\ Vals(f[i]) = {l[j] : j \in 1..i} \intersect F
<1>4. \A i \in 0..n : f[i] = IF i = 0 THEN <<>>
                             ELSE IF l[i] \in F THEN Append(f[i - 1], l[i]) ELSE f[i - 1]
  BY <1>2 DEF Kept
<1>5. P(0)
  <2>1. f[0] = <<>>
    BY <1>1, <1>4
  <2>2. <<>> \in Seq(S) /\ Vals(<<>>) = {}
    BY DEF Vals
  <2>3. {l[j] : j \in 1..0} = {}
    OBVIOUS
  <2> QED
    BY <2>1, <2>2, <2>3
<1>6. ASSUME NEW i \in 1..n, P(i - 1) PROVE P(i)
  <2>1. i \in 0..n /\ i # 0 /\ l[i] \in S
    BY <1>1
  <2>2. {l[j] : j \in 1..i} = {l[j] : j \in 1..(i - 1)} \union {l[i]}
    BY <1>1
  <2>3. CASE l[i] \in F
    <3>1. f[i] = Append(f[i - 1], l[i])
      BY <1>4, <2>1, <2>3
    <3>2. f[i] \in Seq(S) /\ Vals(f[i]) = Vals(f[i - 1]) \union {l[i]}
      BY <1>6, <2>1, <3>1, AppendVals
    <3> QED
      BY <1>6, <2>2, <2>3, <3>2
  <2>4. CASE l[i] \notin F
    <3>1. f[i] = f[i - 1]
      BY <1>4, <2>1, <2>4
    <3> QED
      BY <1>6, <2>2, <2>4, <3>1
  <2> QED
    BY <2>3, <2>4
<1>7. P(n)
  <2> DEFINE T == {i \in 0..n : P(i)}
  <2> HIDE DEF P
  <2>1. 0 \in T
    BY <1>1, <1>5
  <2>2. \A i \in 1..n : i - 1 \in T => i \in T
    BY <1>1, <1>6
  <2> HIDE DEF T
  <2>3. 0..n \subseteq T
    BY <1>1, <2>1, <2>2, SetInduction
  <2> QED
    BY <1>1, <2>3 DEF T
<1> QED
  BY <1>1, <1>3, <1>7 DEF Vals

\* Between them the two lists of splitDialFamilies (prober.go:424-455) hold
\* the addresses of the given one and nothing else.
LEMMA SplitKeepsAll ==
    ASSUME targets \in TargetLists
    PROVE  /\ \A w \in Workers : Addresses(w) \in Seq(Conns)
           /\ Vals(Addresses("primary")) \union Vals(Addresses("fallback")) = Vals(targets)
           /\ \A w \in Workers \ Started : Addresses(w) = <<>>
<1> DEFINE l == targets
           v4 == ofFamily(l, V4)
           v6 == ofFamily(l, V6)
<1>1. l \in Seq(Conns) /\ Vals(l) \subseteq V4 \union V6
  BY ListsAssumption DEF Conns, Vals
<1>2. /\ v4 \in Seq(Conns) /\ Vals(v4) = Vals(l) \intersect V4
      /\ v6 \in Seq(Conns) /\ Vals(v6) = Vals(l) \intersect V6
  BY <1>1, OfFamily
<1>3. <<>> \in Seq(Conns) /\ Vals(<<>>) = {}
  BY DEF Vals
<1> DEFINE s == splitDialFamilies(l)
<1>4. \/ s = [primary |-> l, fallback |-> <<>>]
      \/ s = [primary |-> v6, fallback |-> v4]
      \/ s = [primary |-> v4, fallback |-> v6]
  BY DEF splitDialFamilies
<1> HIDE DEF v4, v6, s
<1>5. /\ s["primary"] \in Seq(Conns) /\ s["fallback"] \in Seq(Conns)
      /\ Vals(s["primary"]) \union Vals(s["fallback"]) = Vals(l)
  <2>1. CASE s = [primary |-> l, fallback |-> <<>>]
    BY <1>1, <1>3, <2>1
  <2>2. CASE s = [primary |-> v6, fallback |-> v4]
    BY <1>1, <1>2, <2>2
  <2>3. CASE s = [primary |-> v4, fallback |-> v6]
    BY <1>1, <1>2, <2>3
  <2> QED
    BY <1>4, <2>1, <2>2, <2>3
<1>6. \A w \in Workers \ Started : w = "fallback" /\ Addresses("fallback") = <<>>
  BY DEF Started, Racing, Workers
<1> QED
  BY <1>5, <1>6 DEF Addresses, Workers, s

----------------------------------------------------------------------------
(* Why a failed dial is a complete one *)

Outcomes == Conns \union {None}

RaceType ==
    /\ targets \in TargetLists
    /\ dialPC \in {"resolve", "receive", "join", "connected", "returned"}
    /\ wpc \in [Workers -> {"off", "delay", "next", "dialing", "send", "gone"}]
    /\ widx \in [Workers -> Nat \ {0}]
    /\ wconn \in [Workers -> Outcomes]
    /\ results \in Seq(Outcomes) /\ failures \in Nat
    /\ \A w \in Workers : wpc[w] = "dialing" => widx[w] <= Len(Addresses(w))

\* Before the workers start.
Fresh ==
    /\ wpc = [w \in Workers |-> "off"] /\ widx = [w \in Workers |-> 1]
    /\ wconn = [w \in Workers |-> None]
    /\ results = <<>> /\ failures = 0 /\ dialOpen = {} /\ tried = {}

\* While no connection was taken: the open connections are the workers', ...
OwnOpen ==
    /\ dialDone = FALSE
    /\ dialOpen = {wconn[w] : w \in Workers} \ {None}
    /\ \A w \in Workers : wpc[w] # "off"
    /\ \A w \in Workers \ Started : wpc[w] = "gone" /\ wconn[w] = None
    /\ \A w \in Workers : wpc[w] \in {"delay", "next", "dialing"} => wconn[w] = None

\* ... a worker gives up after its last address or when the context ends, ...
GiveUpLate ==
    \A w \in Started : wpc[w] \in {"send", "gone"} /\ wconn[w] = None
                        => dialCtxDone \/ widx[w] > Len(Addresses(w))

\* ... and leaves an address behind only after dialling it.
TryInOrder ==
    /\ \A w \in Workers : \A i \in 1..Len(Addresses(w)) : i < widx[w] => Addresses(w)[i] \in tried
    /\ tried \subseteq Vals(targets)

Undecided == OwnOpen /\ GiveUpLate /\ TryInOrder

\* Workers that have sent their outcome; those that are not errors yet to be
\* received are still in the channel.
Sent == {w \in Started : wpc[w] = "gone"}

Counted ==
    /\ failures + Len(results) = Cardinality(Sent)
    /\ \A w \in Sent : wconn[w] # None => wconn[w] \in Vals(results)

AllFailed == Sent = Started /\ \A w \in Workers : wconn[w] = None

\* How a probe without a connection ended: at the lookup, or with every address
\* tried.
Failed ==
    \/ failures = 0 /\ wpc = [w \in Workers |-> "off"]
    \/ AllGone /\ dialOpen = {} /\ (dialCtxDone \/ tried = Vals(targets))

FailInv ==
    /\ RaceType
    /\ cleaner # "off" => winner # None /\ dialPC \in {"connected", "returned"}
    /\ dialPC = "resolve" => Fresh /\ dialDone = FALSE
    /\ dialPC \in {"receive", "join"} => Undecided
    /\ dialPC = "receive" => Counted
    /\ dialPC = "join" => AllFailed
    /\ dialPC \in {"connected", "returned"} => winner # None \/ (dialPC = "returned" /\ Failed)

LEMMA TailVals ==
    ASSUME NEW s \in Seq(Outcomes), s # <<>>, Head(s) = None
    PROVE  /\ Tail(s) \in Seq(Outcomes) /\ Len(s) = Len(Tail(s)) + 1 /\ Len(Tail(s)) \in Nat
           /\ \A v \in Vals(s) : v # None => v \in Vals(Tail(s))
           /\ Len(Tail(s)) = 0 => \A v \in Vals(s) : v = None
<1>1. /\ Tail(s) \in Seq(Outcomes) /\ Len(Tail(s)) \in Nat /\ Len(s) = Len(Tail(s)) + 1
      /\ DOMAIN s = 1..Len(s) /\ DOMAIN Tail(s) = 1..Len(Tail(s)) /\ s[1] = None
      /\ \A i \in 1..Len(Tail(s)) : Tail(s)[i] = s[i + 1]
  OBVIOUS
<1>2. ASSUME NEW v \in Vals(s), v # None PROVE v \in Vals(Tail(s))
  <2>1. PICK i \in 1..Len(s) : s[i] = v
    BY <1>1, <1>2 DEF Vals
  <2>2. i - 1 \in 1..Len(Tail(s)) /\ (i - 1) + 1 = i
    BY <1>1, <1>2, <2>1
  <2> QED
    BY <1>1, <2>1, <2>2 DEF Vals
<1>3. Len(Tail(s)) = 0 => Vals(Tail(s)) = {}
  <2>1. 1..0 = {}
    OBVIOUS
  <2>2. Len(Tail(s)) = 0 => DOMAIN Tail(s) = {}
    BY <1>1, <2>1
  <2> QED
    BY <2>2 DEF Vals
<1> QED
  BY <1>1, <1>2, <1>3

LEMMA StartedFinite == IsFiniteSet(Started) /\ IsFiniteSet(Sent) /\ Started \subseteq Workers
<1>1. IsFiniteSet({"primary"})
  BY FS_Singleton
<1>2. IsFiniteSet({"primary"} \union {"fallback"})
  BY <1>1, FS_AddElement
<1>3. {"primary"} \union {"fallback"} = Workers
  BY DEF Workers
<1>4. IsFiniteSet(Started) /\ Started \subseteq Workers
  BY <1>1, <1>2, <1>3 DEF Started
<1> QED
  BY <1>4, FS_Subset DEF Sent

\* A worker that does not end its work leaves the count alone.
LEMMA SameSent ==
    ASSUME FailInv, NEW w \in Workers, NEW loc, loc # "gone", wpc[w] # "gone",
           wpc' = [wpc EXCEPT ![w] = loc], targets' = targets
    PROVE  /\ Sent' = Sent /\ Started' = Started
           /\ \A v \in Workers : Addresses(v)' = Addresses(v)
BY DEF FailInv, RaceType, Sent, Started, Racing, Addresses, Workers

\* One that does adds its outcome to the channel.
LEMMA SendCounts ==
    ASSUME FailInv, dialPC = "receive", NEW w \in Workers, wpc[w] # "gone",
           wpc' = [wpc EXCEPT ![w] = "gone"], results' = Append(results, wconn[w]),
           UNCHANGED <<targets, failures, wconn>>
    PROVE  Counted'
<1>1. w \in Started /\ w \notin Sent
  BY DEF FailInv, Undecided, OwnOpen, Sent
<1>2. Started' = Started
  BY DEF Started, Racing, Addresses
<1>3. Sent' = Sent \union {w}
  BY <1>1, <1>2, StartedFinite DEF FailInv, RaceType, Sent
<1>4. Cardinality(Sent') = Cardinality(Sent) + 1
  BY <1>1, <1>3, StartedFinite, FS_AddElement
<1>5. /\ Len(results') = Len(results) + 1 /\ Len(results) \in Nat
      /\ Vals(results') = Vals(results) \union {wconn[w]}
  <2>1. results \in Seq(Outcomes) /\ wconn[w] \in Outcomes
    BY DEF FailInv, RaceType
  <2> QED
    BY <2>1, AppendVals
<1>6. Cardinality(Sent) \in Nat /\ failures \in Nat
  BY StartedFinite, FS_CardinalityType DEF FailInv, RaceType
<1>7. failures' + Len(results') = Cardinality(Sent')
  BY <1>4, <1>5, <1>6 DEF FailInv, Counted
<1>8. \A v \in Sent' : wconn'[v] # None => wconn'[v] \in Vals(results')
  BY <1>3, <1>5 DEF FailInv, Counted
<1> QED
  BY <1>7, <1>8 DEF Counted

\* Workers move only while the outcomes are being received, or after a
\* connection was taken.
LEMMA WorkerMoves ==
    ASSUME FailInv, NEW w \in Workers, wpc[w] \notin {"off", "gone"}
    PROVE  dialPC = "receive" \/ (dialPC \in {"connected", "returned"} /\ winner # None)
<1>1. dialPC # "resolve"
  BY DEF FailInv, Fresh
<1>2. dialPC # "join"
  BY DEF FailInv, AllFailed, Undecided, OwnOpen, Sent
<1>3. dialPC \in {"connected", "returned"} => winner # None
  BY DEF FailInv, Failed, AllGone
<1> QED
  BY <1>1, <1>2, <1>3 DEF FailInv, RaceType

\* What a worker's step has to establish.
LEMMA WorkerKeeps ==
    ASSUME FailInv, NEW w \in Workers, wpc[w] \notin {"off", "gone"},
           UNCHANGED <<dialPC, cleaner, winner>>,
           RaceType', dialPC = "receive" => Undecided' /\ Counted'
    PROVE  FailInv'
<1>1. dialPC = "receive" \/ (dialPC \in {"connected", "returned"} /\ winner # None)
  BY WorkerMoves
<1> QED
  BY <1>1 DEF FailInv

LEMMA QuietWorkerStep ==
    ASSUME FailInv, NEW w \in Workers, DelayOver(w) \/ DialStart(w) \/ DialExhausted(w)
    PROVE  FailInv'
<1> PICK loc \in {"next", "dialing", "send"} :
      /\ wpc' = [wpc EXCEPT ![w] = loc]
      /\ UNCHANGED <<targets, dialPC, failures, winner, cleaner, dialDone, dialCtxDone, widx,
                     wconn, results, dialOpen, tried>>
      /\ wpc[w] \in {"delay", "next"}
      /\ loc = "dialing" => widx[w] <= Len(Addresses(w))
      /\ loc = "send" => widx[w] > Len(Addresses(w))
  BY DEF DelayOver, DialStart, DialExhausted, Go
<1>1. /\ Sent' = Sent /\ Started' = Started
      /\ \A v \in Workers : Addresses(v)' = Addresses(v)
  BY SameSent
<1>2. RaceType'
  BY <1>1 DEF FailInv, RaceType
<1>3. ASSUME dialPC = "receive" PROVE Undecided'
  <2>1. wpc'[w] = loc /\ \A v \in Workers \ {w} : wpc'[v] = wpc[v]
    BY DEF FailInv, RaceType
  <2>2. w \in Started /\ wconn[w] = None
    BY <1>3 DEF FailInv, Undecided, OwnOpen
  <2>3. OwnOpen'
    BY <1>1, <1>3, <2>1, <2>2 DEF FailInv, Undecided, OwnOpen
  <2>4. GiveUpLate'
    BY <1>1, <1>3, <2>1, <2>2, StartedFinite DEF FailInv, Undecided, GiveUpLate
  <2>5. TryInOrder'
    BY <1>1, <1>3 DEF FailInv, Undecided, TryInOrder
  <2> QED
    BY <2>3, <2>4, <2>5 DEF Undecided
<1>4. dialPC = "receive" => Counted'
  BY <1>1 DEF FailInv, Counted
<1> QED
  BY <1>2, <1>3, <1>4, WorkerKeeps

LEMMA SendStep ==
    ASSUME FailInv, NEW w \in Workers, DelayCancelled(w) \/ SendOutcome(w)
    PROVE  FailInv'
<1>1. /\ wpc[w] \in {"delay", "send"} /\ wpc' = [wpc EXCEPT ![w] = "gone"]
      /\ UNCHANGED <<targets, dialPC, failures, winner, cleaner, dialDone, dialCtxDone, widx,
                     wconn, dialOpen, tried>>
      /\ wpc[w] = "delay" => DialCtxDone
  BY DEF DelayCancelled, SendOutcome, Go
<1>2. results' = Append(results, None) \/ results' = Append(results, wconn[w])
  BY DEF DelayCancelled, SendOutcome
<1>3. /\ Started' = Started
      /\ \A v \in Workers : Addresses(v)' = Addresses(v)
  BY <1>1 DEF Started, Racing, Addresses
<1>4. RaceType'
  <2>1. results' \in Seq(Outcomes)
    <3>1. results \in Seq(Outcomes) /\ wconn[w] \in Outcomes /\ None \in Outcomes
      BY DEF FailInv, RaceType, Outcomes
    <3> QED
      BY <1>2, <3>1
  <2> QED
    BY <1>1, <1>3, <2>1 DEF FailInv, RaceType
<1>5. ASSUME dialPC = "receive" PROVE Undecided'
  <2>1. wpc[w] = "delay" => dialCtxDone
    BY <1>1, <1>5 DEF FailInv, Undecided, OwnOpen, DialCtxDone
  <2>2. wpc'[w] = "gone" /\ \A v \in Workers \ {w} : wpc'[v] = wpc[v]
    BY <1>1 DEF FailInv, RaceType
  <2>3. OwnOpen'
    BY <1>1, <1>3, <1>5, <2>2 DEF FailInv, Undecided, OwnOpen
  <2>4. GiveUpLate'
    BY <1>1, <1>3, <1>5, <2>1, <2>2, StartedFinite DEF FailInv, Undecided, GiveUpLate
  <2>5. TryInOrder'
    BY <1>1, <1>3, <1>5 DEF FailInv, Undecided, TryInOrder
  <2> QED
    BY <2>3, <2>4, <2>5 DEF Undecided
<1>6. ASSUME dialPC = "receive" PROVE Counted'
  <2>1. results' = Append(results, wconn[w])
    BY <1>6 DEF DelayCancelled, SendOutcome, FailInv, Undecided, OwnOpen
  <2> QED
    BY <1>1, <1>6, <2>1, SendCounts
<1> QED
  BY <1>1, <1>4, <1>5, <1>6, WorkerKeeps

LEMMA ErrorStep ==
    ASSUME FailInv, NEW w \in Workers, DialError(w)
    PROVE  FailInv'
<1> DEFINE a == Addresses(w)[widx[w]]
<1>1. /\ wpc[w] = "dialing" /\ wpc' = [wpc EXCEPT ![w] = "next"]
      /\ widx' = [widx EXCEPT ![w] = @ + 1] /\ tried' = tried \union {a}
      /\ UNCHANGED <<targets, dialPC, failures, winner, cleaner, dialDone, dialCtxDone, wconn,
                     results, dialOpen>>
  BY DEF DialError, Go
<1>2. /\ Sent' = Sent /\ Started' = Started
      /\ \A v \in Workers : Addresses(v)' = Addresses(v)
  BY <1>1, SameSent
<1>3. /\ targets \in TargetLists /\ widx[w] \in Nat \ {0} /\ widx[w] <= Len(Addresses(w))
      /\ widx'[w] = widx[w] + 1 /\ \A v \in Workers \ {w} : widx'[v] = widx[v]
  BY <1>1 DEF FailInv, RaceType
<1>4. a \in Vals(targets)
  <2>1. Addresses(w) \in Seq(Conns) /\ Vals(Addresses(w)) \subseteq Vals(targets)
    BY <1>3, SplitKeepsAll DEF Workers
  <2>2. widx[w] \in DOMAIN Addresses(w)
    BY <1>3, <2>1
  <2> QED
    BY <2>1, <2>2 DEF Vals
<1> HIDE DEF a
<1>5. RaceType'
  BY <1>1, <1>2, <1>3 DEF FailInv, RaceType
<1>6. ASSUME dialPC = "receive" PROVE Undecided'
  <2>1. \A v \in Workers : \A i \in 1..Len(Addresses(v)) :
          i < widx'[v] => Addresses(v)[i] \in tried \union {a}
    <3> TAKE v \in Workers
    <3> TAKE i \in 1..Len(Addresses(v))
    <3>1. i < widx[v] => Addresses(v)[i] \in tried
      BY <1>6 DEF FailInv, Undecided, TryInOrder
    <3>2. CASE v = w
      <4>1. i < widx[w] + 1 => i < widx[w] \/ i = widx[w]
        BY <1>3
      <4> QED
        BY <1>3, <3>1, <3>2, <4>1 DEF a
    <3>3. CASE v # w
      BY <1>3, <3>1, <3>3
    <3> QED
      BY <3>2, <3>3
  <2>2. TryInOrder'
    BY <1>1, <1>2, <1>4, <1>6, <2>1 DEF FailInv, Undecided, TryInOrder
  <2>3. /\ wpc'[w] = "next" /\ \A v \in Workers \ {w} : wpc'[v] = wpc[v]
        /\ w \in Started /\ wconn[w] = None
    BY <1>1, <1>6 DEF FailInv, RaceType, Undecided, OwnOpen
  <2>4. OwnOpen'
    BY <1>1, <1>2, <1>6, <2>3 DEF FailInv, Undecided, OwnOpen
  <2>5. GiveUpLate'
    BY <1>1, <1>2, <1>3, <1>6, <2>3, StartedFinite DEF FailInv, Undecided, GiveUpLate
  <2> QED
    BY <2>2, <2>4, <2>5 DEF Undecided
<1>7. dialPC = "receive" => Counted'
  BY <1>1, <1>2 DEF FailInv, Counted
<1> QED
  BY <1>1, <1>5, <1>6, <1>7, WorkerKeeps

LEMMA ConnectStep ==
    ASSUME FailInv, NEW w \in Workers, DialConnects(w)
    PROVE  FailInv'
<1> DEFINE a == Addresses(w)[widx[w]]
<1>1. /\ wpc[w] = "dialing" /\ wpc' = [wpc EXCEPT ![w] = "send"]
      /\ wconn' = [wconn EXCEPT ![w] = a]
      /\ tried' = tried \union {a} /\ dialOpen' = dialOpen \union {a}
      /\ UNCHANGED <<targets, dialPC, failures, winner, cleaner, dialDone, dialCtxDone, widx,
                     results>>
  BY DEF DialConnects, Go
<1>2. /\ Sent' = Sent /\ Started' = Started
      /\ \A v \in Workers : Addresses(v)' = Addresses(v)
  BY <1>1, SameSent
<1>3. a \in Vals(targets) /\ a \in Conns
  <2>1. targets \in TargetLists /\ widx[w] \in Nat \ {0} /\ widx[w] <= Len(Addresses(w))
    BY <1>1 DEF FailInv, RaceType
  <2>2. Addresses(w) \in Seq(Conns) /\ Vals(Addresses(w)) \subseteq Vals(targets)
    BY <2>1, SplitKeepsAll DEF Workers
  <2>3. widx[w] \in DOMAIN Addresses(w) /\ a \in Conns
    BY <2>1, <2>2
  <2>4. a \in Vals(Addresses(w))
    BY <2>3 DEF Vals
  <2> QED
    BY <2>2, <2>3, <2>4
<1> HIDE DEF a
<1>4. a # None
  BY <1>3, FamiliesAssumption DEF Conns
<1>5. RaceType'
  BY <1>1, <1>2, <1>3 DEF FailInv, RaceType, Outcomes
<1>6. ASSUME dialPC = "receive" PROVE Undecided'
  <2>1. /\ wconn[w] = None /\ wconn'[w] = a
        /\ \A v \in Workers \ {w} : wconn'[v] = wconn[v]
    BY <1>1, <1>6 DEF FailInv, RaceType, Undecided, OwnOpen
  <2>2. {wconn'[v] : v \in Workers} \ {None} = ({wconn[v] : v \in Workers} \ {None}) \union {a}
    BY <1>4, <2>1
  <2>3. dialOpen' = {wconn'[v] : v \in Workers} \ {None}
    BY <1>1, <1>6, <2>2 DEF FailInv, Undecided, OwnOpen
  <2>4. /\ wpc'[w] = "send" /\ \A v \in Workers \ {w} : wpc'[v] = wpc[v]
        /\ w \in Started
    BY <1>1, <1>6 DEF FailInv, RaceType, Undecided, OwnOpen
  <2>5. OwnOpen'
    BY <1>1, <1>2, <1>6, <2>1, <2>3, <2>4 DEF FailInv, Undecided, OwnOpen
  <2>6. GiveUpLate'
    BY <1>1, <1>2, <1>4, <1>6, <2>1, <2>4, StartedFinite DEF FailInv, Undecided, GiveUpLate
  <2>7. TryInOrder'
    BY <1>1, <1>2, <1>3, <1>6 DEF FailInv, Undecided, TryInOrder
  <2> QED
    BY <2>5, <2>6, <2>7 DEF Undecided
<1>7. ASSUME dialPC = "receive" PROVE Counted'
  <2>1. \A v \in Sent : v # w
    BY <1>1 DEF Sent
  <2>2. \A v \in Sent : wconn'[v] = wconn[v]
    BY <1>1, <2>1, StartedFinite DEF FailInv, RaceType, Sent
  <2> QED
    BY <1>1, <1>2, <1>7, <2>2 DEF FailInv, Counted
<1> QED
  BY <1>1, <1>5, <1>6, <1>7, WorkerKeeps

\* When every worker has failed, nothing is open and every address was tried.
LEMMA AllTried ==
    ASSUME RaceType, Undecided, AllFailed
    PROVE  AllGone /\ dialOpen = {} /\ (dialCtxDone \/ tried = Vals(targets))
<1>1. AllGone
  BY DEF AllGone, AllFailed, Undecided, OwnOpen, Sent
<1>2. dialOpen = {}
  BY DEF AllFailed, Undecided, OwnOpen
<1>3. ASSUME ~dialCtxDone PROVE Vals(targets) \subseteq tried
  <2>1. /\ \A w \in Workers : Addresses(w) \in Seq(Conns)
        /\ Vals(Addresses("primary")) \union Vals(Addresses("fallback")) = Vals(targets)
        /\ \A w \in Workers \ Started : Addresses(w) = <<>>
    BY SplitKeepsAll DEF RaceType
  <2>2. ASSUME NEW w \in Workers, NEW i \in DOMAIN Addresses(w)
        PROVE  Addresses(w)[i] \in tried
    <3>1. i \in 1..Len(Addresses(w)) /\ Len(Addresses(w)) \in Nat
      BY <2>1
    <3>2. Addresses(w) # <<>>
      BY <2>1, <3>1
    <3>3. w \in Started
      BY <2>1, <3>2
    <3>4. widx[w] > Len(Addresses(w))
      BY <1>1, <1>3, <3>3 DEF AllGone, AllFailed, Undecided, GiveUpLate
    <3>5. i < widx[w]
      BY <3>1, <3>4 DEF RaceType
    <3> QED
      BY <3>1, <3>5 DEF Undecided, TryInOrder
  <2>3. Vals(Addresses("primary")) \subseteq tried /\ Vals(Addresses("fallback")) \subseteq tried
    BY <2>2 DEF Vals, Workers
  <2> QED
    BY <2>1, <2>3
<1> QED
  BY <1>1, <1>2, <1>3 DEF Undecided, TryInOrder

LEMMA StartStep ==
    ASSUME FailInv, StartWorkers
    PROVE  FailInv'
<1>1. /\ dialPC' = "receive" /\ Fresh /\ dialDone = FALSE
      /\ wpc' = [w \in Workers |-> IF w \notin Started THEN "gone"
                                   ELSE IF w = "fallback" THEN "delay" ELSE "next"]
      /\ UNCHANGED <<targets, widx, wconn, results, failures, winner, cleaner, dialDone,
                     dialCtxDone, dialOpen, tried>>
  BY DEF StartWorkers, FailInv
<1>2. /\ Started' = Started
      /\ \A v \in Workers : Addresses(v)' = Addresses(v)
  BY <1>1 DEF Started, Racing, Addresses
<1>3. RaceType'
  BY <1>1, <1>2 DEF FailInv, RaceType
<1>4. OwnOpen'
  BY <1>1, <1>2 DEF Fresh, OwnOpen
<1>5. GiveUpLate'
  BY <1>1, <1>2, StartedFinite DEF GiveUpLate
<1>6. TryInOrder'
  <2>1. \A w \in Workers : \A i \in 1..Len(Addresses(w)) : ~(i < widx[w])
    BY <1>1 DEF Fresh
  <2> QED
    BY <1>1, <1>2, <2>1 DEF Fresh, TryInOrder
<1>7. Counted'
  <2>1. Sent' = {}
    BY <1>1, <1>2, StartedFinite DEF Sent
  <2>2. Cardinality(Sent') = 0
    BY <2>1, FS_EmptySet
  <2> QED
    BY <1>1, <2>1, <2>2 DEF Fresh, Counted
<1>8. cleaner' # "off" => winner' # None /\ dialPC' \in {"connected", "returned"}
  BY <1>1 DEF FailInv, StartWorkers
<1> QED
  BY <1>1, <1>3, <1>4, <1>5, <1>6, <1>7, <1>8 DEF FailInv, Undecided

\* Steps that leave the workers alone.
LEMMA QuietStep ==
    ASSUME UNCHANGED <<targets, wpc, widx, wconn, dialDone, dialOpen, tried>>,
           dialCtxDone => dialCtxDone', Undecided
    PROVE  Undecided'
<1>1. /\ Started' = Started
      /\ \A v \in Workers : Addresses(v)' = Addresses(v)
  BY DEF Started, Racing, Addresses
<1>2. OwnOpen'
  BY <1>1 DEF Undecided, OwnOpen
<1>3. GiveUpLate'
  BY <1>1, StartedFinite DEF Undecided, GiveUpLate
<1>4. TryInOrder'
  BY <1>1 DEF Undecided, TryInOrder
<1> QED
  BY <1>2, <1>3, <1>4 DEF Undecided

\* The last error comes when no outcome is left to receive.
LEMMA ErrorReceived ==
    ASSUME FailInv, ReceiveError
    PROVE  FailInv'
<1>1. /\ dialPC = "receive" /\ results # <<>> /\ Head(results) = None
      /\ results' = Tail(results) /\ failures' = failures + 1
      /\ dialPC' = IF failures' = Cardinality(Started) THEN "join" ELSE "receive"
      /\ UNCHANGED <<targets, wpc, widx, wconn, winner, cleaner, dialDone, dialCtxDone, dialOpen,
                     tried>>
  BY DEF ReceiveError, workerVars
<1>2. RaceType /\ Undecided /\ Counted /\ cleaner = "off"
  BY <1>1 DEF FailInv
<1>3. /\ Started' = Started /\ Sent' = Sent
      /\ \A v \in Workers : Addresses(v)' = Addresses(v)
  BY <1>1 DEF Started, Racing, Addresses, Sent
<1>4. /\ Tail(results) \in Seq(Outcomes)
      /\ Len(results) = Len(Tail(results)) + 1 /\ Len(Tail(results)) \in Nat
      /\ \A v \in Vals(results) : v # None => v \in Vals(Tail(results))
      /\ Len(Tail(results)) = 0 => \A v \in Vals(results) : v = None
  BY <1>1, <1>2, TailVals DEF RaceType
<1>5. failures \in Nat
  BY <1>2 DEF RaceType
<1>6. RaceType'
  BY <1>1, <1>2, <1>3, <1>4 DEF RaceType
<1>7. Undecided'
  BY <1>1, <1>2, QuietStep
<1>8. Counted'
  BY <1>1, <1>2, <1>3, <1>4, <1>5 DEF Counted
<1>9. ASSUME failures' = Cardinality(Started) PROVE AllFailed'
  <2>1. /\ Cardinality(Sent) <= Cardinality(Started)
        /\ Cardinality(Sent) = Cardinality(Started) => Sent = Started
    BY StartedFinite, FS_Subset DEF Sent
  <2>2. Cardinality(Sent) \in Nat /\ Cardinality(Started) \in Nat
    BY StartedFinite, FS_CardinalityType
  <2>3. Len(Tail(results)) = 0 /\ Cardinality(Sent) = Cardinality(Started)
    BY <1>1, <1>2, <1>4, <1>5, <1>9, <2>1, <2>2 DEF Counted
  <2>4. \A w \in Started : wconn[w] = None
    BY <1>2, <1>4, <2>1, <2>3 DEF Counted
  <2>5. \A w \in Workers : wconn[w] = None
    BY <1>2, <2>4 DEF Undecided, OwnOpen
  <2> QED
    BY <1>1, <1>3, <2>1, <2>3, <2>5 DEF AllFailed
<1> QED
  BY <1>1, <1>2, <1>6, <1>7, <1>8, <1>9 DEF FailInv

\* A dial fails only when it had to (dialTCPHappyEyeballs and
\* dialTCPAddresses, prober.go:341-420): when an error is returned, the
\* context had ended or every address of both families was tried, and no
\* connection was opened and dropped.
THEOREM DialFailureIsComplete == DialSpec => []FailureIsComplete
<1>1. DialInit => FailInv
  BY DEF DialInit, FailInv, RaceType, Fresh, Workers, Outcomes
<1>2. ASSUME FailInv, [DialNext]_dialVars PROVE FailInv'
  <2> USE <1>2
  <2>1. CASE ResolveFails
    <3>1. /\ dialPC = "resolve" /\ dialPC' = "returned"
          /\ UNCHANGED <<targets, wpc, widx, wconn, results, failures, winner, cleaner>>
      BY <2>1 DEF ResolveFails, workerVars
    <3>2. \A v \in Workers : Addresses(v)' = Addresses(v)
      BY <3>1 DEF Addresses
    <3>3. RaceType'
      BY <3>1, <3>2 DEF FailInv, RaceType
    <3>4. Failed'
      BY <3>1 DEF FailInv, Fresh, Failed
    <3> QED
      BY <3>1, <3>3, <3>4 DEF FailInv
  <2>2. CASE StartWorkers
    BY <2>2, StartStep
  <2>3. CASE ReceiveError
    BY <2>3, ErrorReceived
  <2>4. CASE ReceiveConn
    <3>1. /\ dialPC' = "connected" /\ winner' # None /\ results' = Tail(results) /\ results # <<>>
          /\ UNCHANGED <<targets, wpc, widx, wconn, failures>>
      BY <2>4 DEF ReceiveConn, workerVars
    <3>2. \A v \in Workers : Addresses(v)' = Addresses(v)
      BY <3>1 DEF Addresses
    <3>3. RaceType'
      BY <3>1, <3>2 DEF FailInv, RaceType
    <3> QED
      BY <3>1, <3>3 DEF FailInv
  <2>5. CASE Join
    <3>1. /\ dialPC = "join" /\ dialPC' = "returned"
          /\ UNCHANGED <<targets, wpc, widx, wconn, results, failures, winner, cleaner,
                         dialCtxDone, dialOpen, tried>>
      BY <2>5 DEF Join, workerVars
    <3>2. \A v \in Workers : Addresses(v)' = Addresses(v)
      BY <3>1 DEF Addresses
    <3>3. RaceType'
      BY <3>1, <3>2 DEF FailInv, RaceType
    <3>4. Failed'
      BY <3>1, AllTried DEF FailInv, Failed, AllGone
    <3> QED
      BY <3>1, <3>3, <3>4 DEF FailInv
  <2>6. CASE CloseConn \/ CloseLosers
    <3>1. /\ dialPC' \in {"connected", "returned"} /\ winner # None
          /\ results' = results \/ results' = <<>>
          /\ UNCHANGED <<targets, wpc, widx, wconn, failures, winner>>
      BY <2>6 DEF CloseConn, CloseLosers, workerVars, FailInv
    <3>2. \A v \in Workers : Addresses(v)' = Addresses(v)
      BY <3>1 DEF Addresses
    <3>3. <<>> \in Seq(Outcomes) /\ results \in Seq(Outcomes)
      BY DEF FailInv, RaceType
    <3>4. results' \in Seq(Outcomes)
      BY <3>1, <3>3
    <3>5. RaceType'
      BY <3>1, <3>2, <3>4 DEF FailInv, RaceType
    <3> QED
      BY <3>1, <3>5 DEF FailInv
  <2>7. CASE DialExpires \/ UNCHANGED dialVars
    <3>1. /\ UNCHANGED <<targets, dialPC, wpc, widx, wconn, results, failures, winner, cleaner,
                         dialDone, dialOpen, tried>>
          /\ dialCtxDone' = dialCtxDone \/ (dialPC # "returned" /\ dialCtxDone' = TRUE)
      BY <2>7, Zenon DEF DialExpires, dialVars, workerVars
    <3>2. /\ Started' = Started /\ Sent' = Sent
          /\ \A v \in Workers : Addresses(v)' = Addresses(v)
      BY <3>1 DEF Started, Racing, Addresses, Sent
    <3>3. RaceType'
      BY <3>1, <3>2 DEF FailInv, RaceType
    <3>4. Fresh => Fresh'
      BY <3>1 DEF Fresh
    <3>5. Undecided => Undecided'
      BY <3>1, QuietStep
    <3>6. (Counted => Counted') /\ (AllFailed => AllFailed')
      BY <3>1, <3>2 DEF Counted, AllFailed
    <3>7. dialPC = "returned" /\ Failed => Failed'
      BY <3>1 DEF Failed, AllGone
    <3> QED
      BY <3>1, <3>3, <3>4, <3>5, <3>6, <3>7 DEF FailInv
  <2>8. CASE \E w \in Workers : Worker(w) \/ DialConnects(w) \/ DialRefused(w)
    BY <2>8, QuietWorkerStep, SendStep, ErrorStep, ConnectStep
       DEF Worker, DialRefused, DialCancelled
  <2> QED
    BY <2>1, <2>2, <2>3, <2>4, <2>5, <2>6, <2>7, <2>8 DEF DialNext, Main, Returned
<1>3. FailInv => FailureIsComplete
  <2> SUFFICES ASSUME FailInv, dialPC \in {"join", "returned"}, failures > 0, winner = None
               PROVE  dialOpen = {} /\ (dialCtxDone \/ tried = Vals(targets))
    BY DEF FailureIsComplete, Vals
  <2>1. CASE dialPC = "join"
    BY <2>1, AllTried DEF FailInv
  <2>2. CASE dialPC = "returned"
    BY <2>2 DEF FailInv, Failed
  <2> QED
    BY <2>1, <2>2
<1> QED
  BY <1>1, <1>2, <1>3, PTL DEF DialSpec
=============================================================================
