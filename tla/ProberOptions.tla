--------------------------- MODULE ProberOptions ---------------------------
(***************************************************************************)
(* What the probers are given: the options of a target as validation       *)
(* leaves them (module Config), and the part of the network their models   *)
(* choose from.                                                            *)
(***************************************************************************)
EXTENDS Integers, Sequences

CONSTANTS
    \* ICMP
    PingCount,       \* ping_count, after its default
    PingInterval,    \* ping_interval in ticks
    Timeout,         \* the probe's deadline in ticks
    \* MTU
    Sizes,           \* icmp_payload_sizes, descending
    MTURetries,      \* mtu_retries
    ExpectedMinMTU,  \* expected_min_mtu, 0 when unset
    Limits,          \* payload limits a path or an interface can have
    \* Dial
    V4, V6,          \* addresses of the two families
    TargetLists,     \* lists of addresses a lookup, or a literal, can give
    \* ProxyPath
    Kinds,           \* the probers that may run
    ContentTypes,    \* how the headers option names Content-Type
    proxyRedirectLimit,
    None

ASSUME PingAssumption ==
    /\ PingCount \in Nat \ {0} /\ PingInterval \in Nat \ {0} /\ Timeout \in Nat \ {0}
    /\ None \notin Nat

\* config.validateICMPPayloadSizes
ASSUME SizesAssumption ==
    /\ Sizes \in Seq(Nat \ {0}) /\ Len(Sizes) > 0
    /\ \A i, j \in 1..Len(Sizes) : i < j => Sizes[i] > Sizes[j]
ASSUME MTUAssumption ==
    /\ MTURetries \in Int /\ ExpectedMinMTU \in Nat /\ Limits \subseteq Nat

ASSUME FamiliesAssumption == V4 \intersect V6 = {} /\ None \notin V4 \union V6
ASSUME ListsAssumption == \A l \in TargetLists : l \in Seq(V4 \union V6) /\ Len(l) > 0

ASSUME ProxyAssumption ==
    /\ Kinds \subseteq {"http", "http_body", "tls_cert", "proxy_connect"}
    /\ ContentTypes \subseteq {"none", "canonical", "other"}
    /\ proxyRedirectLimit \in Nat \ {0}
    /\ None \notin {200, 403}
=============================================================================
