\* MTU: three sizes, the default number of attempts, an expected minimum between
\* the sizes.  ICMP: four echoes; the deadline allows for a fifth interval but not
\* for delays.  Dial: one family, and two in either order.  ProxyPath: all four
\* probers, every way to configure a Content-Type, three hops.
CONSTANTS
    Sizes <- MCSizes
    MTURetries = 0
    ExpectedMinMTU = 1420
    Limits <- MCLimits
    PingCount = 4
    PingInterval = 2
    Timeout = 9
    a1 = a1
    a2 = a2
    b1 = b1
    b2 = b2
    V4 <- MCV4
    V6 <- MCV6
    TargetLists <- MCTargetLists
    Kinds = {"http", "http_body", "tls_cert", "proxy_connect"}
    ContentTypes = {"none", "canonical", "other"}
    proxyRedirectLimit = 3
    None = None
SPECIFICATION FairSpec
INVARIANTS
    NeverOverestimates TimeoutsAreComplete DetailIsTrue
    LossOfSent WithinTimeout
    WinnerStaysOpen FailureIsComplete
    ConnectionsClosed RedirectedRequestClean HopsNotMixed
PROPERTIES MTUTerminates ICMPTerminates DialSettles ProxyTerminates
