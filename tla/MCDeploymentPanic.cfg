\* An accepted file that the agent does not survive.
CONSTANTS
    Nil = Nil
    WellFormed = {"p1", "p2", "p3", "p4", "env", "a", "b", "phase", "state", "target",
                  "__x", "/health%7A", "/metrics", "/healthz", "/readyz"}
    MaxTagsPerTarget = 2
    MaxGlobalTagKeys = 2
    MaxProxies = 2
    MaxHTTPRequestBodyBytes = 2
    Files <- MCFiles
    Hosts <- MCHosts
    Answers <- MCAnswers
    ReservedLabels = {"__x"}
    Unescape <- MCUnescape
SPECIFICATION Spec
INVARIANT StartupSafe
