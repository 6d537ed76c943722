\* A reload of the startup file by an agent with --listen-addr.
CONSTANTS
    Files <- MCFiles
    Invalid = Invalid
    ListenFlags = {"none", ":9999"}
    NoFlag = "none"
    MaxScrapes = 1
    Unset = Unset
SPECIFICATION Spec
INVARIANT RejectedOnlyIfChanged
