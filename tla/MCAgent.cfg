\* Reload, server failure and shutdown with and without --listen-addr.
CONSTANTS
    Files <- MCFiles
    Invalid = Invalid
    ListenFlags = {"none", ":9999"}
    NoFlag = "none"
    MaxScrapes = 1
    Unset = Unset
SPECIFICATION FairSpec
INVARIANTS Coherent CleanExit
PROPERTIES HupNotLost ServerErrorExits
