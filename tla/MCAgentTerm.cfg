\* A SIGTERM that finds sigCh full.
CONSTANTS
    Files <- MCFewFiles
    Invalid = Invalid
    ListenFlags = {"none"}
    NoFlag = "none"
    MaxScrapes = 1
    Unset = Unset
SPECIFICATION FairSpec
PROPERTY TermShutsDown
