\* Both probers, two hops, bodies around a limit of one byte.
CONSTANTS
    RedirectLimit = 2
    BodyLimit = 1
    BodyLengths = {0, 1, 2}
SPECIFICATION Spec
INVARIANT LastHopOnly
