\* One name in three variants: what a reload restarts and leaves, and that
\* every call returns.  No symmetry, because of the liveness properties.
CONSTANTS
    g1 = g1
    g2 = g2
    g3 = g3
    Gids = {g1, g2}
    Targets <- MCVariants
    InitialProbeJitter = 1
    None = None
SPECIFICATION FairSpec
INVARIANT RunsConfig
PROPERTIES UnchangedUndisturbed CallsReturn EveryTargetReported
