\* Two names, one relabelled, three goroutine identities.
CONSTANTS
    g1 = g1
    g2 = g2
    g3 = g3
    Gids = {g1, g2, g3}
    Targets <- MCTwoNames
    InitialProbeJitter = 1
    None = None
SPECIFICATION Spec
SYMMETRY GidSymmetry
INVARIANTS OneLoopPerTarget SeriesMatchRunning
PROPERTIES QuiescentWrites ImplementsTargetSet
