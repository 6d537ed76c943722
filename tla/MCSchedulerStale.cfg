\* Series written after a reload has deleted them.
CONSTANTS
    g1 = g1
    g2 = g2
    g3 = g3
    Gids = {g1, g2, g3}
    Targets <- MCTwoNames
    InitialProbeJitter = 1
    None = None
SPECIFICATION Spec
INVARIANT NoStaleSeries
