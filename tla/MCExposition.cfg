\* All probe types, two pairs of targets, calls and scrapes interleaved.
CONSTANTS
    Targets <- MCTargets
    Results <- MCResults
    TagKeySets <- MCKeys
    ReservedLabels = {"__name__"}
    Together <- MCTogether
    MaxActive = 2
    MaxOverlap = 1
    MaxRecording = 2
    None = None
SPECIFICATION StepSpec
INVARIANTS ExactWhenDone NoMixedFamily NoGap
PROPERTY ImplementsMetrics
