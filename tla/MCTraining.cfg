SPECIFICATION FairSpec
CONSTANTS
    Examples = 5
    BatchSize = 2
    Epochs = 2
    CheckpointEvery = 4
    ValidationEvery = 5
    Patience = 1
    MinDelta = 2
    Keeps = {1, 2}
    Limits = {0, 2}
    Named = {2, 4}
    Configs = {"a"}
    Reports <- MCReports
    MaxLaunches = 3
CHECK_DEADLOCK FALSE
INVARIANTS RunReproducible BestIsChosenInOrder ManifestTruthful LatestResumable
PROPERTIES Ends
