SPECIFICATION FairUnmaskerSpec
CONSTANTS
    Cases <- MCUniform
    SuffixHex = 2
    Limit = 2
CHECK_DEADLOCK FALSE
INVARIANTS SlicedAlike LimitExact
PROPERTIES Terminates
