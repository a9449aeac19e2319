CONSTANTS
    r1 = r1  r2 = r2  r3 = r3  r4 = r4
    Requests = {r1, r2, r3, r4}
    MaxConcurrency = 2
    BodyLimit = 3
    Chunks = {2}
    Heads <- MCHeads
    KeyBlock = 30
    MaxLength = 16
    MaxWidth = 2
    Pieces <- MCPieces
    Backend = "berturk"
    NerThreshold = 55
    NerThresholds <- MCNerThresholds
    LabelToType <- MCLabelToType
    OnnxScale = 80
    MaxEntities = 3
    Payloads <- MCPayloads
    Plain <- MCPlain
    Probe = r1
    MaxItems = 2
    MaxText = 60
    MaxTotal = 80
SPECIFICATION FairSpec
CHECK_DEADLOCK FALSE
INVARIANTS SlotsSound OnlyAdmitted RecognizersExact SureSpansCovered RoundTrip
PROPERTIES QueuedAnswered
