CONSTANTS
    KeyBlock = 30
    MaxLength = 16
    MaxWidth = 3
    Pieces <- MCPieces
    ModelLabel <- MCModelLabel
    Templates = 4
    LeastCount = 16
    o1 = o1
    Outputs = {o1}
    Inputs <- MCInputs
    Legacy <- MCLegacy
    New <- MCNew
    Dev <- MCDev
    Judged <- MCJudged
    Thresholds = {50, 65, 80}
    Draws <- MCDraws
    Around <- MCAround
    Counted = {3, 16, 32}
    F1Scores <- MCScores
    Incumbent <- MCIncumbent
    MaxWidthGiven = 2
    MaxData = 2
    MaxWeights = 2
    MaxReports = 2
SPECIFICATION AdoptionSpec
CHECK_DEADLOCK FALSE
INVARIANTS AdoptedUnseen AdoptionEarned DataSound MetricsAgree SynthesisSound
