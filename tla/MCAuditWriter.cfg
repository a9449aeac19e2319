SPECIFICATION AuditFairSpec
CONSTANTS
    Unset = Unset
    Writer = {w1, w2}
    Bootstrap = TRUE
    MaxHashed = 3
    MaxFaults = 2
CHECK_DEADLOCK FALSE
INVARIANTS ChainAnchored QuiescentAnchored
PROPERTIES Settles
