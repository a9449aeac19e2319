SPECIFICATION Spec
CONSTANTS
    None = None
    Process = {g1, g2}
    Call = {c1, c2}
    Scope = {s1}
    Datum = {ali, veli}
    Family = {kisi}
    FamiliesOf <- MCFamiliesOf
    Ttl = 1
    KeyTtl = 1
    MaxCached = 1
    MaxIndex = 2
    MaxKeys = 2
    MaxTime = 1
SYMMETRY Alike
INVARIANTS RecordsReadable InternExact
PROPERTIES NeverReissued
