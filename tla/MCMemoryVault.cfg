SPECIFICATION Spec
CONSTANTS
    None = None
    kisi = kisi
    Scope = {s1, s2}
    Datum = {ali, veli}
    Label = {kisi}
    LabelOf <- MCLabelOf
    Suffix = {bare}
    MaxEntries = 2
    Ttl = 2
    MaxIndex = 3
    MaxTime = 3
SYMMETRY Alike
INVARIANTS VaultConsistent
PROPERTIES OnlyEvictionDropsLive KeepsPromise
