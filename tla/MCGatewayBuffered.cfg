SPECIFICATION FairSpec
CONSTANTS
    None = None
    Bare = Bare
    Plain = Plain
    ali = ali
    veli = veli
    acme = acme
    flu = flu
    kisi = kisi
    kurum = kurum
    saglik = saglik
    Scope = {s1}
    Request = {r1, r2}
    Datum = {ali, veli, acme, flu}
    Label = {kisi, kurum, saglik}
    LabelOf <- MCLabelOf
    Rules <- MCRules
    Unknown = "block"
    Guesses <- MCGuesses
    Bodies <- MCScanned
    MaxEntries = 1
    Ttl = 1
    MaxIndex = 4
    MaxTime = 1
    CollisionMode = "prefix"
    ResponseScan = TRUE
    UnmaskLimit = 2
CHECK_DEADLOCK FALSE
INVARIANT BufferedAnswerMasked
PROPERTY Completes
