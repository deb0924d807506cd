SPECIFICATION FairSpec
CONSTANTS
    Doc = {d1, d2}
    Thread = {t1, t2}
    Nobody = Nobody
    Stale = Stale
INVARIANTS
    InsideOwns
    OwnResult
    NotCutShort
PROPERTY
    CallsReturn
