\* A behaviour is one call and ends with it.
CHECK_DEADLOCK FALSE
SPECIFICATION Spec
CONSTANTS
    Base = 2
    Word = 16
    MaxLeb = 5
    Magic <- MCMagic
    SumLen = 1
    HashLen = 2
    Strings <- MCStrings
    Hashes <- MCHashes
    Nums = {0, 1}
    MaxRaw = 8
    MaxDeps = 2
    MaxItems = 3
    Half = 8
    Exact = 4
    Exact32 = 2
    Huge = 16
    GoTypes <- Types
    ValuesOf <- Some
    Good = {"x"}
    Odd = {"u"}
    Garbled = "<uint Value>"
    MaxSegs = 2
    MaxLen = 5
    MaxPaths = 5
INVARIANT AsTakesWhatFits
