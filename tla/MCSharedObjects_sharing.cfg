SPECIFICATION Spec
CONSTANTS
    a = a
    b = b
    c = c
    d = d
    none = none
    g1 = g1
    g2 = g2
    Goroutine = {g1, g2}
    Key <- MCKey
    EmptyKey = none
    FirstObjs <- SharedDoc
    Jobs <- SharingJobs
    Probes = {}
    MaxCalls = 2
SYMMETRY MCSymmetry
INVARIANTS KindsFit AppendsKept IncsAddUp SetsStick SlicesStick
