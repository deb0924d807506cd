SPECIFICATION Spec
CONSTANTS
    a = a
    b = b
    c = c
    d = d
    none = none
    g1 = g1
    g2 = g2
    Goroutine = {g1}
    Key <- MCKey
    EmptyKey = none
    FirstObjs <- EmptyDoc
    Jobs <- SoleJobs
    Probes <- SoleProbes
    MaxCalls = 3
INVARIANTS TypeOK CallsDoWhatTheySay FailuresAreDue
