\* The peers stop when they are in sync and the program makes no change.
CHECK_DEADLOCK FALSE
SPECIFICATION FairSyncOnce
CONSTANTS
    Doc = {d1, d2}
    Actor = {a1, a2}
    MaxChanges = 3
    MaxFiles = 0
    MaxApply = 0
    ActorReuse = FALSE
    MaxChan = 1
    MaxBreaks = 0
    MaxFalse = 1
INVARIANT QuietMeansEqual
INVARIANT SharedIsShared
INVARIANT SentArrives
PROPERTY Converges
