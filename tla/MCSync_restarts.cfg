\* The peers stop when they are in sync and the program makes no change.
CHECK_DEADLOCK FALSE
SPECIFICATION FairSyncOnce
CONSTANTS
    Doc = {d1, d2}
    Actor = {a1, a2, a3}
    MaxChanges = 2
    MaxFiles = 0
    MaxApply = 0
    ActorReuse = FALSE
    MaxChan = 1
    MaxBreaks = 1
    MaxFalse = 0
INVARIANT QuietMeansEqual
PROPERTY Converges
