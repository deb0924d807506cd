\* A program may stop calling its documents: at the bound on changes it does.
CHECK_DEADLOCK FALSE
SPECIFICATION Spec
CONSTANTS
    Doc = {d1, d2}
    Actor = {a1, a2}
    MaxChanges = 2
    MaxFiles = 1
    MaxApply = 2
    ActorReuse = TRUE
SYMMETRY Symmetry
INVARIANT TypeOK
PROPERTY EditsBecomeChanges
