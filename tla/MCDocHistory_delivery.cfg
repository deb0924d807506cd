\* A program may stop calling its documents: at the bound on changes it does.
CHECK_DEADLOCK FALSE
SPECIFICATION Spec
CONSTANTS
    Doc = {d1, d2}
    Actor = {a1, a2}
    MaxChanges = 3
    MaxFiles = 0
    MaxApply = 1
    ActorReuse = TRUE
SYMMETRY Symmetry
INVARIANT CausallyClosed
INVARIANT HeadsAreMaximal
INVARIANT DenseSeqs
PROPERTY NothingLost
PROPERTY MergeTakesAll
