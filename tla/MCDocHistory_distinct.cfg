\* A program may stop calling its documents: at the bound on changes it does.
CHECK_DEADLOCK FALSE
SPECIFICATION Spec
CONSTANTS
    Doc = {d1, d2}
    Actor = {a1, a2, a3}
    MaxChanges = 3
    MaxFiles = 0
    MaxApply = 1
    ActorReuse = FALSE
SYMMETRY Symmetry
INVARIANT OrphansOnly
INVARIANT SaveLoads
INVARIANT NoTrap
PROPERTY CausalReplication
