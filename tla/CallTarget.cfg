\* Bodies with their own branches, clauses and returns; BeginMethod and EndMethod may throw.
CONSTANTS
    v = v
    w = w
    e = e
    Values = {v, w, e}
    Methods <- MCMethods
    BeginSize = 20
    EndSize = 30
    MaxChoices = 3
    Default = default
    Fault = fault
    None = none
SPECIFICATION FairSpec
CHECK_DEADLOCK FALSE
INVARIANTS
    TypeOK
    BranchesExact
    EndMatchesBegin
    IntegrationIsolated
    OutcomePreserved
    EndSeesOutcome
PROPERTIES
    MethodEnds
