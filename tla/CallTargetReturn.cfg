\* The bodies of CallTarget.cfg: a branch that leads to a return loses the value.
CONSTANTS
    v = v
    w = w
    e = e
    Values = {v, w, e}
    Methods <- MCMethods
    BeginSize = 20
    EndSize = 30
    MaxChoices = 3
    Default = default
    Fault = fault
    None = none
SPECIFICATION Spec
CHECK_DEADLOCK FALSE
INVARIANT ReturnValueStored
