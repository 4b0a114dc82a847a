SPECIFICATION Spec
CONSTANTS
    k0 = k0
    k1 = k1
    k2 = k2
    e1 = e1
    e2 = e2
    Key <- MCKey
    Initial = k0
    Exec <- MCExec
    Answers = {"number"}
    MaxRetries = 0
    MaxFaults = 1
SYMMETRY Symmetry
INVARIANTS
    InterruptedCanBeResumed
CHECK_DEADLOCK FALSE
