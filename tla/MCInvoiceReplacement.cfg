SPECIFICATION Spec
CONSTANTS
    k0 = k0
    k1 = k1
    k2 = k2
    e1 = e1
    e2 = e2
    Key <- MCKey
    Initial = k0
    Exec <- MCExec
    Answers = {"number", "refused", "uncertain"}
    MaxRetries = 0
    MaxFaults = 1
SYMMETRY Symmetry
INVARIANTS
    HeldByOneWork
    ToldIsKept
    OldIsHandled
    NumbersAccountedFor
PROPERTIES
    CurrentMovesForward
    IssuesAsSpecified
CHECK_DEADLOCK FALSE
