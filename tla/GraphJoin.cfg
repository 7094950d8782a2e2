\* A fan-out whose second node pauses.
\* The caller stops when its invocations are used up.
SPECIFICATION Spec
CHECK_DEADLOCK FALSE
CONSTANTS
    a = a
    b = b
    c = c
    d = d
    s = s
    End = End
    Nodes <- JoinNodes
    Edges <- JoinEdges
    MaxAttempts <- OneAttempt
    Entry = s
    Routed = {}
    Asking = {b}
    MaxSupersteps = 5
    HighestStep = TRUE
    MaxFresh = 1
    MaxResumes = 1
    MaxCrashes = 0
INVARIANT
    NoneAppliedTwice
