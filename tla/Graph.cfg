\* A cyclic graph that pauses at the first node of a fan-out and in a chain; crashes, errors
\* and retries. The caller stops when its invocations are used up.
SPECIFICATION Spec
CHECK_DEADLOCK FALSE
CONSTANTS
    a = a
    b = b
    c = c
    d = d
    s = s
    End = End
    Nodes <- LoopNodes
    Edges <- LoopEdges
    MaxAttempts <- LoopAttempts
    Entry = s
    Routed = {c}
    Asking = {a, d}
    MaxSupersteps = 4
    HighestStep = TRUE
    MaxFresh = 1
    MaxResumes = 5
    MaxCrashes = 2
INVARIANTS
    TypeOK
    AnswersAreNotReused
PROPERTY
    ImplementsSupersteps
