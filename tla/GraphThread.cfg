\* One thread invoked afresh twice over a table saver.
\* The caller stops when its invocations are used up.
SPECIFICATION Spec
CHECK_DEADLOCK FALSE
CONSTANTS
    a = a
    b = b
    c = c
    d = d
    s = s
    End = End
    Nodes <- JoinNodes
    Edges <- JoinEdges
    MaxAttempts <- OneAttempt
    Entry = s
    Routed = {}
    Asking = {s}
    MaxSupersteps = 5
    HighestStep = TRUE
    MaxFresh = 2
    MaxResumes = 2
    MaxCrashes = 0
PROPERTY
    ResumeGoesOnFromPause
