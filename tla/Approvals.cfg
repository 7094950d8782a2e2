\* One run with two guarded calls, asked for alone or together, a worker, two
\* reviewers, the owner and a reconciler, one of which dies. The run may be over
\* and all requests answered.
CHECK_DEADLOCK FALSE
SPECIFICATION FairSpec
CONSTANTS
    c1 = c1
    c2 = c2
    w = w
    q1 = q1
    q2 = q2
    o = o
    k = k
    Calls = {c1, c2}
    MaxSteps = 2
    Parallel = TRUE
    Workers = {w}
    Reviewers = {q1, q2}
    Owners = {o}
    Reconcilers = {k}
    MaxCrashes = 1
INVARIANTS
    TypeOK
    SoleDriver
    HeldRunsOnce
    FailsClosed
    PausedIsDecidable
    RunningIsDriven
PROPERTIES
    DecisionIsPermanent
    DecisionTakesEffect
