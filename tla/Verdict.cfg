\* Two reviewers disagree about one call; nobody dies. The run may be over and all
\* requests answered.
CHECK_DEADLOCK FALSE
SPECIFICATION Spec
SYMMETRY Symmetry
CONSTANTS
    c1 = c1
    w = w
    q1 = q1
    q2 = q2
    Calls = {c1}
    MaxSteps = 2
    Parallel = FALSE
    Workers = {w}
    Reviewers = {q1, q2}
    Owners = {}
    Reconcilers = {}
    MaxCrashes = 0
INVARIANT
    OnlyApprovedCallsRun
