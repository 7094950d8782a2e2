\* Two processes over one durable store and one run in their hands; each kind
\* of fault once.
SPECIFICATION FairSpec
CONSTANTS
    a = a
    b = b
    NoPod = NoPod
    r1 = r1
    Pods = {a, b}
    Runs = {r1}
    Durable = TRUE
    MaxConcurrency = 1
    Checkpointing = TRUE
    DefaultWebhook = FALSE
    Hooks = {TRUE}
    MaxMishaps = 2
INVARIANTS
    TypeOK
    FencesAreUnique
    FencesAreNotAhead
    RunningIsReapable
    SlotsAccounted
PROPERTIES
    RunsSettle
