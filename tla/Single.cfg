\* One process, the deployment serve.py describes; nobody raises.
SPECIFICATION Spec
CONSTANTS
    a = a
    r1 = r1
    r2 = r2
    NoPod = NoPod
    Pods = {a}
    Runs = {r1, r2}
    Durable = FALSE
    MaxConcurrency = 2
    Checkpointing = TRUE
    DefaultWebhook = FALSE
    Hooks = {TRUE}
    MaxMishaps = 2
SYMMETRY Symmetry
INVARIANTS
    SoleWorkerInv
    CallbackIsTruthful
PROPERTIES
    TerminalIsFinal
    CleanStop
    KeepsLifecycle
