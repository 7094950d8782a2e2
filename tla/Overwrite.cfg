\* Two processes: the fence is read in one store call and relied on in the next.
SPECIFICATION Spec
CONSTANTS
    a = a
    b = b
    NoPod = NoPod
    r1 = r1
    Pods = {a, b}
    Runs = {r1}
    Durable = TRUE
    MaxConcurrency = 1
    Checkpointing = FALSE
    DefaultWebhook = FALSE
    Hooks = {FALSE}
    MaxMishaps = 1
PROPERTY
    TerminalIsFinal
