\* Liveness with polls of zero timeout: every queued node is eventually
\* dequeued, under fairness of the producer threads and the event loop (set_readiness
\* and handle drops only; update is covered by the safety runs).
CONSTANTS
    Nodes = {n1, n2}
    Setters = {s1}
    Updaters = {}
    EndM = EndM
    SleepM = SleepM
    Nil = Nil
    Flags <- MCFlags
    Opts <- MCOpts
    Tokens <- MCTokens
    RegTokens = {0}
    Timeouts = {"zero"}
    Cap = 1
    MaxOps = 3
    MaxClones = 0
SPECIFICATION Spec
PROPERTY QueuedEventuallyProcessed
PROPERTY FifoLiveRefinement
