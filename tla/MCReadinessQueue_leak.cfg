\* Scenario S6 and the lifecycle of section 3: a node whose handles are
\* both dropped is eventually freed.
CONSTANTS
    Nodes = {n1, n2}
    Setters = {s1}
    Updaters = {}
    EndM = EndM
    SleepM = SleepM
    Nil = Nil
    Flags <- MCFlags
    Opts <- MCOpts
    Tokens <- MCTokens
    RegTokens = {0}
    Timeouts = {"zero"}
    Cap = 1
    MaxOps = 3
    MaxClones = 0
SPECIFICATION Spec
PROPERTY DroppedEventuallyFreed
