\* Blocking polls on two nodes, a zero timeout or none: a drain that ends
\* with tail on a node while head is end_marker lets the next
\* prepare_for_sleep succeed and move tail to sleep_marker.
CONSTANTS
    Nodes = {n1, n2}
    Setters = {s1}
    Updaters = {}
    EndM = EndM
    SleepM = SleepM
    Nil = Nil
    Flags <- MCFlags
    Opts <- MCOpts
    Tokens <- MCTokens
    RegTokens = {0}
    Timeouts = {"zero", "infinite"}
    Cap = 1
    MaxOps = 2
    MaxClones = 0
SPECIFICATION Spec
SYMMETRY MCSymmetry
INVARIANT NoLostWakeup
CHECK_DEADLOCK FALSE
