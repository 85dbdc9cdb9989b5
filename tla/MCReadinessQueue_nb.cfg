\* Event loop polling with a zero timeout only (Poll::poll(.., Some(0))),
\* as the stress test of src/test does: two nodes, two set_readiness
\* threads (racing on one node's CAS and enqueue) and one update thread,
\* two calls in all; a SetReadiness may be cloned once, so a node has up
\* to four owners.
CONSTANTS
    Nodes = {n1, n2}
    Setters = {s1, s2}
    Updaters = {u1}
    EndM = EndM
    SleepM = SleepM
    Nil = Nil
    Flags <- MCFlags
    Opts <- MCOpts
    Tokens <- MCTokens
    RegTokens = {0}
    Timeouts = {"zero"}
    Cap = 1
    MaxOps = 2
    MaxClones = 1
SPECIFICATION Spec
INVARIANT TypeOK
INVARIANT QueueWellFormed
INVARIANT QueuedReachable
INVARIANT NoUseAfterFree
SYMMETRY MCSymmetry
