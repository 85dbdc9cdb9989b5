\* Section 8 property 1 under blocking polls: prepare_for_sleep after an
\* Inconsistent dequeue.
CONSTANTS
    Nodes = {n1, n2}
    Setters = {s1}
    Updaters = {u1}
    EndM = EndM
    SleepM = SleepM
    Nil = Nil
    Flags <- MCFlags
    Opts <- MCOpts
    Tokens <- MCTokens
    RegTokens = {0}
    Timeouts = {"zero", "finite", "infinite"}
    Cap = 1
    MaxOps = 2
    MaxClones = 0
SPECIFICATION Spec
SYMMETRY MCSymmetry
INVARIANT QueuedReachable
\* Poll::poll(.., None) with nothing left to signal it blocks in the
\* selector for ever: that terminal state is the program's, not a fault.
CHECK_DEADLOCK FALSE
