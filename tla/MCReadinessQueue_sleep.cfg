\* Blocking polls on one node, two setters: the event loop passes a zero timeout or
\* none, so prepare_for_sleep, the sleep marker and the awakener are in
\* play.  One node keeps out the two bugs that lose a node on this path
\* (rq_lost needs a finite timeout, rq_tail a second node).
CONSTANTS
    Nodes = {n1}
    Setters = {s1, s2}
    Updaters = {u1}
    EndM = EndM
    SleepM = SleepM
    Nil = Nil
    Flags <- MCFlags
    Opts <- MCOpts
    Tokens <- MCTokens
    RegTokens = {0}
    Timeouts = {"zero", "infinite"}
    Cap = 1
    MaxOps = 4
    MaxClones = 0
SPECIFICATION Spec
INVARIANT NoLostWakeup
\* Poll::poll(.., None) with nothing left to signal it blocks in the
\* selector for ever: that terminal state is the program's, not a fault.
CHECK_DEADLOCK FALSE
