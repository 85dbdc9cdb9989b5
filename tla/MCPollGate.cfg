\* Three threads calling Poll::poll with any timeout, against the
\* invariants of the gate and the abstract lock PollLock.  lock_state has 2
\* bits, so one holder and one waiter make it usize::MAX and the overflow
\* guard is reached by the third thread.
CONSTANTS
    Pollers = {p1, p2, p3}
    Timeouts = {"zero", "finite", "infinite"}
    Width = 2
    None = None
SPECIFICATION Spec
SYMMETRY MCSymmetry
INVARIANT MutualExclusion
INVARIANT TypeOK
INVARIANT LockStateAccurate
PROPERTY GateRefinement
