\* Two threads calling Poll::poll with any timeout: is a waiter with no
\* timeout ever left blocked with nobody left to notify it?
CONSTANTS
    Pollers = {p1, p2}
    Timeouts = {"zero", "finite", "infinite"}
    Width = 3
    None = None
SPECIFICATION Spec
INVARIANT NoStrandedWaiter
