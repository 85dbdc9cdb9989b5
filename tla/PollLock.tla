------------------------------ MODULE PollLock ------------------------------
(***************************************************************************)
(* What the entry gate of Poll::poll (src/src/poll.rs) promises, without   *)
(* lock_state, the mutex or the condvar: one owner at a time runs poll2,   *)
(* taking the lock only when it is free and letting go of it; a call that  *)
(* does not get the lock returns Ok(0) only if it was given a timeout (a   *)
(* call with `None` waits for the lock), or ends in a panic.               *)
(***************************************************************************)
CONSTANTS
    Pollers,    \* threads calling Poll::poll
    Timeouts,   \* "zero", "finite", "infinite"
    None        \* no owner

VARIABLES
    owner,      \* the thread running poll2, or None
    call        \* per thread: "out", the timeout of its waiting call, or "panicked"

vars == <<owner, call>>

Init == owner = None /\ call = [t \in Pollers |-> "out"]

\* A call that finds the lock taken starts waiting with its timeout.
Arrive(t, timeout) ==
    /\ call[t] = "out" /\ owner # t
    /\ call' = [call EXCEPT ![t] = timeout]
    /\ UNCHANGED owner

\* A thread, waiting or not, takes the free lock.
Acquire(t) ==
    /\ owner = None /\ call[t] # "panicked"
    /\ owner' = t
    /\ call' = [call EXCEPT ![t] = "out"]

\* A waiting call with a timeout returns without the lock.
GiveUp(t) ==
    /\ call[t] \in {"zero", "finite"}
    /\ call' = [call EXCEPT ![t] = "out"]
    /\ UNCHANGED owner

\* A waiting call panics.
Fail(t) ==
    /\ call[t] \in Timeouts
    /\ call' = [call EXCEPT ![t] = "panicked"]
    /\ UNCHANGED owner

\* The owner leaves poll2.
Release(t) ==
    /\ owner = t
    /\ owner' = None
    /\ UNCHANGED call

Next ==
    \E t \in Pollers :
        \/ \E timeout \in Timeouts : Arrive(t, timeout)
        \/ Acquire(t) \/ GiveUp(t) \/ Fail(t) \/ Release(t)

Spec == Init /\ [][Next]_vars

=============================================================================
