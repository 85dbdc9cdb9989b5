------------------------------ MODULE PollGate ------------------------------
(***************************************************************************)
(* The entry gate of Poll::poll (src/src/poll.rs, lines 339-471): several  *)
(* threads may call poll; the atomic `lock_state` (bit 0: locked, bits     *)
(* 1..: number of waiting threads) admits one of them into poll2, the      *)
(* others wait on `condvar` under `lock`.                                  *)
(*                                                                         *)
(* lock_state is a `Width`-bit word (usize); `curr | 1 == usize::MAX` is   *)
(* the code's overflow guard.  Mutex::lock / Condvar::wait are modelled by *)
(* a mutex holder and the set of threads blocked on the condvar;           *)
(* notify_one removes one of them, a wait may also wake spuriously or, for *)
(* wait_timeout, time out.  A panic while the mutex is held poisons it.    *)
(***************************************************************************)
EXTENDS Naturals, FiniteSets

CONSTANTS
    Pollers,    \* threads calling Poll::poll
    Timeouts,   \* timeouts they pass: "zero", "finite", "infinite"
    Width,      \* bits of lock_state
    None        \* no mutex holder

ASSUME Timeouts \subseteq {"zero", "finite", "infinite"}
ASSUME Width \in Nat \ {0, 1}

UsizeMax == 2^Width - 1

VARIABLES
    lockState,  \* Poll.lock_state
    holder,     \* the thread holding Poll.lock, or None
    poisoned,   \* Poll.lock is poisoned (a thread panicked holding it)
    cvWaiters,  \* threads blocked in condvar.wait / wait_timeout
    pc,         \* program counter per thread
    curr,       \* local `curr` per thread
    inc,        \* local `inc` per thread
    to,         \* the timeout of the current call
    timedOut    \* the last wait_timeout reported a timeout

vars == <<lockState, holder, poisoned, cvWaiters, pc, curr, inc, to, timedOut>>

Pcs == {"idle", "mutex", "loop", "toWait", "waiting", "reacq", "cs", "release",
        "notify", "panicked"}

Init ==
    /\ lockState = 0
    /\ holder = None
    /\ poisoned = FALSE
    /\ cvWaiters = {}
    /\ pc = [t \in Pollers |-> "idle"]
    /\ curr = [t \in Pollers |-> 0]
    /\ inc = [t \in Pollers |-> FALSE]
    /\ to = [t \in Pollers |-> "zero"]
    /\ timedOut = [t \in Pollers |-> FALSE]

\* Thread t leaves poll (returns, or has entered poll2) with its locals dead.
Reset(t) ==
    /\ inc' = [inc EXCEPT ![t] = FALSE]
    /\ timedOut' = [timedOut EXCEPT ![t] = FALSE]

Goto(t, p) == pc' = [pc EXCEPT ![t] = p]

\* `next = curr | 1`, minus 2 when this thread had counted itself a waiter
\* (curr has the lock bit clear here, so `| 1` is `+ 1`).
AcquireValue(cur, wasInc) == IF wasInc THEN cur + 1 - 2 ELSE cur + 1

\* compare_and_swap(curr, next) succeeds when lock_state still equals curr.
CasSucceeds(cur) == lockState = cur

\* Mutant: the lock is grabbed by a plain store of `next`.
TryAcquireBlind(cur) == TRUE

\* The compare_and_swap(curr, next) that grabs a free lock.
TryAcquire(cur) == CasSucceeds(cur)

\* Mutant: the overflow guard is left out.
SaturatedNever(cur) == FALSE

\* The overflow guard `curr | 1 == usize::MAX` (curr is odd where it is
\* evaluated, so `curr | 1` is curr).
Saturated(cur) == cur = UsizeMax

\* Mutant: a waiter that gives up does not take itself out of the count.
WaiterLeavesNoDec(ls) == ls

\* lock_state.fetch_sub(2): a waiter that gives up leaves the count.
\* Plain arithmetic: TypeOK checks that it never wraps.
WaiterLeaves(ls) == ls - 2

-----------------------------------------------------------------------------

\* The fast path: compare_and_swap(0, 1); on failure `curr` is the value
\* observed and the thread takes the slow path.
Enter(t, timeout) ==
    /\ pc[t] = "idle"
    /\ to' = [to EXCEPT ![t] = timeout]
    /\ IF lockState = 0
         THEN lockState' = 1 /\ Goto(t, "cs") /\ UNCHANGED curr
         ELSE /\ curr' = [curr EXCEPT ![t] = lockState]
              /\ Goto(t, "mutex") /\ UNCHANGED lockState
    /\ UNCHANGED <<holder, poisoned, cvWaiters, inc, timedOut>>

\* self.lock.lock().unwrap(): a poisoned mutex makes unwrap panic.
LockMutex(t) ==
    /\ pc[t] = "mutex" /\ holder = None
    /\ IF poisoned
         THEN Goto(t, "panicked") /\ UNCHANGED holder
         ELSE holder' = t /\ Goto(t, "loop")
    /\ UNCHANGED <<lockState, poisoned, cvWaiters, curr, inc, to, timedOut>>

\* Release the mutex guard and return from poll with Ok(0).
ReturnZero(t) ==
    /\ holder' = None /\ Goto(t, "idle") /\ Reset(t)

\* A panic with the guard held: the mutex is poisoned on unwinding.
Panic(t) ==
    /\ holder' = None /\ poisoned' = TRUE /\ Goto(t, "panicked")
    /\ UNCHANGED <<inc, timedOut>>


\* One iteration of the slow-path loop, with the mutex held, on the local
\* `curr`: grab a free lock by CAS; with a held lock return at once for a
\* zero timeout, else count this thread a waiter (once, by CAS, after the
\* overflow guard) and wait on the condvar.  A failed CAS reloads `curr`.
SlowLoop(t) ==
    /\ pc[t] = "loop"
    /\ LET cur == curr[t] IN
       IF cur % 2 = 0
         THEN IF TryAcquire(cur)
                THEN /\ lockState' = AcquireValue(cur, inc[t])
                     /\ holder' = None /\ Goto(t, "cs") /\ Reset(t)
                     /\ UNCHANGED <<poisoned, cvWaiters, curr>>
                ELSE /\ curr' = [curr EXCEPT ![t] = lockState]
                     /\ UNCHANGED <<lockState, holder, poisoned, cvWaiters,
                                    pc, inc, timedOut>>
       ELSE IF to[t] = "zero"
         THEN IF inc[t]
                THEN Panic(t) /\ UNCHANGED <<lockState, cvWaiters, curr>>
                ELSE ReturnZero(t)
                     /\ UNCHANGED <<lockState, poisoned, cvWaiters, curr>>
       ELSE IF inc[t]
         THEN Goto(t, "toWait")
              /\ UNCHANGED <<lockState, holder, poisoned, cvWaiters, curr, inc,
                             timedOut>>
       ELSE IF Saturated(cur)
         THEN Panic(t) /\ UNCHANGED <<lockState, cvWaiters, curr>>
       ELSE IF CasSucceeds(cur)
         THEN /\ lockState' = cur + 2
              /\ inc' = [inc EXCEPT ![t] = TRUE]
              /\ Goto(t, "toWait")
              /\ UNCHANGED <<holder, poisoned, cvWaiters, curr, timedOut>>
         ELSE /\ curr' = [curr EXCEPT ![t] = lockState]
              /\ UNCHANGED <<lockState, holder, poisoned, cvWaiters, pc, inc,
                             timedOut>>
    /\ UNCHANGED to

\* condvar.wait(lock) / wait_timeout(lock, to): release the mutex and block.
Wait(t) ==
    /\ pc[t] = "toWait"
    /\ holder' = None /\ cvWaiters' = cvWaiters \cup {t} /\ Goto(t, "waiting")
    /\ UNCHANGED <<lockState, poisoned, curr, inc, to, timedOut>>

\* The wait ends: notified (notify_one took the thread off the condvar),
\* spuriously, or by the timeout of wait_timeout.
Wake(t) ==
    /\ pc[t] = "waiting" /\ t \notin cvWaiters
    /\ Goto(t, "reacq")
    /\ UNCHANGED <<lockState, holder, poisoned, cvWaiters, curr, inc, to,
                   timedOut>>

SpuriousWake(t) ==
    /\ pc[t] = "waiting" /\ t \in cvWaiters
    /\ cvWaiters' = cvWaiters \ {t}
    /\ Goto(t, "reacq")
    /\ UNCHANGED <<lockState, holder, poisoned, curr, inc, to, timedOut>>

WaitTimesOut(t) ==
    /\ pc[t] = "waiting" /\ t \in cvWaiters /\ to[t] = "finite"
    /\ cvWaiters' = cvWaiters \ {t}
    /\ timedOut' = [timedOut EXCEPT ![t] = TRUE]
    /\ Goto(t, "reacq")
    /\ UNCHANGED <<lockState, holder, poisoned, curr, inc, to>>

\* Mutant: the elapsed-time check is made for a wait without a timeout too.
ReacquireAnyTimeout(t) ==
    /\ pc[t] = "reacq" /\ holder = None
    /\ \E elapsedAll \in BOOLEAN :
         IF timedOut[t] \/ elapsedAll
           THEN /\ lockState' = WaiterLeaves(lockState)
                /\ ReturnZero(t)
           ELSE holder' = t /\ Goto(t, "loop")
                /\ UNCHANGED <<lockState, inc, timedOut>>
    /\ UNCHANGED <<poisoned, cvWaiters, curr, to>>

\* The wait reacquires the mutex.  After a timeout, or when the elapsed
\* time has used up a finite timeout, fetch_sub(2) and return Ok(0);
\* otherwise loop again, on the same local `curr`.
Reacquire(t) ==
    /\ pc[t] = "reacq" /\ holder = None
    /\ \E elapsedAll \in (IF to[t] = "finite" THEN BOOLEAN ELSE {FALSE}) :
         IF timedOut[t] \/ elapsedAll
           THEN /\ lockState' = WaiterLeaves(lockState)
                /\ ReturnZero(t)
           ELSE holder' = t /\ Goto(t, "loop")
                /\ UNCHANGED <<lockState, inc, timedOut>>
    /\ UNCHANGED <<poisoned, cvWaiters, curr, to>>

\* poll2, the critical section (modelled in ReadinessQueue).
Poll2(t) ==
    /\ pc[t] = "cs"
    /\ Goto(t, "release")
    /\ UNCHANGED <<lockState, holder, poisoned, cvWaiters, curr, inc, to,
                   timedOut>>

\* lock_state.fetch_and(!1); notify when the old value shows waiters.
ReleaseLock(t) ==
    /\ pc[t] = "release"
    /\ lockState' = lockState - (lockState % 2)
    /\ Goto(t, IF lockState # 1 THEN "notify" ELSE "idle")
    /\ UNCHANGED <<holder, poisoned, cvWaiters, curr, inc, to, timedOut>>

\* condvar.notify_one(), without holding the mutex.
NotifyOne(t) ==
    /\ pc[t] = "notify"
    /\ IF cvWaiters = {}
         THEN UNCHANGED cvWaiters
         ELSE \E w \in cvWaiters : cvWaiters' = cvWaiters \ {w}
    /\ Goto(t, "idle")
    /\ UNCHANGED <<lockState, holder, poisoned, curr, inc, to, timedOut>>

Step(t) ==
    \/ LockMutex(t) \/ SlowLoop(t) \/ Wait(t) \/ Wake(t) \/ WaitTimesOut(t)
    \/ Reacquire(t) \/ Poll2(t) \/ ReleaseLock(t) \/ NotifyOne(t)

Next ==
    \E t \in Pollers :
        \/ \E timeout \in Timeouts : Enter(t, timeout)
        \/ Step(t)
        \/ SpuriousWake(t)

\* Threads run; the mutex is taken by a thread that keeps trying while it
\* is intermittently free (SF).  Spurious wake-ups are never assumed.
Fairness ==
    \A t \in Pollers :
        /\ WF_vars(SlowLoop(t) \/ Wait(t) \/ Wake(t) \/ WaitTimesOut(t) \/ Poll2(t)
                   \/ ReleaseLock(t) \/ NotifyOne(t))
        /\ SF_vars(LockMutex(t)) /\ SF_vars(Reacquire(t))

Spec == Init /\ [][Next]_vars /\ Fairness

-----------------------------------------------------------------------------
(* Properties.                                                             *)

TypeOK ==
    /\ lockState \in 0..UsizeMax
    /\ holder \in Pollers \cup {None}
    /\ poisoned \in BOOLEAN
    /\ cvWaiters \subseteq Pollers
    /\ pc \in [Pollers -> Pcs]
    /\ curr \in [Pollers -> 0..UsizeMax]
    /\ inc \in [Pollers -> BOOLEAN]
    /\ to \in [Pollers -> Timeouts \cup {"zero"}]
    /\ timedOut \in [Pollers -> BOOLEAN]

InPoll2(t) == pc[t] \in {"cs", "release"}

\* Only one thread at a time runs poll2: the readiness queue has a single
\* consumer (ReadinessQueue::dequeue_node "Must only be called in poll").
MutualExclusion ==
    \A t, u \in Pollers : InPoll2(t) /\ InPoll2(u) => t = u

\* lock_state is exact: its lock bit is set iff a thread is in poll2, and
\* its waiter count is the number of threads that counted themselves in
\* (`inc`) and have not taken themselves out again.
LockStateAccurate ==
    /\ (lockState % 2 = 1) <=> \E t \in Pollers : InPoll2(t)
    /\ lockState \div 2 = Cardinality({t \in Pollers : inc[t]})

\* Section 4.5 of the spec: a thread blocked on the condvar with no
\* timeout is woken when the lock is released.  So it is never left
\* blocked while every other thread is outside poll (or itself blocked),
\* which would leave it blocked until some unrelated later call of poll.
NoStrandedWaiter ==
    \A t \in Pollers :
        (t \in cvWaiters /\ to[t] = "infinite") =>
            \E u \in Pollers \ {t} :
                pc[u] \notin {"idle", "panicked", "waiting"}
                \/ (pc[u] = "waiting" /\ u \notin cvWaiters)

-----------------------------------------------------------------------------
(* Refinement of the abstract lock (PollLock).  The owner is the thread in *)
(* poll2; a thread between its failed fast-path CAS and its return is a    *)
(* waiting call with its timeout.                                          *)

Waiting(t) == pc[t] \in {"mutex", "loop", "toWait", "waiting", "reacq"}

Lock == INSTANCE PollLock
          WITH owner <- IF \E t \in Pollers : InPoll2(t)
                          THEN CHOOSE t \in Pollers : InPoll2(t) ELSE None,
               call <- [t \in Pollers |->
                          IF Waiting(t) THEN to[t]
                          ELSE IF pc[t] = "panicked" THEN "panicked"
                          ELSE "out"]

\* The gate of Poll::poll implements a lock: a thread enters poll2 only
\* when no thread is in it (fast-path CAS or slow-path CAS under the
\* mutex), leaves it by clearing the lock bit, and a call without a
\* timeout never returns Ok(0) without having run poll2, however it is
\* woken (notify_one, spuriously) and however often it reacquires.
GateRefinement == Lock!Spec

=============================================================================
