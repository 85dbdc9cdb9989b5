------------------------------ MODULE RefCount ------------------------------
(***************************************************************************)
(* The reference count of a readiness node (src/src/poll.rs): the Width-   *)
(* bit word `ref_count`, incremented by RegistrationInner::clone (the      *)
(* Clone of SetReadiness) and decremented by release_node, which frees the *)
(* node when it takes the count from 1 to 0.  Clone is a fetch_add         *)
(* followed by the saturation test `old_size & !MAX_REFCOUNT != 0` on the  *)
(* value it returned, which panics.  A panic either unwinds the thread,    *)
(* dropping the handles it holds, or is caught by its caller               *)
(* (std::panic::catch_unwind) and the thread goes on.                      *)
(*                                                                         *)
(* MAX_REFCOUNT is isize::MAX, all bits but the top one; with a Width-bit  *)
(* word it is 2^(Width-1) - 1.  Handles are counted per thread, and moved  *)
(* between threads as the tests do over channels.                          *)
(***************************************************************************)
EXTENDS Naturals, Bitwise, FiniteSets

CONSTANTS
    Threads,    \* threads holding handles of the node
    Main,       \* the thread that called Registration::new
    Width,      \* bits of ref_count
    MaxOps      \* bound on clone calls

ASSUME Main \in Threads /\ Width \in Nat \ {0, 1}

Word == 2^Width
MaxRefcount == 2^(Width - 1) - 1    \* MAX_REFCOUNT = isize::MAX
NotMaxRefcount == Word - 1 - MaxRefcount   \* !MAX_REFCOUNT

VARIABLES
    count,  \* ReadinessNode.ref_count
    held,   \* live handles (Registration, SetReadiness, Poll's) per thread
    pc,     \* "idle", "check" (between fetch_add and the test), "unwind"
    old,    \* old_size, the value fetch_add returned
    freed,  \* release_node has freed the node
    ops     \* clone calls made

vars == <<count, held, pc, old, freed, ops>>

\* ReadinessNode::new: three references, for the Registration, the
\* SetReadiness and Poll, all with the thread calling Registration::new.
Init ==
    /\ count = 3
    /\ held = [t \in Threads |-> IF t = Main THEN 3 ELSE 0]
    /\ pc = [t \in Threads |-> "idle"]
    /\ old = [t \in Threads |-> 0]
    /\ freed = FALSE
    /\ ops = 0

\* The saturation test of clone.
Saturated(o) == (o & NotMaxRefcount) # 0

\* Mutant: release_node frees the node when fetch_sub returns 2.
FreesNodeAtTwo(o) == o = 2

\* `fetch_sub(1, Release) != 1` returns; otherwise the node is freed.
FreesNode(o) == o = 1

\* RegistrationInner::clone, the fetch_add on a handle the thread holds.
CloneAdd(t) ==
    /\ pc[t] = "idle" /\ held[t] > 0 /\ ops < MaxOps
    /\ count' = (count + 1) % Word
    /\ old' = [old EXCEPT ![t] = count]
    /\ pc' = [pc EXCEPT ![t] = "check"]
    /\ ops' = ops + 1
    /\ UNCHANGED <<held, freed>>

\* The test on old_size: a new handle, or a panic that leaves the count
\* incremented; the panic unwinds the thread or is caught by its caller.
CloneCheck(t) ==
    /\ pc[t] = "check"
    /\ IF Saturated(old[t])
         THEN /\ \E p \in {"idle", "unwind"} : pc' = [pc EXCEPT ![t] = p]
              /\ UNCHANGED held
         ELSE /\ held' = [held EXCEPT ![t] = @ + 1]
              /\ pc' = [pc EXCEPT ![t] = "idle"]
    /\ UNCHANGED <<count, old, freed, ops>>

\* Drop of a handle (Drop for RegistrationInner, or Poll releasing its
\* reference): release_node, also while the thread unwinds.
Release(t) ==
    /\ pc[t] \in {"idle", "unwind"} /\ held[t] > 0
    /\ count' = (count + Word - 1) % Word
    /\ held' = [held EXCEPT ![t] = @ - 1]
    /\ freed' = (freed \/ FreesNode(count))
    /\ UNCHANGED <<pc, old, ops>>

\* A handle sent to another thread (mpsc::Sender::send): no count change.
Give(t, u) ==
    /\ pc[t] = "idle" /\ pc[u] = "idle" /\ held[t] > 0 /\ t # u
    /\ held' = [held EXCEPT ![t] = @ - 1, ![u] = @ + 1]
    /\ UNCHANGED <<count, pc, old, freed, ops>>

Next ==
    \E t \in Threads :
        \/ CloneAdd(t) \/ CloneCheck(t) \/ Release(t)
        \/ \E u \in Threads : Give(t, u)

Spec == Init /\ [][Next]_vars

-----------------------------------------------------------------------------

Live == {t \in Threads : held[t] > 0}

\* release_node frees the node only once no thread holds a handle to it:
\* every handle holds one count, so the count cannot reach 0 while a
\* handle lives; the saturation test of clone exists to keep the count
\* from wrapping to a small value while handles are still live.
NoUseAfterFree == freed => Live = {}

=============================================================================
