--------------------------- MODULE ReadinessQueue ---------------------------
(***************************************************************************)
(* The user-space readiness queue of mio's Poll (src/src/poll.rs): the     *)
(* intrusive MPSC queue with its `end_marker` and `sleep_marker`, the      *)
(* readiness nodes shared by `Registration` / `SetReadiness` handles, the  *)
(* producers calling `set_readiness` and `update` from any thread, the     *)
(* dropping of handles with reference counting, the awakener, and the one  *)
(* consumer running `Poll::poll2` (sleep preparation, selector, sleep      *)
(* marker removal, awakener cleanup and the drain `ReadinessQueue::poll`). *)
(*                                                                         *)
(* Every atomic access of the code on shared memory (load, store, swap,    *)
(* compare-and-swap, fetch_sub, fetch_or) is at most one step.  A CAS     *)
(* retry loop whose body only reads the word it swaps is one atomic        *)
(* read-modify-write step: a failed CAS changes nothing and is retried on  *)
(* the value it observed.                                                  *)
(***************************************************************************)
EXTENDS Naturals, Sequences, FiniteSets, TLC, SequencesExt, ReadinessState

CONSTANTS
    Nodes,          \* the readiness nodes of user registrations
    Setters,        \* threads calling SetReadiness::set_readiness
    Updaters,       \* threads calling Registration::update
    EndM, SleepM,   \* the two queue markers
    Nil,            \* the null pointer
    Flags,          \* readiness flags, e.g. {"r"}
    Opts,           \* the PollOpt values used by the registrations
    Tokens,         \* token values; contains 0 and 1 (initial slot values)
    RegTokens,      \* tokens passed to Registration::new
    Timeouts,       \* timeouts the event loop passes to Poll::poll
    Cap,            \* capacity of the Events buffer
    MaxOps,         \* bound on set_readiness + update calls
    MaxClones       \* bound on live clones of a SetReadiness

ASSUME {0, 1} \subseteq Tokens /\ RegTokens \subseteq Tokens
ASSUME Timeouts \subseteq {"zero", "finite", "infinite"}
ASSUME Cap \in Nat \ {0}

Markers == {EndM, SleepM}
Ptrs == Nodes \cup Markers
Threads == Setters \cup Updaters

VARIABLES
    head,       \* ReadinessQueueInner.head_readiness
    tail,       \* ReadinessQueueInner.tail_readiness (consumer-private)
    next,       \* ReadinessNode.next_readiness, for nodes and markers
    state,      \* ReadinessNode.state
    tok,        \* ReadinessNode.token_0/1/2
    updateLock, \* ReadinessNode.update_lock
    refCount,   \* ReadinessNode.ref_count
    regPc,      \* the Registration handle: "alive", "flagged", "gone"
    srCount,    \* the number of live SetReadiness handles (clones included)
    cref,       \* whether Poll's implicit reference is still held
    awake,      \* the awakener has been signalled and not yet cleaned up
    thr,        \* program counters and locals of producer threads
    c,          \* program counter and locals of the consumer
    ops,        \* number of set_readiness / update calls made
    seen        \* the event loop's last event kind per node (the stress test's `ready`)

vars == <<head, tail, next, state, tok, updateLock, refCount, regPc, srCount,
          cref, awake, thr, c, ops, seen>>

Event == [node : Nodes, readiness : SUBSET Flags, token : Tokens]

-----------------------------------------------------------------------------
(* Helpers shared by the actions.                                          *)

\* Mutant: ReadinessNode::new counting one reference too few.
NewNodeTwoRefs(token, interest, opt) ==
    [state |-> NewState(interest, opt), refs |-> 2,
     tok |-> (0 :> token) @@ (1 :> 0) @@ (2 :> 1)]

\* ReadinessNode::new: ref_count 3 (Registration, SetReadiness, Poll),
\* token_0 the registration token, token_1 = Token(0), token_2 = Token(1).
NewNode(token, interest, opt) ==
    [state |-> NewState(interest, opt), refs |-> 3,
     tok |-> (0 :> token) @@ (1 :> 0) @@ (2 :> 1)]

\* ReadinessQueue::new: head and tail both at the end marker; the markers,
\* like every node, start with a null `next_readiness`.
NewQueue == [head |-> EndM, tail |-> EndM, next |-> [p \in Ptrs |-> Nil]]

\* The unsynchronised read of token slot `pos` of a node.
TokenAt(n, pos) == tok[n][pos]

\* AtomicState::flag_as_dropped: fetch_or of the dropped bit.
FlagAsDropped(n) == state' = [state EXCEPT ![n].dropped = TRUE]

\* release_node: fetch_sub on ref_count; the node is freed when it hits 0.
ReleaseNode(n) == refCount' = [refCount EXCEPT ![n] = @ - 1]

Freed(n) == refCount[n] = 0

\* Mutant: enqueue only when the flag was already set.
MustEnqueueNoNegation(old, new) == old.queued /\ new.queued

\* Mutant: enqueue whenever the new state is queued.
MustEnqueueAlways(old, new) == new.queued

\* `!state.is_queued() && next.is_queued()`: the CAS that flipped `queued`
\* from 0 to 1 obliges its caller to enqueue the node.
MustEnqueue(old, new) == ~old.queued /\ new.queued

\* Mutant: enqueue_node compares the previous head with the end marker.
NeedsWakeupOnEnd(prev) == prev = EndM

\* `prev == self.sleep_marker()`: the producer that swapped head_readiness
\* away from sleep_marker must fire the awakener.
NeedsWakeup(prev) == prev = SleepM

\* Mutant: enqueue_node without the store of null into node.next.
EnqSwapKeepNext(n) == head' = n /\ UNCHANGED next

\* First half of enqueue_node: next := null, prev := head.swap(node).
EnqSwap(n) ==
    /\ next' = [next EXCEPT ![n] = Nil]
    /\ head' = n

\* Second half of enqueue_node: prev.next := node.
EnqLink(prev, n) == next' = [next EXCEPT ![prev] = n]

\* The successor of a pointer in the queue, counting a link a thread has
\* committed to by its swap but not yet stored.
PendingLinks ==
    {<<thr[t].prev, thr[t].node>> : t \in {t \in Threads : thr[t].pc = "link"}}
    \cup (IF c.pc = "requeueLink" THEN {<<c.prev, c.cur>>} ELSE {})
    \cup (IF c.pc = "deqLink" THEN {<<c.prev, EndM>>} ELSE {})

Succ(x) ==
    IF next[x] # Nil THEN next[x]
    ELSE IF \E l \in PendingLinks : l[1] = x
         THEN (CHOOSE l \in PendingLinks : l[1] = x)[2]
         ELSE Nil

\* The pointers met walking from x, stopping at Nil or at a repetition.
RECURSIVE Walk(_, _)
Walk(x, visited) ==
    IF x = Nil \/ x \in ToSet(visited) THEN visited ELSE Walk(Succ(x), Append(visited, x))

\* The pointers of the queue as the consumer will see them, from its tail.
Chain == Walk(tail, <<>>)

\* A producer thread outside any call; its locals are dead.
IdleThread ==
    [pc |-> "idle", node |-> Nil, prev |-> Nil, token |-> 0, interest |-> {},
     opt |-> {}, npos |-> 0, changed |-> FALSE, toggled |-> FALSE]

\* Producer thread t goes to pc p; "idle" is the return from its call.
ThreadTo(t, p) ==
    [thr EXCEPT ![t] = IF p = "idle" THEN IdleThread ELSE [@ EXCEPT !.pc = p]]

\* The consumer outside poll2, with the events of its last call.
IdleConsumer(events) ==
    [pc |-> "idle", timeout |-> "zero", slept |-> FALSE, res |-> FALSE,
     cur |-> Nil, prev |-> Nil, until |-> Nil, rdy |-> {},
     nst |-> NewState({}, {}), pubTok |-> 0, events |-> events]

\* poll2 returns (the drain loop breaks).
Returned == IdleConsumer(c.events)

\* The next iteration of the drain loop: only `until` and the buffer live on.
NextIteration == [Returned EXCEPT !.pc = "drain", !.until = c.until]

-----------------------------------------------------------------------------
(* Initial state: Poll::new and ReadinessQueue::new, then one              *)
(* Registration::new per node.                                             *)

Init ==
    \E tk \in [Nodes -> RegTokens], int \in [Nodes -> SUBSET Flags],
       opt \in [Nodes -> Opts] :
        LET nd == [n \in Nodes |-> NewNode(tk[n], int[n], opt[n])] IN
        /\ head = NewQueue.head
        /\ tail = NewQueue.tail
        /\ next = NewQueue.next
        /\ state = [n \in Nodes |-> nd[n].state]
        /\ tok = [n \in Nodes |-> nd[n].tok]
        /\ refCount = [n \in Nodes |-> nd[n].refs]
        /\ updateLock = [n \in Nodes |-> FALSE]
        /\ regPc = [n \in Nodes |-> "alive"]
        /\ srCount = [n \in Nodes |-> 1]
        /\ cref = [n \in Nodes |-> TRUE]
        /\ awake = FALSE
        /\ thr = [t \in Threads |-> IdleThread]
        /\ c = IdleConsumer(<<>>)
        /\ ops = 0
        /\ seen = [n \in Nodes |-> {}]

-----------------------------------------------------------------------------
(* Producers: SetReadiness::set_readiness and Registration::update, and   *)
(* the enqueue_node_with_wakeup they share.                                *)

\* RegistrationInner::set_readiness, the CAS loop: do nothing on a dropped
\* node, else store the readiness and set `queued` if effective readiness
\* is not empty; the caller that flips `queued` must enqueue the node.
SetReadiness(t, n, ready) ==
    /\ thr[t].pc = "idle" /\ t \in Setters
    /\ srCount[n] > 0 /\ ops < MaxOps
    /\ ops' = ops + 1
    /\ IF state[n].dropped
         THEN UNCHANGED <<state, thr>>
         ELSE LET ns == QueueIfReady([state[n] EXCEPT !.readiness = ready]) IN
              /\ state' = [state EXCEPT ![n] = ns]
              /\ thr' = IF MustEnqueue(state[n], ns)
                         THEN [thr EXCEPT ![t].node = n, ![t].pc = "swap"]
                         ELSE thr
    /\ UNCHANGED <<head, tail, next, tok, updateLock, refCount, regPc, srCount,
                   cref, awake, c, seen>>

\* RegistrationInner::update up to the token write: take update_lock (an
\* update finding it held is discarded, which is a stutter), load the state
\* and the current token, and pick the next token slot if the token changes.
UpdateLock(t, n, token, interest, opt) ==
    /\ thr[t].pc = "idle" /\ t \in Updaters
    /\ regPc[n] = "alive" /\ ops < MaxOps
    /\ ~updateLock[n]
    /\ ops' = ops + 1
    /\ updateLock' = [updateLock EXCEPT ![n] = TRUE]
    /\ LET s == state[n]
           changed == token # TokenAt(n, s.tokWr)
       IN thr' = [thr EXCEPT ![t] =
                    [pc |-> IF changed THEN "write" ELSE "cas", node |-> n,
                     prev |-> Nil, token |-> token, interest |-> interest,
                     opt |-> opt, changed |-> changed, toggled |-> FALSE,
                     npos |-> IF changed THEN NextTokenPos(s) ELSE s.tokWr]]
    /\ UNCHANGED <<head, tail, next, state, tok, refCount, regPc, srCount, cref,
                   awake, c, seen>>

\* Registration::deregister: update with Token(0), Ready::none() and
\* PollOpt::empty().
Deregister(t, n) == UpdateLock(t, n, 0, {}, {})

\* The unsynchronised store of the new token into slot next_token_pos.
UpdateWriteToken(t) ==
    /\ thr[t].pc = "write"
    /\ tok' = [tok EXCEPT ![thr[t].node][thr[t].npos] = thr[t].token]
    /\ thr' = [thr EXCEPT ![t].pc = "cas"]
    /\ UNCHANGED <<head, tail, next, state, updateLock, refCount, regPc, srCount,
                   cref, awake, c, ops, seen>>

\* Mutant: update tests for effective readiness before it sets the new
\* interest and opts.
UpdateCasQueueFirst(t) ==
    LET n  == thr[t].node
        s  == state[n]
        s1 == IF thr[t].changed THEN [s EXCEPT !.tokWr = thr[t].npos] ELSE s
        ns == [QueueIfReady(s1) EXCEPT !.interest = thr[t].interest,
                                       !.opt = thr[t].opt]
    IN /\ thr[t].pc = "cas"
       /\ state' = [state EXCEPT ![n] = ns]
       /\ thr' = [thr EXCEPT ![t].pc = "unlock",
                             ![t].toggled = MustEnqueue(s, ns)]
       /\ UNCHANGED <<head, tail, next, tok, updateLock, refCount, regPc,
                      srCount, cref, awake, c, ops, seen>>

\* The CAS loop of update: publish the write position, interest and opts,
\* set `queued` if there is effective readiness.
UpdateCas(t) ==
    LET n  == thr[t].node
        s  == state[n]
        s1 == IF thr[t].changed THEN [s EXCEPT !.tokWr = thr[t].npos] ELSE s
        ns == QueueIfReady([s1 EXCEPT !.interest = thr[t].interest,
                                      !.opt = thr[t].opt])
    IN /\ thr[t].pc = "cas"
       /\ state' = [state EXCEPT ![n] = ns]
       /\ thr' = [thr EXCEPT ![t].pc = "unlock",
                             ![t].toggled = MustEnqueue(s, ns)]
       /\ UNCHANGED <<head, tail, next, tok, updateLock, refCount, regPc,
                      srCount, cref, awake, c, ops, seen>>

\* update_lock.store(false), then enqueue if this call flipped `queued`.
UpdateUnlock(t) ==
    /\ thr[t].pc = "unlock"
    /\ updateLock' = [updateLock EXCEPT ![thr[t].node] = FALSE]
    /\ thr' = ThreadTo(t, IF thr[t].toggled THEN "swap" ELSE "idle")
    /\ UNCHANGED <<head, tail, next, state, tok, refCount, regPc, srCount, cref,
                   awake, c, ops, seen>>

\* enqueue_node, swap of head_readiness.
ProducerSwap(t) ==
    /\ thr[t].pc = "swap"
    /\ EnqSwap(thr[t].node)
    /\ thr' = [thr EXCEPT ![t].pc = "link", ![t].prev = head]
    /\ UNCHANGED <<tail, state, tok, updateLock, refCount, regPc, srCount, cref,
                   awake, c, ops, seen>>

\* enqueue_node, link of the previous head; enqueue_node_with_wakeup fires
\* the awakener when the previous head was the sleep marker.
ProducerLink(t) ==
    /\ thr[t].pc = "link"
    /\ EnqLink(thr[t].prev, thr[t].node)
    /\ thr' = ThreadTo(t, IF NeedsWakeup(thr[t].prev) THEN "wake" ELSE "idle")
    /\ UNCHANGED <<head, tail, state, tok, updateLock, refCount, regPc, srCount,
                   cref, awake, c, ops, seen>>

\* ReadinessQueue::wakeup, Awakener::wakeup.
ProducerWake(t) ==
    /\ thr[t].pc = "wake"
    /\ awake' = TRUE
    /\ thr' = ThreadTo(t, "idle")
    /\ UNCHANGED <<head, tail, next, state, tok, updateLock, refCount, regPc,
                   srCount, cref, c, ops, seen>>

-----------------------------------------------------------------------------
(* Handles being dropped.  A handle is dropped only when no call on it is  *)
(* in progress: the calls borrow it.                                        *)

\* The threads of ts in a call on node n; each borrows a handle of n.
Calling(n, ts) == {t \in ts : thr[t].pc # "idle" /\ thr[t].node = n}

InCall(n, ts) == Calling(n, ts) # {}

\* Drop for Registration: num_registration 1 -> 0, then flag_as_dropped.
DropRegistration(n) ==
    /\ regPc[n] = "alive" /\ ~InCall(n, Updaters)
    /\ regPc' = [regPc EXCEPT ![n] = "flagged"]
    /\ FlagAsDropped(n)
    /\ UNCHANGED <<head, tail, next, tok, updateLock, refCount, srCount, cref,
                   awake, thr, c, ops, seen>>

\* Drop for RegistrationInner of the Registration: release_node.
ReleaseRegistration(n) ==
    /\ regPc[n] = "flagged"
    /\ regPc' = [regPc EXCEPT ![n] = "gone"]
    /\ ReleaseNode(n)
    /\ UNCHANGED <<head, tail, next, state, tok, updateLock, srCount, cref,
                   awake, thr, c, ops, seen>>

\* Clone of a SetReadiness (derived; RegistrationInner::clone):
\* ref_count.fetch_add(1).  The saturation panic needs a count above
\* isize::MAX and is not reachable here.
CloneSetReadiness(n) ==
    /\ srCount[n] > 0 /\ srCount[n] <= MaxClones
    /\ srCount' = [srCount EXCEPT ![n] = @ + 1]
    /\ refCount' = [refCount EXCEPT ![n] = @ + 1]
    /\ UNCHANGED <<head, tail, next, state, tok, updateLock, regPc, cref,
                   awake, thr, c, ops, seen>>

\* Drop for RegistrationInner of a SetReadiness: release_node.
DropSetReadiness(n) ==
    /\ srCount[n] > Cardinality(Calling(n, Setters))
    /\ srCount' = [srCount EXCEPT ![n] = @ - 1]
    /\ ReleaseNode(n)
    /\ UNCHANGED <<head, tail, next, state, tok, updateLock, regPc, cref,
                   awake, thr, c, ops, seen>>


-----------------------------------------------------------------------------
(* The consumer: Poll::poll2 and ReadinessQueue::poll / dequeue_node.      *)
(* Only one thread is ever inside poll2 (the entry gate of Poll::poll,     *)
(* modelled in PollGate), so the consumer is a single sequential process.  *)


\* ReadinessQueue::prepare_for_sleep: sleep_marker.next := null, then CAS
\* head_readiness end_marker -> sleep_marker; on success tail := sleep
\* marker (without checking that tail was end_marker, which the code only
\* debug_asserts) and the selector may block, else its timeout is zero.
PrepareForSleep(to) ==
    /\ next' = [next EXCEPT ![SleepM] = Nil]
    /\ IF head = EndM
         THEN /\ head' = SleepM /\ tail' = SleepM
              /\ c' = [c EXCEPT !.pc = "select", !.timeout = to, !.slept = TRUE]
         ELSE /\ UNCHANGED <<head, tail>>
              /\ c' = [c EXCEPT !.pc = "select", !.timeout = "zero",
                                !.slept = FALSE]

\* Poll::poll2 up to the selector: a zero timeout skips sleep preparation.
PollBegin(to) ==
    /\ c.pc = "idle"
    /\ IF to = "zero"
         THEN /\ c' = [c EXCEPT !.pc = "select", !.timeout = "zero",
                                !.slept = FALSE]
              /\ UNCHANGED <<head, tail, next>>
         ELSE PrepareForSleep(to)
    /\ UNCHANGED <<state, tok, updateLock, refCount, regPc, srCount, cref, awake,
                   thr, ops, seen>>

\* Selector::select: returns at once with a zero timeout, may time out with
\* a finite one, and otherwise returns only once the awakener is readable.
\* It refills the Events buffer and reports whether the awakener fired.
Select ==
    /\ c.pc = "select"
    /\ c.timeout \in {"zero", "finite"} \/ awake
    /\ c' = IF c.slept
             THEN [c EXCEPT !.res = awake, !.events = <<>>, !.pc = "remove"]
             ELSE [IdleConsumer(<<>>) EXCEPT
                     !.pc = IF awake THEN "cleanup" ELSE "drain"]
    /\ UNCHANGED <<head, tail, next, state, tok, updateLock, refCount, regPc,
                   srCount, cref, awake, thr, ops, seen>>

\* try_remove_sleep_marker: end_marker.next := null, then CAS head
\* sleep_marker -> end_marker; on success tail := end_marker.
RemoveSleepMarker ==
    /\ c.pc = "remove"
    /\ next' = [next EXCEPT ![EndM] = Nil]
    /\ IF head = SleepM
         THEN head' = EndM /\ tail' = EndM
         ELSE UNCHANGED <<head, tail>>
    /\ c' = [Returned EXCEPT !.pc = IF c.res THEN "cleanup" ELSE "drain"]
    /\ UNCHANGED <<state, tok, updateLock, refCount, regPc, srCount, cref, awake,
                   thr, ops, seen>>

\* Awakener::cleanup drains the wakeup pipe.
AwakenerCleanup ==
    /\ c.pc = "cleanup"
    /\ awake' = FALSE
    /\ c' = [c EXCEPT !.pc = "drain"]
    /\ UNCHANGED <<head, tail, next, state, tok, updateLock, refCount, regPc,
                   srCount, cref, thr, ops, seen>>

\* The part of dequeue_node after the loads of tail and tail.next: `until`
\* ends the drain, a successor makes `cur` the dequeued node, and a node
\* without successor is checked against head_readiness.
DeqDecide(cur, nx) ==
    IF cur = c.until
      THEN /\ c' = Returned
           /\ UNCHANGED tail
      ELSE IF nx # Nil
      THEN /\ tail' = nx
           /\ c' = [c EXCEPT !.pc = "process", !.cur = cur]
      ELSE /\ c' = [c EXCEPT !.pc = "deqHead", !.cur = cur]
           /\ UNCHANGED tail

\* Mutant: the buffer counts as full one event late.
FullLate(events) == Len(events) > Cap

\* `dst.len() < dst.capacity()` fails: the Events buffer is full.
Full(events) == Len(events) >= Cap

\* The drain loop of ReadinessQueue::poll: stop when the buffer is full;
\* otherwise dequeue_node loads tail and tail.next, and a marker at the
\* tail is skipped (Empty if it has no successor).
DrainDequeue ==
    /\ c.pc = "drain"
    /\ IF Full(c.events)
         THEN c' = Returned /\ UNCHANGED tail
         ELSE LET t == tail IN
              IF t \in Markers
                THEN IF next[t] = Nil
                       THEN c' = Returned /\ UNCHANGED tail
                       ELSE /\ tail' = next[t]
                            /\ c' = [c EXCEPT !.pc = "deqSkip", !.cur = next[t]]
                ELSE DeqDecide(t, next[t])
    /\ UNCHANGED <<head, next, state, tok, updateLock, refCount, regPc, srCount,
                   cref, awake, thr, ops, seen>>

\* dequeue_node, after skipping a marker: load next of the new tail.
DeqSkip ==
    /\ c.pc = "deqSkip"
    /\ DeqDecide(c.cur, next[c.cur])
    /\ UNCHANGED <<head, next, state, tok, updateLock, refCount, regPc, srCount,
                   cref, awake, thr, ops, seen>>

\* Mutant: dequeue_node without the end-marker push, treating every last
\* node as Inconsistent.
DeqCheckHeadAlwaysInconsistent ==
    /\ c.pc = "deqHead"
    /\ c' = Returned
    /\ UNCHANGED <<head, tail, next, state, tok, updateLock, refCount, regPc,
                   srCount, cref, awake, thr, ops, seen>>

\* dequeue_node: a last node that is not the head is Inconsistent (a
\* producer has swapped but not linked yet) and ends the drain.
DeqCheckHead ==
    /\ c.pc = "deqHead"
    /\ c' = IF head # c.cur THEN Returned ELSE [c EXCEPT !.pc = "deqSwap"]
    /\ UNCHANGED <<head, tail, next, state, tok, updateLock, refCount, regPc,
                   srCount, cref, awake, thr, ops, seen>>

\* dequeue_node pushes end_marker behind the last node: swap ...
DeqSwapEnd ==
    /\ c.pc = "deqSwap"
    /\ EnqSwap(EndM)
    /\ c' = [c EXCEPT !.pc = "deqLink", !.prev = head]
    /\ UNCHANGED <<tail, state, tok, updateLock, refCount, regPc, srCount, cref,
                   awake, thr, ops, seen>>

\* ... and link.
DeqLinkEnd ==
    /\ c.pc = "deqLink"
    /\ EnqLink(c.prev, EndM)
    /\ c' = [c EXCEPT !.pc = "deqRecheck"]
    /\ UNCHANGED <<head, tail, state, tok, updateLock, refCount, regPc, srCount,
                   cref, awake, thr, ops, seen>>

\* dequeue_node reloads tail.next: Data if it is now linked, else
\* Inconsistent.
DeqRecheck ==
    /\ c.pc = "deqRecheck"
    /\ IF next[c.cur] # Nil
         THEN tail' = next[c.cur] /\ c' = [c EXCEPT !.pc = "process"]
         ELSE UNCHANGED tail /\ c' = Returned
    /\ UNCHANGED <<head, next, state, tok, updateLock, refCount, regPc, srCount,
                   cref, awake, thr, ops, seen>>

\* The CAS loop of ReadinessQueue::poll on a dequeued node: a dropped node
\* is released; otherwise the effective readiness is taken, `queued` is
\* cleared or kept and the token read position updated.  A node still
\* queued is pushed back, the first one becoming `until`.
Process ==
    /\ c.pc = "process"
    /\ LET n == c.cur
           s == state[n]
       IN IF s.dropped
            THEN /\ ReleaseNode(n)
                 /\ cref' = [cref EXCEPT ![n] = FALSE]
                 /\ c' = NextIteration
                 /\ UNCHANGED state
            ELSE LET ns == ConsumeState(s) IN
                 /\ state' = [state EXCEPT ![n] = ns]
                 /\ c' = [c EXCEPT !.rdy = EffectiveReadiness(s), !.nst = ns,
                                   !.pubTok = TokenAt(n, ns.tokWr),
                                   !.until = IF ns.queued /\ c.until = Nil
                                               THEN n ELSE c.until,
                                   !.pc = IF ns.queued THEN "requeueSwap"
                                          ELSE "push"]
                 /\ UNCHANGED <<refCount, cref>>
    /\ UNCHANGED <<head, tail, next, tok, updateLock, regPc, srCount, awake,
                   thr, ops, seen>>

\* enqueue_node of a level-triggered node by the consumer: swap ...
RequeueSwap ==
    /\ c.pc = "requeueSwap"
    /\ EnqSwap(c.cur)
    /\ c' = [c EXCEPT !.pc = "requeueLink", !.prev = head]
    /\ UNCHANGED <<tail, state, tok, updateLock, refCount, regPc, srCount, cref,
                   awake, thr, ops, seen>>

\* ... and link (the consumer ignores the sleep-marker result).
RequeueLink ==
    /\ c.pc = "requeueLink"
    /\ EnqLink(c.prev, c.cur)
    /\ c' = [c EXCEPT !.pc = "push"]
    /\ UNCHANGED <<head, tail, state, tok, updateLock, refCount, regPc, srCount,
                   cref, awake, thr, ops, seen>>

\* The event loop of the stress test (test_custom_evented.rs) reading the
\* events poll returned: `ready[event.token().0] = event.kind()`.
RecordEvent(n, r) == seen' = [seen EXCEPT ![n] = r]

\* Read the token at the read position of the CASed state and push the
\* event when there is effective readiness.
PushEvent ==
    /\ c.pc = "push"
    /\ c' = [NextIteration EXCEPT
               !.events = IF c.rdy = {} THEN @
                          ELSE Append(@, [node |-> c.cur, readiness |-> c.rdy,
                                          token |-> TokenAt(c.cur, c.nst.tokRd)])]
    /\ IF c.rdy = {} THEN UNCHANGED seen ELSE RecordEvent(c.cur, c.rdy)
    /\ UNCHANGED <<head, tail, next, state, tok, updateLock, refCount, regPc,
                   srCount, cref, awake, thr, ops>>

-----------------------------------------------------------------------------

ThreadStep(t) ==
    \/ UpdateWriteToken(t) \/ UpdateCas(t) \/ UpdateUnlock(t)
    \/ ProducerSwap(t) \/ ProducerLink(t) \/ ProducerWake(t)

ConsumerStep ==
    \/ \E to \in Timeouts : PollBegin(to)
    \/ Select \/ RemoveSleepMarker \/ AwakenerCleanup
    \/ DrainDequeue \/ DeqSkip \/ DeqCheckHead \/ DeqSwapEnd \/ DeqLinkEnd
    \/ DeqRecheck \/ Process \/ RequeueSwap \/ RequeueLink \/ PushEvent

Next ==
    \/ \E t \in Setters, n \in Nodes, r \in SUBSET Flags : SetReadiness(t, n, r)
    \/ \E t \in Updaters, n \in Nodes, tk \in Tokens, i \in SUBSET Flags,
          o \in Opts : UpdateLock(t, n, tk, i, o)
    \/ \E t \in Updaters, n \in Nodes : Deregister(t, n)
    \/ \E t \in Threads : ThreadStep(t)
    \/ \E n \in Nodes : DropRegistration(n) \/ ReleaseRegistration(n)
                        \/ DropSetReadiness(n) \/ CloneSetReadiness(n)
    \/ ConsumerStep

\* Producer threads are OS threads that run to the end of a call; the
\* event loop calls Poll::poll again and again.  Starting a call and
\* dropping a handle are the application's choice and are not fair.
Fairness ==
    /\ \A t \in Threads : WF_vars(ThreadStep(t))
    /\ \A n \in Nodes : WF_vars(ReleaseRegistration(n))
    /\ WF_vars(ConsumerStep)

Spec == Init /\ [][Next]_vars /\ Fairness

-----------------------------------------------------------------------------
(* Properties.                                                             *)

ThreadPcs == {"idle", "write", "cas", "unlock", "swap", "link", "wake"}
ConsumerPcs == {"idle", "select", "remove", "cleanup", "drain", "deqSkip",
                "deqHead", "deqSwap", "deqLink", "deqRecheck", "process",
                "requeueSwap", "requeueLink", "push"}

TypeOK ==
    /\ head \in Ptrs /\ tail \in Ptrs
    /\ next \in [Ptrs -> Ptrs \cup {Nil}]
    /\ \A n \in Nodes :
         /\ state[n].readiness \subseteq Flags /\ state[n].interest \subseteq Flags
         /\ state[n].opt \in Opts \cup {{}}
         /\ {state[n].tokRd, state[n].tokWr} \subseteq 0..2
         /\ state[n].queued \in BOOLEAN /\ state[n].dropped \in BOOLEAN
    /\ tok \in [Nodes -> [0..2 -> Tokens]]
    /\ updateLock \in [Nodes -> BOOLEAN]
    /\ refCount \in [Nodes -> 0..3 + MaxClones]
    /\ regPc \in [Nodes -> {"alive", "flagged", "gone"}]
    /\ srCount \in [Nodes -> 0..1 + MaxClones]
    /\ cref \in [Nodes -> BOOLEAN] /\ awake \in BOOLEAN
    /\ \A t \in Threads : thr[t].pc \in ThreadPcs
    /\ c.pc \in ConsumerPcs
    /\ c.events \in Seq(Event) /\ Len(c.events) <= Cap
    /\ ops \in 0..MaxOps
    /\ seen \in [Nodes -> SUBSET Flags]

\* A thread has set `queued` and is bound to push the node: a producer
\* between its winning CAS and its swap of head_readiness, or the consumer
\* holding a dequeued node it will requeue.
EnqueueCommitted(n) ==
    \/ \E t \in Threads : /\ thr[t].node = n
                          /\ \/ thr[t].pc = "swap"
                             \/ thr[t].pc = "unlock" /\ thr[t].toggled
    \/ c.cur = n /\ c.pc \in {"process", "requeueSwap"}

\* Section 8, property 1 of the spec, and the invariant the `queued` flag
\* exists for (set_readiness / update enqueue only on a 0 -> 1 flip): a
\* node whose `queued` bit is set, and whose implicit Poll reference is
\* still held, is in the queue the consumer drains from its tail, or is
\* about to be pushed.  Otherwise no later set_readiness can ever enqueue
\* it again and its readiness is lost for good.
QueuedReachable ==
    \A n \in Nodes :
        state[n].queued /\ cref[n] =>
            n \in ToSet(Chain) \/ EnqueueCommitted(n)

\* The MPSC list seen from the consumer's tail (enqueue_node,
\* dequeue_node, the markers) is one acyclic path that ends at
\* head_readiness, counting the links producers have committed to: no
\* node is ever enqueued twice, and no node is lost between tail and head.
QueueWellFormed ==
    /\ Last(Chain) = head
    /\ Succ(head) = Nil

ConsumerHolds(n) ==
    c.cur = n /\ c.pc \in {"deqSkip", "deqHead", "deqSwap", "deqLink",
                           "deqRecheck", "process", "requeueSwap",
                           "requeueLink", "push"}

\* release_node frees the node when ref_count reaches 0: by then both
\* handles are gone, no producer call and no consumer step touches it,
\* and it is not linked into the queue.
NoUseAfterFree ==
    \A n \in Nodes : Freed(n) =>
        /\ regPc[n] = "gone" /\ srCount[n] = 0 /\ ~cref[n]
        /\ n \notin ToSet(Chain)
        /\ ~ConsumerHolds(n)
        /\ ~ \E t \in Threads : thr[t].pc # "idle" /\ thr[t].node = n

\* Section 8, property 3: the token poll delivers with an event is the
\* token at the write position of the state its CAS published (latest
\* update wins), read through ReadinessState::update_token_read_pos.
TokenFreshness ==
    c.pc = "push" /\ c.rdy # {} => tok[c.cur][c.nst.tokRd] = c.pubTok

\* The event loop is blocked in the selector with no timeout, and the
\* awakener has not fired.
Sleeping == c.pc = "select" /\ c.timeout = "infinite" /\ ~awake

\* A producer will fire the awakener: its swap returned sleep_marker
\* (enqueue_node_with_wakeup), or it is committed to a swap while
\* sleep_marker is the head.
WakeupPending ==
    \E t \in Threads :
        \/ thr[t].pc \in {"link", "wake"} /\ thr[t].prev = SleepM
        \/ head = SleepM /\ EnqueueCommitted(thr[t].node)
                         /\ thr[t].pc \in {"swap", "unlock"}

\* Section 8 of the spec, and the protocol of prepare_for_sleep: poll
\* blocks with no timeout only when no node is queued (with Poll's
\* reference held), or when a producer is still going to wake it.  A
\* queued node the event loop can no longer reach counts: its `queued` bit
\* stops every later set_readiness from enqueueing it again.
NoLostWakeup ==
    Sleeping =>
        \/ \A n \in Nodes : ~(state[n].queued /\ cref[n])
        \/ WakeupPending

\* A node whose readiness has been queued (and not released by a drop) is
\* eventually dequeued and processed by the event loop's poll.
QueuedEventuallyProcessed ==
    \A n \in Nodes :
        (state[n].queued /\ cref[n]) ~> (c.pc = "process" /\ c.cur = n)

\* Section 3 (lifecycle) and scenario S6: once the Registration and the
\* SetReadiness are dropped, the node is eventually freed (Poll releases
\* its implicit reference).
DroppedEventuallyFreed ==
    \A n \in Nodes :
        (regPc[n] = "gone" /\ srCount[n] = 0) ~> Freed(n)


\* The assertion that ends the stress test of test_custom_evented.rs: once
\* the producer threads and the updates have stopped and the event loop
\* keeps polling, the last event kind it recorded for each live
\* registration is that registration's effective readiness.  A readiness
\* change that set_readiness or update publishes without enqueueing the
\* node (because `queued` was left set, or not set) is never delivered.
ReadinessDelivered ==
    <>[](\A n \in Nodes :
            regPc[n] = "alive" /\ EffectiveReadiness(state[n]) # {} =>
                seen[n] = EffectiveReadiness(state[n]))
-----------------------------------------------------------------------------
(* Refinement of the abstract FIFO (ReadinessFifo).  The abstract queue is *)
(* the list of nodes the consumer will meet from its tail (markers left    *)
(* out); the held node is the one dequeue_node has returned as Data and    *)
(* the drain loop has not yet finished with.                               *)

Holding == c.pc \in {"process", "requeueSwap", "requeueLink", "push"}

Fifo == INSTANCE ReadinessFifo
          WITH fifo <- SelectSeq(Chain, LAMBDA x : x \in Nodes),
               held <- IF Holding THEN c.cur ELSE Nil

\* Under the fairness of the event loop, the queue also meets the abstract
\* liveness: waiting nodes are dequeued, dequeued nodes are finished.
FifoLiveRefinement == Fifo!LiveSpec

=============================================================================
