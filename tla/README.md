# TLA+ models of mio's `Poll` readiness queue and entry gate

This directory holds TLC-checked TLA+ models of `src/src/poll.rs`. That file
implements mio's `Poll`, user-space readiness (`Registration` /
`SetReadiness`), the lock-free readiness queue, and the gate that lets one
thread at a time into `poll2`.

## 1. The system

The parts of `poll.rs` and how they interact:

| Part | Code | State | Operations |
|---|---|---|---|
| A. packed state word | `ReadinessState`, `AtomicState` (1301-1491) | readiness, interest, opt, token read/write positions, `queued`, `dropped` packed in one `usize` | `new`, `effective_readiness`, `set_queued`/`set_dequeued`, `next_token_pos`, `update_token_read_pos`, `flag_as_dropped` |
| B. readiness node and handles | `ReadinessNode`, `Registration`, `SetReadiness`, `RegistrationInner`, `release_node` (112-260, 628-960, 1230-1299) | the state word, three token slots (plain memory), `next_readiness`, `update_lock`, `ref_count` | `Registration::new`, `set_readiness`, `update` / `deregister`, `Drop` of both handles, `release_node` |
| C. readiness queue | `ReadinessQueue` (962-1228) | `head_readiness` (atomic), `tail_readiness` (consumer only), `end_marker`, `sleep_marker`, awakener | `enqueue_node(_with_wakeup)`, `dequeue_node`, `poll`, `prepare_for_sleep`, `try_remove_sleep_marker` |
| D. consumer | `Poll::poll2` (474-522) | the selector timeout, `sleep` | prepare for sleep, `select`, remove the sleep marker, awakener cleanup, drain |
| E. entry gate | `Poll::poll` (339-471) | `lock_state` (lock bit + 2 x waiters), `lock` (Mutex), `condvar` | fast CAS, slow loop under the mutex, condvar wait / wait_timeout, release + `notify_one` |
| F. events buffer | `Events` (549-616) | a bounded buffer | filled by `select` and by the drain; read by the user |

Producers are any threads calling `set_readiness` or `update`:

- Each one changes the node's state word by CAS.
- The caller that flips `queued` from 0 to 1 pushes the node on the queue (swap `head_readiness`, then link the old head).
- If the old head was the sleep marker, it fires the awakener.

The consumer is the one thread inside `poll2` (part E guarantees there is only one):

- It parks the sleep marker at the head when the queue is empty.
- It blocks in the selector.
- It drains the queue with `dequeue_node`, turning nodes into events. Level-triggered nodes that are still ready are pushed back.

Dropping a handle releases one of the node's references: three at creation, one more per `SetReadiness` clone. Dropping the `Registration` also sets `dropped`, and Poll releases its own reference when it next dequeues the node.

What makes this code hard:

- the two-step enqueue, and the Inconsistent state it exposes;
- the sleep marker racing producers;
- token slots written without a lock;
- reference counting across three or more owners;
- the condvar protocol of the gate, with timeouts and a notify sent without the mutex.

## 2. Modules

| Module | Models | State | Actions |
|---|---|---|---|
| `ReadinessState` | part A | none: pure operators over a record standing for the word | `NewState`, `EffectiveReadiness`, `QueueIfReady`, `NextTokenPos`, `UpdateTokenReadPos`, `ConsumeState` |
| `ReadinessQueue` | parts B, C, D, F (capacity) | `head`, `tail`, `next`, `state`, `tok`, `updateLock`, `refCount`, handle states `regPc` and `srCount`, `cref` (Poll's implicit reference), `awake`, threads `thr`, consumer `c`, call counter `ops`, `seen` (the last event kind the event loop recorded per node, the stress test's `ready`) | see below |
| `PollGate` | part E | `lockState`, `holder` (mutex), `poisoned`, `cvWaiters`, per-thread `pc`, `curr`, `inc`, `to`, `timedOut` | `Enter`, `LockMutex`, `SlowLoop`, `Wait`, `Wake`, `SpuriousWake`, `WaitTimesOut`, `Reacquire`, `Poll2`, `ReleaseLock`, `NotifyOne` |
| `PollLock` | the abstract specification of part E | `owner` (the thread in poll2, or `None`), `call` (per thread: out, waiting with its timeout, or panicked) | `Arrive`, `Acquire`, `GiveUp` (only with a timeout), `Fail`, `Release` |
| `RefCount` | part B, the `ref_count` word | `count` (a `Width`-bit word), `held` (live handles per thread), per-thread `pc` and `old` (the value `fetch_add` returned), `freed`, clone counter `ops` | `CloneAdd` (the `fetch_add`), `CloneCheck` (the saturation test; a panic is caught or unwinds), `Release` (`release_node`), `Give` (a handle sent to another thread) |
| `ReadinessFifo` | the abstract specification of part C | `fifo` (a sequence of nodes, each at most once), `held` (the node the consumer is processing) | `Push`, `Pop`, `Finish` |
| `MCReadinessQueue`, `MCPollGate`, `MCRefCount` | TLC instantiation | | flag / opt / token sets, symmetry |

The actions of `ReadinessQueue`, and the code each one stands for:

- **Producers:**
  - `SetReadiness` is the whole CAS loop of `set_readiness`.
  - `update` is split where another thread can observe a difference:
    - `UpdateLock`: take `update_lock`, load the state and pick the next token slot;
    - `UpdateWriteToken`: the unsynchronised slot store;
    - `UpdateCas`;
    - `UpdateUnlock`.
  - The enqueue is `ProducerSwap`, `ProducerLink` and `ProducerWake`.
- **Handles:**
  - `Deregister` is `update` with token 0, no interest and empty opts.
  - `CloneSetReadiness` is the `ref_count` increment of the derived `Clone`.
  - `srCount` counts the live `SetReadiness` handles of a node. One that a call is using cannot be dropped.
- **Drops:** `DropRegistration` is `num_registration` reaching 0 plus `flag_as_dropped`. `ReleaseRegistration` and `DropSetReadiness` are `release_node` calls.
- **Consumer:**
  - `PollBegin` (with `PrepareForSleep`), `Select`, `RemoveSleepMarker`, `AwakenerCleanup`;
  - the drain: `DrainDequeue`, `DeqSkip`, `DeqCheckHead`, `DeqSwapEnd`, `DeqLinkEnd`, `DeqRecheck`, then `Process` (the CAS loop of `ReadinessQueue::poll`), `RequeueSwap`, `RequeueLink`, `PushEvent`.
  - `PushEvent` also records the event as the stress test's loop does (`RecordEvent`, `ready[event.token().0] = event.kind()`), keyed by node: the test gives each registration its index as token.

Atomicity conventions:

- Every atomic access to shared memory is at most one step.
- A CAS loop whose body reads only the word it swaps is one read-modify-write step: a failed CAS changes nothing and is retried.
- Two consecutive accesses are merged only where no other actor can tell the difference. An example is the `store(null)` and the CAS of `prepare_for_sleep`: the store writes the sleep marker's `next`, which no producer writes while the sleep marker is not the head.
- An `update` that finds `update_lock` held returns without doing anything, which is a stutter.

Abstractions:

- The selector returns at once (zero timeout), may time out (finite timeout), or returns only once the awakener has fired.
- The awakener is one boolean.
- Kernel events are not modelled: `select` empties the buffer, which is what it does to `Events` before the kernel fills it.

Refinement: `ReadinessQueue` defines

```
Fifo == INSTANCE ReadinessFifo WITH fifo <- SelectSeq(Chain, LAMBDA x : x \in Nodes), held <- ...
```

The abstract queue is the list of nodes the consumer will meet walking from its tail, markers left out. It counts links a producer has committed to by its swap. The held node is `c.cur` while the drain loop works on a node that `dequeue_node` returned as Data.

The mapping sends each step to the abstract one it implements:

| Concrete step | Abstract step |
|---|---|
| A producer swap or a consumer requeue | `Push` |
| A Data return (`DeqDecide`, `DeqRecheck`) | `Pop` |
| The end of the work on a node (`PushEvent`, the release of a dropped node) | `Finish` |
| Everything else | a stutter |

`PollGate` likewise defines

```
Lock == INSTANCE PollLock WITH owner <- (the thread in poll2, or None), call <- ...
```

A thread is a waiting call (with its timeout) from its failed fast-path CAS (`pc` "mutex") until it returns; `pc` "panicked" is a failed call; every other thread is out. The fast path is an abstract `Acquire` straight from out. `ReturnZero` is `GiveUp`, which the abstract lock allows only to a call with a zero or finite timeout. `Panic` and a poisoned `LockMutex` are `Fail`, and `ReleaseLock` is `Release`.

## 3. Runs

| Run | cfg | Expect | Properties | What it shows |
|---|---|---|---|---|
| rq_nb | `MCReadinessQueue_nb.cfg` | pass | TypeOK, QueueWellFormed, QueuedReachable, NoUseAfterFree | zero-timeout polling (the stress test's loop) against two setters, an updater (which may deregister) and a clonable `SetReadiness` on two nodes. The list stays a single acyclic path from tail to head; a queued node is in it or about to be pushed; a freed node is not referenced by anything |
| rq_sleep | `MCReadinessQueue_sleep.cfg` | pass | NoLostWakeup | one node, two setters, zero and infinite timeouts. `poll(None)` never blocks in select while a node whose Poll reference is held is queued, unless a producer swapped the sleep marker away and is about to fire the awakener |
| rq_live | `MCReadinessQueue_live.cfg` | pass | QueuedEventuallyProcessed, FifoLiveRefinement | every queued node is eventually processed; the queue meets the abstract FIFO's liveness (weak fairness, WF, of Pop and Finish) |
| rq_stress | `MCReadinessQueue_stress.cfg` | pass | ReadinessDelivered | the stress test of `test_custom_evented.rs` on one node: readable and writable flags, a setter, the event loop updating the interest and polling with a zero timeout, edge registrations. Once the calls stop, the last event kind recorded for a live registration is its effective readiness (the test's final assertion) |
| rq_lost | `MCReadinessQueue_lost.cfg` | violation | QueuedReachable | finding: `prepare_for_sleep` unlinks a queued node (poll.rs:1173) |
| rq_fresh | `MCReadinessQueue_fresh.cfg` | violation | TokenFreshness | finding: `update_token_read_pos` writes the write field (poll.rs:1478), so an old token is delivered |
| rq_tail | `MCReadinessQueue_tail.cfg` | violation | NoLostWakeup | finding: `prepare_for_sleep` sets `tail := sleep_marker` over queued nodes after an Inconsistent drain (poll.rs:1190), and `poll(None)` blocks |
| rq_leak | `MCReadinessQueue_leak.cfg` | violation | DroppedEventuallyFreed | finding: a node dropped while not queued is never freed (poll.rs:701) |
| gate | `MCPollGate.cfg` | pass | MutualExclusion, TypeOK, LockStateAccurate, GateRefinement | three pollers, a 2-bit `lock_state`. One thread in poll2; `lock_state` counts holder and waiters exactly; the overflow guard fires before the word wraps; the gate implements the abstract lock `PollLock`: poll2 is entered only when free, and a call with no timeout never returns Ok(0), however it is woken |
| refcount | `MCRefCount.cfg` | pass | NoUseAfterFree | two threads, a 4-bit `ref_count`, six clones. Clones past `MAX_REFCOUNT` panic, and the panic is caught or unwinds. While the count does not wrap, `release_node` frees the node only once no handle is left |
| refcount_wrap | `MCRefCount_wrap.cfg` | violation | NoUseAfterFree | finding: caught panics of the saturation test keep their increments and wrap `ref_count` (poll.rs:936) |
| gate_stranded | `MCPollGate_stranded.cfg` | violation | NoStrandedWaiter | finding: `notify_one` without the mutex loses a wakeup (poll.rs:467); a woken waiter also keeps its stale `curr` |

The findings:

1. **rq_lost.**
   1. A producer swaps `head` away from the sleep marker.
   2. The consumer's select times out, and the sleep marker cannot be removed.
   3. The drain sees the sleep marker as tail with no successor yet, and returns Empty.
   4. The producer links its node behind the sleep marker.
   5. The next `poll` with a timeout runs `prepare_for_sleep`. It stores `sleep_marker.next = null` before its CAS, which fails.

   The node is now queued but unreachable. Its `queued` flag stays set, so no later `set_readiness` pushes it again.
2. **rq_fresh.** `update_token_read_pos` reads the write position and stores it back into the write position. The read position stays 0. After an `update` changes the token, `poll` reads slot 0.
3. **rq_leak.** Dropping the `Registration` only sets `dropped`. Poll's reference is released when `poll` dequeues the node, which happens only if the node is queued. A node that is not queued is never released.
4. **gate_stranded.** A waiter counts itself in by CAS. Before it waits on the condvar, the holder releases the lock and calls `notify_one` (without the mutex), which finds nobody waiting. The waiter then blocks with no one left to wake it.

   Separately, the loop keeps the `curr` it loaded before waiting. A woken waiter therefore still sees the lock as held, and waits again. So a waiter never takes the lock: it leaves only by timeout. This is also why the `next -= 2` branch (the decrement of the waiter count on acquisition) can never run.

5. **refcount_wrap.** `RegistrationInner::clone` adds to `ref_count` first and tests the old value after. On saturation it panics, and the `TODO` at line 937 says it should abort. A caller can catch the panic, and the count keeps its increment. With a 3-bit word, four caught panics take the count from 4 round to 0. A clone on that small value then succeeds, and a drop takes the count from 1 to 0. `release_node` frees the node while four handles still hold it. In the real 64-bit word this needs about `isize::MAX` caught panics. The comment's "we abort" is what would make the test sound.

6. **rq_tail.**
   1. The drain dequeues n1, the last node, and pushes the end marker.
   2. Meanwhile a producer has swapped n2 into `head` but not yet linked n1 to it.
   3. `dequeue_node` returns Inconsistent with `tail = n1` and `head = end_marker`, and the drain stops (992-999).
   4. The next `poll(None)` runs `prepare_for_sleep`. Its CAS of `head` from the end marker succeeds, and it sets `tail := sleep_marker` (1190). Only a `debug_assert` (1186) checks that `tail` was the end marker.
   5. The producer links n1 to n2. Its `prev` is n1, not the sleep marker, so it fires no wakeup.

   Both nodes stay queued but unreachable, and select blocks with nobody to wake it. The comment at 993-996 says poll will be called again shortly. A release build blocks; a debug build panics at the assert. rq_sleep has one node, so this case cannot arise there and the property passes.

Every property of a passing run has a mutant in `PROJECT.json`, each a plausible bug in the definition it replaces:

- a dropped negation in the "must enqueue" test;
- an enqueue on every call;
- a node created with two references;
- a wakeup test against the wrong marker;
- a `dequeue_node` that never pushes the end marker;
- a blind store for the acquire CAS;
- no overflow guard;
- no decrement of the waiter count on timeout;
- an off-by-one in the buffer-full test;
- an `update` that tests for effective readiness before storing the new interest (for ReadinessDelivered);
- an elapsed-time check also made for a wait with no timeout (for GateRefinement);
- a `release_node` that frees when `fetch_sub` returns 2 (for RefCount's NoUseAfterFree).

- an `enqueue_node` that does not clear the node's `next` before the swap (for FifoLiveRefinement).

TLC finds the property violated under each run's own cfg.

## 4. Bounds and why they are enough

**ReadinessQueue:**

- rq_sleep has one node and two setters: with one node, no drain can end Inconsistent behind a node that is still the tail, so the run shows the wakeup handshake (swap, link, wake against `prepare_for_sleep` and select) works in every other interleaving. rq_tail adds the second node.
- Two nodes give a queue with two real nodes plus both markers. That is enough for a node to sit behind another, for the end marker to be pushed behind a node, and for the Inconsistent window.
- rq_nb has two setters, so two `set_readiness` calls race on one node. A `SetReadiness` may be cloned once there (`MaxClones = 1`), so a node can have four owners. The other runs have `MaxClones = 0`.
- One readiness flag: interest and readiness are each empty or full, which is all the code tests (`is_some` / `is_none`).
- Three `PollOpt` values: edge, level, edge + oneshot.
- Tokens {0, 1, 2} cover the initial slot values 0 and 1 and a fresh token. Registrations start with token 0.
- `Cap = 1`: the drain stops at a full buffer while nodes remain.
- `MaxOps` bounds producer calls: 2 in the two-node runs (the reachable graph grows fast), 3 for liveness, 4 in the one-node sleep and stress runs.
- rq_stress uses two flags (readable, writable) and edge registrations, as the stress test does. The interest then differs from the readiness in ways one flag cannot show: an `update` to a new interest makes an old readiness effective, and the event must report it. Four calls are enough for a set, an update, a set and an update.

**PollGate:**

- Three threads with `Width = 2` reach the overflow guard: one holder plus one waiter is `usize::MAX`.
- The stranded-waiter scenario needs only two threads.

**RefCount:** `Width` stands for the 64 bits of `usize`, as in the gate, so the saturation test is reachable. Four bits with six clones take the count from 3 past `MAX_REFCOUNT` (7) without wrapping. Three bits with six clones are enough to wrap. Two threads are enough: the test is on a local value, so concurrent clones differ from sequential ones only in which panic is whose.

**Symmetry** over nodes and threads is used in safety runs only.

## 5. Fairness

- Producer threads run each call to its end: weak fairness (WF) of each thread's in-call steps.
- The event loop calls `poll` again and again: WF of the consumer.
- The drop of a `Registration` completes: WF of `ReleaseRegistration`.
- Starting a call and dropping a handle are the application's choice and are not fair.
- In the gate:
  - the mutex is acquired under strong fairness (SF), as a waiting thread keeps trying;
  - spurious wakeups are never assumed.

## 6. Not modelled

- The selector and the awakener internals (in `sys`, not in this repository).
- Kernel events in `Events`.
- `Poll::register`, `reregister`, `deregister` and `validate_args` (delegation and argument checks).
- The composition of `PollGate` with `ReadinessQueue`. The two share only:
  - the single-consumer assumption, which `MutualExclusion` discharges: one thread at a time is in poll2, so the consumer of `ReadinessQueue` is one sequential process;
  - the timeout passed on to poll2, which `ReadinessQueue` already takes from every value.
  
  A product model would check nothing that the two separate models do not.
- Several `Poll` instances (the "another instance of Poll" error of `update`).
- `Events` accessors (`get`, `len`, `is_empty`, `iter`) and the value `poll2` returns (`events.len()`). They only read the buffer, whose changes (capacity, push, clear) are modelled.
- Memory orderings: the model is sequentially consistent.
- Of the test file `src/test/test_custom_evented.rs`: the threads, channels and loop counters. The stress test is the scenario of rq_stress, with its final assertion as `ReadinessDelivered`. `drop_registration_from_non_main_thread` is the scenario of the drop runs. `smoke` is one call sequence of the other runs.
- No property is about the update discarded when `update_lock` is held (poll.rs:802). The action models it, but the code documents it as intended, and the caller coordinates concurrent updates.

## 7. Plan for later work

1. Variants of the code with each finding fixed, to show the corresponding property then holds:
   - reload `curr` after the wait, and notify under the mutex;
   - enqueue on drop;
   - write `TOKEN_RD_SHIFT`;
   - make `prepare_for_sleep` check before it stores;
   - in `prepare_for_sleep`, move `tail` only when it is the end marker.
