---------------------------- MODULE ReadinessFifo ----------------------------
(***************************************************************************)
(* What the readiness queue of src/src/poll.rs promises its one consumer,  *)
(* stated without pointers, markers or the two-step enqueue: a FIFO of     *)
(* readiness nodes in which a node appears at most once (the `queued` bit  *)
(* admits one enqueue per dequeue), and a consumer that takes the oldest   *)
(* node, works on it (possibly pushing it back) and lets go of it.         *)
(***************************************************************************)
EXTENDS Sequences, SequencesExt

CONSTANTS
    Nodes,  \* readiness nodes
    Nil     \* no node

VARIABLES
    fifo,   \* the nodes enqueued and not yet dequeued, oldest first
    held    \* the node the consumer has dequeued and is processing, or Nil

vars == <<fifo, held>>

Init == fifo = <<>> /\ held = Nil

\* A node that is not already waiting is appended.
Push(n) ==
    /\ n \notin ToSet(fifo)
    /\ fifo' = Append(fifo, n)
    /\ UNCHANGED held

\* The consumer, between nodes, takes the oldest one.
Pop ==
    /\ held = Nil /\ fifo # <<>>
    /\ held' = Head(fifo)
    /\ fifo' = Tail(fifo)

\* The consumer is done with its node.
Finish ==
    /\ held # Nil
    /\ held' = Nil
    /\ UNCHANGED fifo

Next == (\E n \in Nodes : Push(n)) \/ Pop \/ Finish

Spec == Init /\ [][Next]_vars

\* Waiting nodes are eventually taken, and a taken node is let go of.
LiveSpec == Spec /\ WF_vars(Pop) /\ WF_vars(Finish)

=============================================================================
