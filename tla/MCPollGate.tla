---------------------------- MODULE MCPollGate ----------------------------
(***************************************************************************)
(* Model-checking instance of PollGate.                                    *)
(***************************************************************************)
EXTENDS PollGate, TLC

\* Poller threads are interchangeable.
MCSymmetry == Permutations(Pollers)

=============================================================================
