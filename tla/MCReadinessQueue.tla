------------------------- MODULE MCReadinessQueue -------------------------
(***************************************************************************)
(* Model-checking instance of ReadinessQueue: the constants of the .cfg    *)
(* files that are not model values.                                        *)
(***************************************************************************)
EXTENDS ReadinessQueue

\* One readiness flag: readable.  Two flags only multiply the states; the
\* code treats the readiness bits uniformly.
MCFlags == {"r"}

\* Edge, level and edge|oneshot registrations (PollOpt values).
MCOpts == {{"edge"}, {"level"}, {"edge", "oneshot"}}

\* Token(0) and Token(1) fill the unused slots at creation; 2 is a third
\* value so that an update can change the token twice.
MCTokens == {0, 1, 2}

\* The stress test of test_custom_evented.rs: readable and writable
\* readiness, edge-triggered registrations.
MCStressFlags == {"r", "w"}
MCStressOpts == {{"edge"}}

\* Node model values are interchangeable: no definition depends on which
\* node is which.
MCSymmetry == Permutations(Nodes)

=============================================================================
