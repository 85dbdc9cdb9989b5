\* The stress test of test_custom_evented.rs: a thread calling
\* set_readiness with readable, writable, both or none, the event loop
\* updating the interest between readable and writable and polling with a
\* zero timeout; edge-triggered registrations.
CONSTANTS
    Nodes = {n1}
    Setters = {s1}
    Updaters = {u1}
    EndM = EndM
    SleepM = SleepM
    Nil = Nil
    Flags <- MCStressFlags
    Opts <- MCStressOpts
    Tokens <- MCTokens
    RegTokens = {0}
    Timeouts = {"zero"}
    Cap = 1
    MaxOps = 4
    MaxClones = 0
SPECIFICATION Spec
PROPERTY ReadinessDelivered
