\* Section 8 property 3: the event carries the latest published token.
CONSTANTS
    Nodes = {n1}
    Setters = {s1}
    Updaters = {u1, u2}
    EndM = EndM
    SleepM = SleepM
    Nil = Nil
    Flags <- MCFlags
    Opts <- MCOpts
    Tokens <- MCTokens
    RegTokens = {0}
    Timeouts = {"zero"}
    Cap = 1
    MaxOps = 4
    MaxClones = 0
SPECIFICATION Spec
INVARIANT TokenFreshness
