\* A 3-bit ref_count (MAX_REFCOUNT = 3) and six clones: enough panicking
\* clones, each leaving its increment, to wrap the word.
CONSTANTS
    Threads = {m, t1}
    Main = m
    Width = 3
    MaxOps = 6
SPECIFICATION Spec
INVARIANT NoUseAfterFree
CHECK_DEADLOCK FALSE
