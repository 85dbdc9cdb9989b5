\* Two threads and a 4-bit ref_count (MAX_REFCOUNT = 7): six clones take
\* the count from 3 past MAX_REFCOUNT, so the saturation test panics, but
\* not around the word.  A program whose handles are all dropped stops.
CONSTANTS
    Threads = {m, t1}
    Main = m
    Width = 4
    MaxOps = 6
SPECIFICATION Spec
INVARIANT NoUseAfterFree
CHECK_DEADLOCK FALSE
