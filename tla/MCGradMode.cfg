SPECIFICATION Spec
CONSTANTS
    Goroutines = {g1, g2}
    OSThreads = {t1, t2, t3}
    None = None
    Locked = {g1}
    MaxNesting = 2
INVARIANTS
    LockedIsOffInside
    LockedIsRestored
