SPECIFICATION Spec
CONSTANTS
    Goroutines = {g1, g2}
    OSThreads = {t1, t2, t3}
    None = None
    Locked = {}
    MaxNesting = 2
INVARIANT AlwaysOffInside
