SPECIFICATION Spec
CONSTANTS
    None = None
    Threads = {t1, t2, t3}
    Refs = {r1, r2, r3, r4}
SYMMETRY Symmetric
INVARIANTS
    CountsAreExact
    NoUseAfterFree
    NothingLeaks
