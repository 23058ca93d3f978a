SPECIFICATION Spec
CONSTANTS
    m1 = m1
    m2 = m2
    w1 = w1
    w2 = w2
    j1 = j1
    j2 = j2
    j3 = j3
    j4 = j4
    j5 = j5
    l1 = l1
    l2 = l2
    l3 = l3
    l4 = l4
    p1 = p1
    p2 = p2
    c = c
    a = a
    Mains <- MCMains
    Workers <- MCWorkers
    Futures <- MCFutures
    Kind <- MCKind
    Sources <- MCSources
    Jobs <- MCJobs
    Size <- MCSize
    Grain <- MCGrain
    Body <- MCBody
    MayThrow <- MCMayThrow
    Programs <- MCPrograms
INVARIANTS
    EveryIndexOnce
    CompleteIsExact
    CollectAllIsRight
PROPERTIES
    EveryCallReturns
CHECK_DEADLOCK FALSE
