SPECIFICATION Spec
CONSTANTS
    None = None
    CPU = CPU
    NO_DEVICE = NO_DEVICE
    c1 = c1
    c2 = c2
    p1 = p1
    p2 = p2
    p3 = p3
    ga = ga
    ha = ha
    ka = ka
    gb = gb
    hb = hb
    a = a
    x = x
    y = y
    Nodes = {a, x, y}
    Callers = {c1, c2}
    Devices = {}
    PoolThreads = {p1, p2, p3}
    GraphTasks = {ga, ha, ka, gb, hb}
    NextEdges <- MCNextEdges
    TopologicalNr <- MCTopologicalNr
    NodeDevice <- MCNodeDevice
    SequenceNr <- MCSequenceNr
    Root <- MCRoot
    Outputs <- MCOutputs
    AccumulateGrad <- MCAccumulateGrad
    KeepGraph <- MCKeepGraph
    TopLevel <- MCTopLevel
    Reenters <- MCReenters
    MayThrow <- MCMayThrow
    Saves = {}
    QueuesCallback = {}
    MaxCallbacks = 0
    MaxDepth = 0
    MultithreadingEnabled = TRUE
    MayStop = FALSE
INVARIANTS
    TypeOK
    WellFormed
    EnoughWorkers
