SPECIFICATION FairSpec
CONSTANTS
    None = None
    CPU = CPU
    NO_DEVICE = NO_DEVICE
    c1 = c1
    d1 = d1
    p1 = p1
    g0 = g0
    g1 = g1
    a = a
    b = b
    x = x
    Nodes = {a, b, x}
    Callers = {c1}
    Devices = {d1}
    PoolThreads = {p1}
    GraphTasks = {g0, g1}
    NextEdges <- MCNextEdges
    TopologicalNr <- MCTopologicalNr
    NodeDevice <- MCNodeDevice
    SequenceNr <- MCSequenceNr
    Root <- MCRoot
    Outputs <- MCOutputs
    AccumulateGrad <- MCAccumulateGrad
    KeepGraph <- MCKeepGraph
    TopLevel <- MCTopLevel
    Reenters <- MCReenters
    MayThrow = {}
    Saves = {}
    QueuesCallback = {}
    MaxCallbacks = 0
    MaxDepth = 0
    MultithreadingEnabled = TRUE
    MayStop = FALSE
PROPERTY EveryCallReturns
CHECK_DEADLOCK FALSE
