SPECIFICATION Spec
CONSTANTS
    None = None
    CPU = CPU
    NO_DEVICE = NO_DEVICE
    c1 = c1
    c2 = c2
    d1 = d1
    d2 = d2
    ga = ga
    gb = gb
    loss = loss
    left = left
    right = right
    leaf = leaf
    Nodes = {loss, left, right, leaf}
    Callers = {c1, c2}
    Devices = {d1, d2}
    PoolThreads = {}
    GraphTasks = {ga, gb}
    NextEdges <- MCNextEdges
    TopologicalNr <- MCTopologicalNr
    NodeDevice <- MCNodeDevice
    SequenceNr <- MCSequenceNr
    Root <- MCRoot
    Outputs <- MCOutputs
    AccumulateGrad <- MCAccumulateGrad
    KeepGraph <- MCKeepGraph
    TopLevel <- MCTopLevel
    Reenters <- MCReenters
    MayThrow <- MCMayThrow
    Saves = {}
    QueuesCallback <- MCQueuesCallback
    MaxCallbacks = 2
    MaxDepth = 1
    MultithreadingEnabled = TRUE
    MayStop = FALSE
INVARIANTS
    OutstandingIsExact
    EveryInputArrived
    ValueMeansAllDone
    OwnerIsWoken
    FutureHasOneWriter
PROPERTIES
    FutureWrittenOnce
    KeepsPromise
