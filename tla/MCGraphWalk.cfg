SPECIFICATION FairSpec
CONSTANTS
    Nodes <- FourNodes
    None = None
    MaxEdges = 2
    MaxTotal = 4
    Targets <- SomeNodes
    Roots = {4}
    MaxOutputs = 2
INVARIANTS
    ParentsAreNewer
    DependenciesAreRight
    NothingIsPruned
    ExecInfoIsRight
PROPERTIES
    WalkEnds
