SPECIFICATION Spec
CONSTANTS
    InitialLR = 4096
    StepSize = 2
    TMax = 3
    Cosine <- ThirdsOfPi
    EtaMin = 1024
    Patience = 2
    MinLR = 1536
    TotalIters = 3
    Metrics <- Measured
    Inf = Inf
    MaxCalls = 7
    Together <- Pairs
    Gamma <- Half
    Factor <- Half
    StartFactor <- Quarter
    EndFactor <- One
INVARIANTS
    ReductionsMultiply
    StagnationIsNoticed
    ReducesAfterPatience
PROPERTY CosineTurnsOnlyAtTheEnds
CHECK_DEADLOCK FALSE
