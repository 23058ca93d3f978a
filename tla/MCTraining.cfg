SPECIFICATION Spec
CONSTANTS
    Sizes = {0, 1, 3, 6}
    BatchSizes = {1, 2, 7}
    Setups <- MCSetups
    LayerKind <- MCKind
    LayerParams <- MCParams
    Source <- MCSource
    Base <- MCBase
    MaxUnderWay = 2
    MaxPasses = 3
INVARIANTS
    EpochIsRight
    TrainedOnce
    GradientsAreSeparate
