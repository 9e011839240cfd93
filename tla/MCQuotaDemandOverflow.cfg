CONSTANTS
    IntWidth = 6
    Int64Width = 6
    FloatPrecision = 3
    SaturatingConversion = FALSE
    TreeList <- MCTreeList
    LabelKeys <- MCLabelKeys
    TypeKeywords <- MCTypeKeywords
    CpuValues <- MCFloats
    MemValues <- MCFloats
    GpuValues <- MCGpus
    TypeLists <- MCSingleTypeLists
SPECIFICATION Spec
INVARIANTS DemandClamped
