CONSTANTS
    IntWidth = 6
    Int64Width = 8
    FloatPrecision = 3
    SaturatingConversion = TRUE
    TreeList <- MCTreeList
    LabelKeys <- MCLabelKeys
    TypeKeywords <- MCTypeKeywords
    CpuValues <- MCFloats
    MemValues <- MCFloats
    GpuValues <- MCGpus
    TypeLists <- MCSingleTypeLists
SPECIFICATION Spec
INVARIANTS TypeOK DesignationNamesMissing DemandClamped
