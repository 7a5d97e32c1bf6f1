CONSTANTS
    Sources <- MCSources
    Rotations <- MCRotations
    Images <- MCSmallImages
    MaxPixels <- MCMaxPixels
    Weights <- MCWeights
    DstFill = 0
SPECIFICATION Spec
CHECK_DEADLOCK FALSE
PROPERTY FilterFinishes
