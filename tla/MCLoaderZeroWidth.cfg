CONSTANTS
    Sources <- MCZeroSources
    Rotations <- MCRotations
    Images <- MCImages
    MaxPixels <- MCMaxPixels
    Weights <- MCWeights
    DstFill = 0
SPECIFICATION Spec
CHECK_DEADLOCK FALSE
PROPERTY LoadFinishes
