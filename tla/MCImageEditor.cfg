CONSTANTS
    Sources <- MCSources
    Rotations <- MCRotations
    Images <- MCImages
    MaxPixels <- MCMaxPixels
    Weights <- MCWeights
    DstFill = 0
SPECIFICATION Spec
CHECK_DEADLOCK FALSE
INVARIANTS TypeOK RectClampNearest RectPredicatesMatchPixels StretchReachesEnds InteriorColoursMatchWhole StripsTileImage
PROPERTIES CancelSilences LoadFinishes FilterFinishes
