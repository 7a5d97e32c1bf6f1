CONSTANTS
    TileIds = {1, 2, 3}
    Contents = {1, 2, 3}
    AppIds = {"x", "y", "z"}
    NoTile = NoTile
    Page = Page
    None = None
    NaN = NaN
    MinColCount = 2
    MaxColCount = 4
    MinTileWidth = 122
    SpacingDen = 8
    Widths = {500, 600}
    Heights = {1}
    Cols <- MCCols
    Rows = {0, 1, 2}
    MaxRemovals = 1
SPECIFICATION Spec
INVARIANTS AtMostOneTabStop IndicatorMatchesDrop
PROPERTIES FinishedDragsSettle
