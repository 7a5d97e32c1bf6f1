CONSTANTS
    THUMBNAIL_COUNT = 2
    TileIds <- MCTileIds
    Urls = {"a", "b", "c"}
    Ranking <- MCRanking
    Pinned = {"a"}
    NoTile = NoTile
    Page = Page
    None = None
    NaN = NaN
    Null = Null
    NoData = NoData
    NoNotif = NoNotif
    NoUrl = NoUrl
    MinColCount = 2
    MaxColCount = 4
    MinTileWidth = 122
    SpacingDen = 8
    Width = 600
    Height = 1
    MaxQueue = 3
SPECIFICATION Spec
INVARIANTS QuietHidesBlacklisted
PROPERTIES RefreshDataSound RemovedPageLeaves
