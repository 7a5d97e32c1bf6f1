CONSTANTS
    DropIds = {d1, d2}
    NoDrop = NoDrop
    NetLists <- MCLists
    MaxQueue = 2
    OfflineList = d1
    Screens = {"gaia-signin", "user-pods"}
    FrameErrors = {111}
    MaxRetries = 1
SPECIFICATION Spec
INVARIANT OpeningOnlyWhileOpening
