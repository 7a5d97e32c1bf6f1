CONSTANTS
    None = None
    Terms = {"", "a"}
    Results <- MCResults
    RESULTS_PER_PAGE = 1
    MAX_SEARCH_DEPTH_MONTHS = 2
    Today = 2
    InitialHashes <- MCInitialHashes
    PageNumbers = {0, 1, 2}
    MaxClicks = 3
    MaxDeleteFailures = 1
SPECIFICATION Spec
CHECK_DEADLOCK FALSE
PROPERTY NoOverFetch
