CONSTANTS
    Parses = {P1}
    Files <- MCEndToEnd
    ChildLimit = 2
    Latin1 <- MCLatin1
    NoLimit = NoLimit
    None = None
    ReadMayFail = TRUE
    CallbackMayThrow = TRUE
SPECIFICATION Spec
INVARIANTS
    CallbackOnce
CHECK_DEADLOCK FALSE
