CONSTANTS
    Parses = {P1}
    Files <- MCFiles
    ChildLimit = 2
    Latin1 <- MCLatin1
    NoLimit = NoLimit
    None = None
    ReadMayFail = TRUE
    CallbackMayThrow = FALSE
SPECIFICATION Spec
INVARIANTS
    TypeOK
    NestedFrames
PROPERTIES
    EventuallyAnswered
    ImplementsMpegSpec
CHECK_DEADLOCK FALSE
