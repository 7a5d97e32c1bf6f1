CONSTANTS
    Parses = {P1, P2}
    Files <- MCTwoFiles
    ChildLimit = 2
    Latin1 <- MCLatin1
    NoLimit = NoLimit
    None = None
    ReadMayFail = FALSE
    CallbackMayThrow = FALSE
SPECIFICATION Spec
PROPERTIES
    ImplementsMpegSpec
CHECK_DEADLOCK FALSE
