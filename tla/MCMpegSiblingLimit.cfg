CONSTANTS
    Parses = {P1}
    Files <- MCSiblings
    ChildLimit = 2
    Latin1 <- MCLatin1
    NoLimit = NoLimit
    None = None
    ReadMayFail = FALSE
    CallbackMayThrow = FALSE
SPECIFICATION Spec
PROPERTIES
    ImplementsSpecSiblingLimit
CHECK_DEADLOCK FALSE
