\* An ID3v2.2 tag whose PIC frame follows another frame.
CONSTANTS
    None = None
    NoLimit = NoLimit
    ReadMayFail = FALSE
    Files <- MCFilesPic
SPECIFICATION Spec
CHECK_DEADLOCK FALSE
PROPERTY
    Answered
