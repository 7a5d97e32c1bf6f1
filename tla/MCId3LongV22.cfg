\* An ID3v2.2 tag with a frame of 256 bytes or more.
CONSTANTS
    None = None
    NoLimit = NoLimit
    ReadMayFail = FALSE
    Files <- MCFilesLongV22
SPECIFICATION Spec
CHECK_DEADLOCK FALSE
PROPERTY
    Answered
