\* An ID3v2.3 tag with FLAG_EXTENDED_HEADER set and an extended header.
CONSTANTS
    None = None
    NoLimit = NoLimit
    ReadMayFail = FALSE
    Files <- MCFilesExtended
SPECIFICATION Spec
CHECK_DEADLOCK FALSE
INVARIANT
    DecodesTag
