\* An ID3v2 tag without padding: after its last frame the frame loop
\* reads a name past the end of the tag.
CONSTANTS
    None = None
    NoLimit = NoLimit
    ReadMayFail = FALSE
    Files <- MCFilesUnpadded
SPECIFICATION Spec
CHECK_DEADLOCK FALSE
PROPERTY
    Answered
