\* The parse of well-formed files: tags of ID3v2.2, 2.3 and 2.4 with
\* padding, an ID3v1 tail, a file without tags; reads may fail.  A parse
\* ends when both sequences have no read outstanding.
CONSTANTS
    None = None
    NoLimit = NoLimit
    ReadMayFail = TRUE
    Files <- MCFiles
SPECIFICATION Spec
CHECK_DEADLOCK FALSE
INVARIANTS
    TypeOK
    NoStepThrows
    DecodesTag
PROPERTY
    Answered
