SPECIFICATION Spec
CONSTANTS
    None = None
    Codecs = {utf8, utf16}
    Detected = utf8
    Locale = utf8
    Latin1 = utf8
    DefaultEncoding = None
    Detections = {"full"}
    ChangeKinds = {"append", "rewrite", "truncate", "rotate", "touch"}
    KeepFileClosed = TRUE
    MaxBlocks = 2
    MaxChanges = 2
    MaxCalls = 1
    BlockSize = 2
    Word = 8
    LF = "LF"
    MaxBytes = 5
CHECK_DEADLOCK FALSE
INVARIANTS
    StatusMatchesOperation
    VerdictSound
