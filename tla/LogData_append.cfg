SPECIFICATION FairSpec
CONSTANTS
    None = None
    Codecs = {utf8, utf16}
    Detected = utf8
    Locale = utf8
    Latin1 = utf8
    DefaultEncoding = None
    Detections = {"full", "fast"}
    ChangeKinds = {"append", "touch"}
    KeepFileClosed = FALSE
    MaxBlocks = 2
    MaxChanges = 2
    MaxCalls = 2
    BlockSize = 2
    Word = 8
    LF = "LF"
    MaxBytes = 5
CHECK_DEADLOCK FALSE
INVARIANTS
    OneOperation
    ReadersBalanced
    FollowsFile
PROPERTIES
    ChangesSettle
