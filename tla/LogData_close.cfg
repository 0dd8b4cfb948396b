SPECIFICATION FairSpec
CONSTANTS
    None = None
    Codecs = {utf8, utf16}
    Detected = utf8
    Locale = utf8
    Latin1 = utf8
    DefaultEncoding = None
    Detections = {"full"}
    ChangeKinds = {"append"}
    KeepFileClosed = FALSE
    MaxBlocks = 2
    MaxChanges = 0
    MaxCalls = 0
    BlockSize = 2
    Word = 8
    LF = "LF"
    MaxBytes = 5
CHECK_DEADLOCK FALSE
PROPERTIES
    CloseTerminates
