SPECIFICATION FairSpec
CONSTANTS
    MaxId = 1
    Sizes <- OneSize
    MaxMessages = 1
    MaxBytes = 1
    MaxMessageBytes = 1
    EscapeListener = TRUE
PROPERTIES ShutdownEnds
CHECK_DEADLOCK FALSE
