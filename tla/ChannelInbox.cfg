SPECIFICATION FairSpec
CONSTANTS
    MaxId = 4
    Sizes <- MixedSizes
    MaxMessages = 3
    MaxBytes = 4
    MaxMessageBytes = 3
    EscapeListener = TRUE
INVARIANTS
    TypeOK
    WithinLimits
    RecordsAgree
    FirstComeFirstServed
    ClosedIsSettled
PROPERTIES
    MessagesKept
    InboxProgress
CHECK_DEADLOCK FALSE
