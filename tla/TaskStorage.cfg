SPECIFICATION FairSpec
CONSTANTS
    MaxId = 3
    Legacy <- LegacyTwo
    Statuses = {"pending", "completed"}
    MaxFailures = 2
INVARIANTS
    TypeOK
    ListIsSound
PROPERTIES
    ImplementsGraph
    JournalDrains
