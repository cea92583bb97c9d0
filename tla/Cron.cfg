SPECIFICATION MCSpec
CONSTANTS
    j1 = j1
    j2 = j2
    Procs = {p1, p2}
    Nobody = Nobody
    Jobs = {j1, j2}
    NoJob = NoJob
    OneShot = {j2}
    Blank = {}
    Schedule <- MCSchedule
    MaxJobs = 2
    MaxMinute = 1
INVARIANTS
    TypeOK
    ClaimsAccounted
    ReceiptsTruthful
PROPERTIES
    DeliveriesSound
    ImplementsLedger
    ClaimsSettle
CHECK_DEADLOCK FALSE
