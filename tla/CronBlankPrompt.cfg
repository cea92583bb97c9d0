SPECIFICATION FairSpec
CONSTANTS
    j1 = j1
    j2 = j2
    Procs = {p1}
    Nobody = Nobody
    Jobs = {j2}
    NoJob = NoJob
    OneShot = {j2}
    Blank = {j2}
    Schedule <- MCOneShotSchedule
    MaxJobs = 1
    MaxMinute = 2
PROPERTIES
    OneShotAutoDeletes
CHECK_DEADLOCK FALSE
