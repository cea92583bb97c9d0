SPECIFICATION WorktreeSpec
CONSTANTS
    Owners = {o1, o2}
    MaxCheckouts = 2
    MaxCommits = 1
    MaxDisturbances = 0
PROPERTY OwnCheckouts
CHECK_DEADLOCK FALSE
