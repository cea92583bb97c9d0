SPECIFICATION CheckpointSpec
CONSTANTS
    Files = {f, g}
    MaxTurns = 3
    MaxPrompts = 3
    MaxWrites = 3
    MaxSnapshots = 2
INVARIANT RewindMatchesPrompts
CHECK_DEADLOCK FALSE
