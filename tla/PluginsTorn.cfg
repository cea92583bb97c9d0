SPECIFICATION PluginSpec
CONSTANTS
    MaxVersions = 2
    MaxFaults = 1
INVARIANT ReplacedAtOnce
CHECK_DEADLOCK FALSE
