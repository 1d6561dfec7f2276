SPECIFICATION CommandSpec
CONSTANTS
    Values = {"a"}
    Configs <- Files
    Profiles <- NoProfile
    MaxArguments = 3
INVARIANT FlagsOverrideConfig
CHECK_DEADLOCK FALSE
