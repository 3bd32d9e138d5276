SPECIFICATION Spec
CONSTANTS
    Platforms <- MCPlatforms
    Builds = {"b1", "b2"}
    OldBuild = "b0"
    MaxRuns = 2
    MaxFaults = 3
INVARIANTS
    NothingLost
    SuccessIsRelease
PROPERTY
    AggregateIsLast
CHECK_DEADLOCK FALSE
