SPECIFICATION Spec
CONSTANTS
    FoldClass <- MCFold
    Mark = "z"
    Configs <- MCConfigs
    Bodies <- MCBodies
    Overhead = 2
    PrefixRules = 1
    MatcherMinRules = 2
    MatcherMinText = 4
    PreflightMinRules = 2
    PreflightMinText = 2
INVARIANTS
    BlockIsFirst
    ChangedIsDifferent
    ForwardedIsFiltered
    ForwardedIsValid
    RefusalHasCause
CHECK_DEADLOCK FALSE
