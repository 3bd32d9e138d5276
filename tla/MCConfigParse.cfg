SPECIFICATION Spec
CONSTANTS
    Documents <- MCDocuments
    FoldClass <- MCFoldClass
    Texts <- MCTexts
    DefaultMark = "w"
    PrefixRules = 1
    MatcherMinRules = 2
    PreflightMinRules = 2
    MinPattern = 2
INVARIANTS
    OrderMeansNothing
    CompiledAsDeclared
CHECK_DEADLOCK FALSE
