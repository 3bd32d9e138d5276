SPECIFICATION Spec
CONSTANTS
    Chars <- MCChars
    FoldClass <- MCFold
    RuleLists <- MCRuleLists
    Texts <- MCTexts
    FirstRule = 3
INVARIANTS
    LinksAreLongest
    MinRuleIsLeast
    ScanIsLongest
    MatchIsLeast
PROPERTY Terminates
CHECK_DEADLOCK FALSE
