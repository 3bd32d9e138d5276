SPECIFICATION Spec
CONSTANTS
    Chars <- MCChars
    FoldClass <- MCFold
    Mark = "."
    Patterns <- MCPatterns
    Texts <- MCTexts
    MinPattern = 2
    MinText = 5
INVARIANTS
    TypeOK
    FailureIsLongest
    StateIsLongest
PROPERTIES
    ImplementsLeftmost
    Terminates
CHECK_DEADLOCK FALSE
