SPECIFICATION GlobSpec
CONSTANTS
    Chars = {"a", "b"}
    Star = "*"
    Question = "?"
    Patterns <- MCPatterns
    Values <- MCValues
    WordBits = 2
INVARIANTS
    ActiveIsAligned
    DecidesGlob
CHECK_DEADLOCK FALSE
