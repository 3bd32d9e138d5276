SPECIFICATION Spec
CONSTANTS
    Filters <- MCFilters
    Requests <- MCRequests
    Characters <- MCCharacters
    Star = "*"
    Question = "?"
    Space = " "
    Bearer = "B"
INVARIANTS
    DecisionIsTheCallers
    SearchFindsCaller
CHECK_DEADLOCK FALSE
