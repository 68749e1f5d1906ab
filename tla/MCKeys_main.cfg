SPECIFICATION Spec
CONSTANTS
    Term <- MCTerm
    Length <- MCLength
    NULL = NULL
INVARIANTS ReadsBack HashAgrees MatchSound MatchComplete
CHECK_DEADLOCK FALSE
