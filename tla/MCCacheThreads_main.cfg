SPECIFICATION Spec
CONSTANTS
    Threads = {t1, t2}
    Entry = {e1}
    Tables = {"stack", "resident"}
    resident = "resident"
    Rounds = 2
    MaxMoves = 3
    SIZE_MAX = 99
    NULL = NULL
INVARIANTS CountsExact ReadersSeeOneState
PROPERTY AllEnd
CHECK_DEADLOCK FALSE
