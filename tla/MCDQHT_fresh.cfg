SPECIFICATION Spec
CONSTANTS
    Keys = {k1, k2, k3, k4}
    Values = {v1, v2}
    Hash <- Colliding
    InitSize = 1
    MaxSize = 8
    MaxNodes = 3
    NULL = NULL
    FreshOnly = TRUE
INVARIANTS IndexExact CountExact ListExact
PROPERTY ImplementsDequeMap
SYMMETRY AllSymmetry
