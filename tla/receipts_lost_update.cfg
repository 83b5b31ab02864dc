SPECIFICATION Spec
CONSTANTS
    Line = {1, 2}
    StockLine = {1, 2}
    MaxOrdered = 2
    Receipt = {r1, r2}
    Request = {p1, p2}
    MaxMoved = 2
    Ordered <- OrderedAlike
    None = None
SYMMETRY Symmetry
CHECK_DEADLOCK FALSE
INVARIANTS ReceivedMatchesStock
