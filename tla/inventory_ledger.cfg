SPECIFICATION Spec
CONSTANTS
    Item = {i1}
    Location = {1, 2}
    Reservation = {r1}
    Request = {p1, p2}
    Asked = {"opening_balance", "issue", "adjustment_in", "transfer", "reserve", "consume", "release"}
    MaxQuantity = 1
    MaxMovements = 2
    None = None
SYMMETRY Symmetry
INVARIANTS NoLockCycle LedgerExplainsStock OpeningIsFirst
PROPERTY ImplementsLedger
