SPECIFICATION Spec
CONSTANTS
    Item = {i1}
    Location = {1}
    Reservation = {r1, r2}
    Request = {p1, p2}
    Asked = {"receipt", "return", "adjustment_out", "reserve", "consume", "release"}
    MaxQuantity = 2
    MaxMovements = 3
    None = None
SYMMETRY Symmetry
INVARIANTS TypeOK IssuesMatchConsumption ReservedIsOnHand ReservedByReservations
