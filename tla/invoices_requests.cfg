\* Deadlock is not checked: once its invoices are void nothing is left to do.
SPECIFICATION Spec
CONSTANTS
    Invoice = {v1, v2}
    Busy = {v1}
    Payment = {n1, n2}
    Expense = {e1}
    Manual = {m1}
    Closeout = closeout
    Request = {p1, p2}
    MaxAmount = 1
    MaxCrossed = 1
    None = None
SYMMETRY Symmetry
INVARIANTS TypeOK RowsAgree ChargedOnce
PROPERTIES NeverDraftAgain IssuedTermsStay
CHECK_DEADLOCK FALSE
