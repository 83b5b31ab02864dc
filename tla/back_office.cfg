\* Deadlock is not checked: once everything is cancelled, voided or converted a part stops.
SPECIFICATION BackOfficeSpec
CONSTANTS
    Request = {p1, p2}
    None = None
    Line = {1, 2}
    StockLine = {1, 2}
    MaxOrdered = 1
    MaxReceived = 2
    Twin = {x1, x2}
    Ordered <- OrderedAlike
    Receipt = {x1, x2}
    MaxMoved = 2
    Bill = {x1, x2}
    SupplierPayment = {n1, n2}
    DebitNote = {d1}
    Supplier = supplier
    MaxQuantity = 1
    MaxPrice = 1
    Return = {x1, x2}
    ReceiptLine = {l1}
    ReceivedAs <- ReceivedAlike
    MaxStock = 3
    Requisition = {r1}
    Order = {x1, x2}
    Position = {0, 1}
    MaxCost = 1
    Quote = {q1}
    QuotedWork = {x1, x2}
    QuoteLine = {l1, l2}
    MaxQuoted = 2
    LastDay = 2
    WorkOrder = {w1}
    ChecklistItem = {i1}
    Job = {x1, x2}
    Resource = {s1}
    Asset = {}
    Start = {0}
    End = {1}
    Requirement = {m1}
    MaxRequired = 3
    MaxSupply = 3
    User = {u1, u2, u3}
    Founder = u1
    Expense = {e1}
    MaxSpent = 2
    Item = {x1, x2}
    MaxPosition = 2
    Entry = {x1, x2}
    Identifier = {c1}
    Document = {d1}
    MaxVersions = 2
    LastAlert = 2
VIEW Moving
SYMMETRY Symmetry
INVARIANTS
    BackOfficeTypeOK
    SerialPostingIsComplete NoPhantomReceipt NothingOverspent MatchedIsReceived
    ReturnsStayWithin ConvertedOnce ActivitiesTellQuote CompletionHolds
    VettedBookingsDisjoint OwnerStays PositionsApart EntriesKnownApart NotifiedOnce
PROPERTIES
    SubmittedTermsStay SentTermsStay ApprovalStands AllowanceTermsStay
    ReviewedTermsStay DocumentsHold
CHECK_DEADLOCK FALSE
