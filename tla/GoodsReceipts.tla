--------------------------- MODULE GoodsReceipts ---------------------------
(***************************************************************************)
(* Goods receipts posted against one issued purchase order by concurrent   *)
(* requests.                                                               *)
(*                                                                         *)
(* Posting locks the receipt and the order, loads both with their lines,   *)
(* and then works line by line: it locks the order line, adds the accepted *)
(* quantity to what the line has received and moves it into stock.         *)
(*                                                                         *)
(* The audit record of each stock movement is created by a repository      *)
(* method that commits.  So a posting commits, and loses every lock, after *)
(* each line that moves stock, and goes on with the rows as it loaded      *)
(* them: commits do not expire them, and the query that locks an order     *)
(* line leaves a line that is already loaded as it is.                     *)
(*                                                                         *)
(* overlapped remembers that two postings overlapped, or that a receipt    *)
(* was edited while it was being posted.                                   *)
(***************************************************************************)
EXTENDS Requests, Integers, FiniteSetsExt

CONSTANTS
    Line,         \* order lines, numbered in the order they are posted
    StockLine,    \* those of an inventory item; the others move no stock
    Ordered,      \* quantity_ordered of each line
    Receipt,      \* the receipts that may ever be made
    MaxMoved      \* bound: quantity moved for one line of one receipt

ASSUME GoodsReceiptsAssumption ==
    /\ Line \subseteq Nat /\ IsFiniteSet(Line) /\ StockLine \subseteq Line
    /\ IsFiniteSet(Receipt)
    /\ Ordered \in [Line -> Nat]
    /\ MaxMoved \in Nat
    /\ None \notin Nat \cup Request

VARIABLES
    status,       \* of the purchase order
    received,     \* quantity_received of each order line
    receipt,      \* status of each receipt
    accepted,     \* quantity_accepted of its lines, None where it has no line
    moved,        \* per receipt and line: what inventory_movements say went into stock
    orderLock, receiptLock, lineLock,
    post,         \* per request: the posting it is doing, and the rows it loaded
    overlapped

rows  == <<status, received, receipt, accepted, moved>>
locks == <<orderLock, receiptLock, lineLock>>
vars  == <<rows, locks, post, overlapped>>

Receivable  == {"issued", "acknowledged", "partially_received"}
OrderStatus == Receivable \cup {"draft", "received", "closed", "cancelled"}
Lines       == [Line -> Nat \cup {None}]
Postings    == [phase : {"idle", "order", "lines"}, receipt : Receipt \cup {None},
                status : OrderStatus, received : [Line -> Nat], accepted : Lines,
                todo : SUBSET Line, dirty : SUBSET Line]

NoLines   == [l \in Line |-> None]
NoPosting == [phase |-> "idle", receipt |-> None, status |-> "draft",
              received |-> [l \in Line |-> 0], accepted |-> NoLines,
              todo |-> {}, dirty |-> {}]

TypeOK ==
    /\ status \in OrderStatus
    /\ received \in [Line -> Nat] /\ \A l \in Line : received[l] <= Ordered[l]
    /\ receipt \in [Receipt -> {"none", "draft", "posted", "cancelled"}]
    /\ accepted \in [Receipt -> Lines]
    /\ moved \in [Receipt -> [Line -> Nat]]
    /\ orderLock \in Request \cup {None}
    /\ receiptLock \in [Receipt -> Request \cup {None}]
    /\ lineLock \in [Line -> Request \cup {None}]
    /\ post \in [Request -> Postings]
    /\ overlapped \in BOOLEAN

Init ==
    /\ status = "draft"
    /\ received = [l \in Line |-> 0]
    /\ receipt = [r \in Receipt |-> "none"]
    /\ accepted = [r \in Receipt |-> NoLines]
    /\ moved = [r \in Receipt |-> [l \in Line |-> 0]]
    /\ orderLock = None
    /\ receiptLock = [r \in Receipt |-> None]
    /\ lineLock = [l \in Line |-> None]
    /\ post = [p \in Request |-> NoPosting]
    /\ overlapped = FALSE

-----------------------------------------------------------------------------
(* The purchase order.  Each operation locks the order and commits.        *)

SetOrder(from, to) ==
    /\ orderLock = None
    /\ status \in from
    /\ status' = to
    /\ UNCHANGED <<received, receipt, accepted, moved, locks, post, overlapped>>

IssueOrder       == SetOrder({"draft"}, "issued")
AcknowledgeOrder == SetOrder({"issued"}, "acknowledged")
CloseOrder       == SetOrder({"received"}, "closed")

NothingReceived == \A l \in Line : received[l] = 0

CancelOrder ==
    /\ NothingReceived
    /\ SetOrder({"draft", "issued", "acknowledged"}, "cancelled")

-----------------------------------------------------------------------------
(* Draft receipts.  Each operation locks the receipt and commits; a new    *)
(* line refers to its order line, whose lock it waits for.                 *)

Outstanding(l) == Ordered[l] - received[l]

Unlocked(r) == receiptLock[r] = None

CreateReceipt(r, lines) ==
    /\ receipt[r] = "none"
    /\ status \in Receivable /\ orderLock = None
    /\ \A l \in Line : lines[l] # None => lines[l] <= Outstanding(l) /\ lineLock[l] = None
    /\ receipt' = [receipt EXCEPT ![r] = "draft"]
    /\ accepted' = [accepted EXCEPT ![r] = lines]
    /\ UNCHANGED <<status, received, moved, locks, post, overlapped>>

SetLine(r, l, q) ==
    /\ receipt[r] = "draft" /\ Unlocked(r)
    /\ accepted' = [accepted EXCEPT ![r][l] = q]
    /\ overlapped' = (overlapped \/ \E p \in Request : post[p].receipt = r)
    /\ UNCHANGED <<status, received, receipt, moved, locks, post>>

AddLine(r, l, q) ==
    /\ accepted[r][l] = None /\ q <= Outstanding(l) /\ lineLock[l] = None
    /\ SetLine(r, l, q)

UpdateLine(r, l, q) ==
    /\ accepted[r][l] # None /\ q <= Outstanding(l)
    /\ SetLine(r, l, q)

DeleteLine(r, l) ==
    /\ accepted[r][l] # None
    /\ SetLine(r, l, None)

CancelReceipt(r) ==
    /\ receipt[r] = "draft" /\ Unlocked(r)
    /\ receipt' = [receipt EXCEPT ![r] = "cancelled"]
    /\ UNCHANGED <<status, received, accepted, moved, locks, post, overlapped>>

-----------------------------------------------------------------------------
(* Posting a receipt.                                                      *)

LockReceipt(p, r) ==
    /\ post[p].phase = "idle"
    /\ receipt[r] = "draft" /\ Unlocked(r)
    /\ receiptLock' = [receiptLock EXCEPT ![r] = p]
    /\ post' = [post EXCEPT ![p] = [NoPosting EXCEPT !.phase = "order", !.receipt = r]]
    /\ overlapped' = (overlapped \/ \E q \in Request : post[q].phase # "idle")
    /\ UNCHANGED <<rows, orderLock, lineLock>>

Present(lines) == {l \in Line : lines[l] # None}

LockOrder(p) ==
    LET lines == accepted[post[p].receipt]
    IN /\ post[p].phase = "order"
       /\ orderLock = None
       /\ status \in Receivable
       /\ Present(lines) # {}
       /\ orderLock' = p
       /\ post' = [post EXCEPT ![p].phase = "lines", ![p].status = status,
                               ![p].received = received, ![p].accepted = lines,
                               ![p].todo = Present(lines)]
       /\ UNCHANGED <<rows, receiptLock, lineLock, overlapped>>

\* The order lines as p's transaction leaves them when it commits.
Written(p) == [l \in Line |-> IF l \in post[p].dirty THEN post[p].received[l] ELSE received[l]]

Unlock(p) ==
    /\ orderLock' = IF orderLock = p THEN None ELSE orderLock
    /\ receiptLock' = [r \in Receipt |-> IF receiptLock[r] = p THEN None ELSE receiptLock[r]]
    /\ lineLock' = [l \in Line |-> IF lineLock[l] = p THEN None ELSE lineLock[l]]

\* Mutated form: nobody looks at what is outstanding.
AnyQuantity(p, l, q) == TRUE

\* Against the line as p loaded it.
Fits(p, l, q) == q <= Ordered[l] - post[p].received[l]

Turn(p, l) ==
    /\ post[p].phase = "lines"
    /\ l \in post[p].todo /\ \A m \in post[p].todo : l <= m
    /\ lineLock[l] \in {None, p}

MovesStock(l, q) == l \in StockLine /\ q > 0

\* A line that moves no stock is written when the transaction next commits.
PostLine(p, l) ==
    LET q == post[p].accepted[l]
    IN /\ Turn(p, l)
       /\ Fits(p, l, q)
       /\ ~MovesStock(l, q)
       /\ lineLock' = [lineLock EXCEPT ![l] = p]
       /\ post' = [post EXCEPT ![p].received[l] = @ + q, ![p].todo = @ \ {l},
                               ![p].dirty = IF q > 0 THEN @ \cup {l} ELSE @]
       /\ UNCHANGED <<rows, orderLock, receiptLock, overlapped>>

\* Mutated form: the movement is recorded and the order line is not.
MovementOnly(p, l, q) == received

\* Mutated form: the order line takes the quantity twice.
CountedTwice(p, l, q) == [Written(p) EXCEPT ![l] = post[p].received[l] + q + q]

Received(p, l, q) == [Written(p) EXCEPT ![l] = post[p].received[l] + q]

\* A line that moves stock commits: its receipt line must still be there to be
\* written, and not be locked by another posting of the receipt.
MoveLine(p, l) ==
    LET q == post[p].accepted[l]
        r == post[p].receipt
    IN /\ Turn(p, l)
       /\ Fits(p, l, q)
       /\ MovesStock(l, q)
       /\ receiptLock[r] \in {None, p} /\ accepted[r][l] # None
       /\ moved[r][l] + q <= MaxMoved
       /\ moved' = [moved EXCEPT ![r][l] = @ + q]
       /\ received' = Received(p, l, q)
       /\ post' = [post EXCEPT ![p].received[l] = @ + q, ![p].todo = @ \ {l}, ![p].dirty = {}]
       /\ Unlock(p)
       /\ UNCHANGED <<status, receipt, accepted, overlapped>>

\* synchronize_receipt_status, from the rows as p holds them.  An order nothing
\* was received of keeps the status it has.
Progress(p) ==
    CASE \A l \in Line : post[p].received[l] >= Ordered[l] -> "received"
      [] \E l \in Line : post[p].received[l] > 0           -> "partially_received"
      [] OTHER                                             -> post[p].status

\* The receipt is posted whatever became of it since; the order's status is
\* written only when it differs from the one loaded.
FinishPosting(p) ==
    LET r == post[p].receipt
    IN /\ post[p].phase = "lines" /\ post[p].todo = {}
       /\ receiptLock[r] \in {None, p}
       /\ Progress(p) # post[p].status => orderLock \in {None, p}
       /\ status' = IF Progress(p) # post[p].status THEN Progress(p) ELSE status
       /\ received' = Written(p)
       /\ receipt' = [receipt EXCEPT ![r] = "posted"]
       /\ post' = [post EXCEPT ![p] = NoPosting]
       /\ Unlock(p)
       /\ UNCHANGED <<accepted, moved, overlapped>>

\* A check fails, the database reports an error or a deadlock, or the process
\* dies: the open transaction is rolled back, and no more than that.
FailPosting(p) ==
    /\ post[p].phase # "idle"
    /\ post' = [post EXCEPT ![p] = NoPosting]
    /\ Unlock(p)
    /\ UNCHANGED <<rows, overlapped>>

-----------------------------------------------------------------------------
Quantity(l) == 0 .. Ordered[l]

\* Any lines with quantities to accept.
Deliveries == {d \in [Line -> (UNION {Quantity(l) : l \in Line}) \cup {None}] :
                  \A l \in Line : d[l] \in Quantity(l) \cup {None}}

ReceiptStep(r) ==
    \/ \E d \in Deliveries : CreateReceipt(r, d)
    \/ \E l \in Line : \/ \E q \in Quantity(l) : AddLine(r, l, q) \/ UpdateLine(r, l, q)
                       \/ DeleteLine(r, l)
    \/ CancelReceipt(r)

PostingStep(p) ==
    \/ \E r \in Receipt : LockReceipt(p, r)
    \/ LockOrder(p)
    \/ \E l \in Line : PostLine(p, l) \/ MoveLine(p, l)
    \/ FinishPosting(p)
    \/ FailPosting(p)

Next ==
    \/ IssueOrder \/ AcknowledgeOrder \/ CancelOrder \/ CloseOrder
    \/ \E r \in Receipt : ReceiptStep(r)
    \/ \E p \in Request : PostingStep(p)

Spec == Init /\ [][Next]_vars

-----------------------------------------------------------------------------
(* Properties.                                                             *)

Moved(l) == SumFunction([r \in Receipt |-> moved[r][l]])

\* However postings interleave, the order never claims more than went into stock; and one
\* that is cancelled received nothing, although a posting keeps no lock on it after its
\* first line.
NoPhantomReceipt ==
    /\ \A l \in StockLine : received[l] <= Moved(l)
    /\ status = "cancelled" =>
         \A l \in Line : received[l] = 0 /\ \A r \in Receipt : moved[r][l] = 0

\* The order claims exactly what went into stock.
ReceivedMatchesStock == \A l \in StockLine : received[l] = Moved(l)

\* It does unless postings overlapped, however they failed after some of their lines
\* and were tried again; and then a posted receipt is in stock, and an order that counts
\* as received is complete.
SerialPostingIsComplete ==
    ~overlapped =>
        /\ ReceivedMatchesStock
        /\ \A r \in Receipt : receipt[r] = "posted" =>
             \A l \in StockLine : accepted[r][l] # None => moved[r][l] >= accepted[r][l]
        /\ status \in {"received", "closed"} => \A l \in Line : received[l] = Ordered[l]

\* "commit or roll back as one transaction": a receipt that nobody is posting and
\* that is not posted has moved no stock.
UnpostedMovesNothing ==
    \A r \in Receipt :
        (receipt[r] # "posted" /\ \A p \in Request : post[p].receipt # r) =>
            \A l \in Line : moved[r][l] = 0
=============================================================================
