-------------------------- MODULE SupplierAccounts --------------------------
(***************************************************************************)
(* What is owed to one supplier for one order: its bills, matched against  *)
(* what was received; payments allocated to them; debit notes and the      *)
(* credit payments that settle bills with them.                            *)
(*                                                                         *)
(* Nothing is stored of what a bill or a note has left: a request that     *)
(* spends either locks rows, sums the posted payments, and writes.  These  *)
(* are three steps here; an operation that reads and writes only rows it   *)
(* has locked is one.                                                      *)
(***************************************************************************)
EXTENDS Requests, Integers, FiniteSetsExt

CONSTANTS
    Bill, SupplierPayment, DebitNote,  \* those that may ever be made
    Supplier,       \* the supplier's own row
    MaxQuantity,    \* bound: quantities delivered and billed
    MaxPrice        \* bound: unit prices; the order's is 1

ASSUME SupplierAccountsAssumption ==
    /\ MaxQuantity \in Nat \ {0} /\ MaxPrice \in Nat \ {0}
    /\ None \notin Request \cup DebitNote \cup Nat
    /\ IsFiniteSet(SupplierPayment) /\ IsFiniteSet(Bill)

VARIABLES
    orderStatus,     \* of the purchase order: "draft", "issued" (or later), "cancelled"
    delivered,       \* accepted quantity of its posted goods receipts
    bill,            \* supplier_bills, each with its line for the order
    supplierPayment, \* supplier_payments, with their allocations and settlement
    note,            \* supplier_debit_notes: status and total
    accountLock,     \* rows locked FOR UPDATE between the steps of a request
    spend            \* per request: what it is spending

accounts     == <<bill, supplierPayment, note>>
accountsVars == <<orderStatus, delivered, accounts, accountLock, spend>>

Row == Bill \cup SupplierPayment \cup DebitNote \cup {Supplier}

Bills == [status : {"none", "draft", "submitted", "matched", "exception", "approved", "voided"},
          match_status : {"not_run", "matched", "exception"},
          quantity : Nat, price : Nat, allowed : Nat]
SupplierPayments == [status : {"none", "posted", "reversed"}, allocations : [Bill -> Nat],
                     note : DebitNote \cup {None}, position : Nat \cup {None}]
Notes == [status : {"none", "draft", "issued", "acknowledged", "voided"}, total : Nat]
Spends == [phase : {"idle", "locked", "checked"},
           operation : {"none", "record_payment", "settle_debit_note", "void_bill", "void_note"},
           row : Row \cup {None}, payment : SupplierPayment \cup {None}, allocations : [Bill -> Nat]]

NoBill  == [status |-> "none", match_status |-> "not_run", quantity |-> 0, price |-> 0, allowed |-> 0]
Nothing == [b \in Bill |-> 0]
NoSupplierPayment == [status |-> "none", allocations |-> Nothing, note |-> None, position |-> None]
NoNote  == [status |-> "none", total |-> 0]
NoSpend == [phase |-> "idle", operation |-> "none", row |-> None, payment |-> None,
            allocations |-> Nothing]

AccountsTypeOK ==
    /\ orderStatus \in {"draft", "issued", "cancelled"}
    /\ delivered \in Nat
    /\ bill \in [Bill -> Bills]
    /\ supplierPayment \in [SupplierPayment -> SupplierPayments]
    /\ note \in [DebitNote -> Notes]
    /\ accountLock \in [Row -> Request \cup {None}]
    /\ spend \in [Request -> Spends]

AccountsInit ==
    /\ orderStatus = "draft"
    /\ delivered = 0
    /\ bill = [b \in Bill |-> NoBill]
    /\ supplierPayment = [n \in SupplierPayment |-> NoSupplierPayment]
    /\ note = [d \in DebitNote |-> NoNote]
    /\ accountLock = [r \in Row |-> None]
    /\ spend = [p \in Request |-> NoSpend]

Free(r) == accountLock[r] = None

-----------------------------------------------------------------------------
(* The order and its receipts, as the bills depend on them.                *)

MoveOrder(from, to) ==
    /\ orderStatus = from /\ orderStatus' = to
    /\ UNCHANGED <<delivered, accounts, accountLock, spend>>

OrderIssued    == MoveOrder("draft", "issued")
OrderCancelled == delivered = 0 /\ \E from \in {"draft", "issued"} : MoveOrder(from, "cancelled")

ReceiptPosted(q) ==
    /\ orderStatus = "issued" /\ delivered + q <= MaxQuantity
    /\ delivered' = delivered + q
    /\ UNCHANGED <<orderStatus, accounts, accountLock, spend>>

-----------------------------------------------------------------------------
(* Bills.                                                                  *)

SetBill(b, to) ==
    /\ Free(b)
    /\ bill' = [bill EXCEPT ![b] = to]
    /\ UNCHANGED <<orderStatus, delivered, supplierPayment, note, accountLock, spend>>

Billable == orderStatus = "issued"

Total(b) == bill[b].quantity * bill[b].price

CreateSupplierBill(b, q, price) ==
    /\ bill[b].status = "none" /\ Billable
    /\ SetBill(b, [NoBill EXCEPT !.status = "draft", !.quantity = q, !.price = price])

EnsureDraft(b) == bill[b].status = "draft"

\* The quantity is 0 where the bill has no line.
AddBillLine(b, q, price) ==
    /\ EnsureDraft(b) /\ bill[b].quantity = 0
    /\ SetBill(b, [bill[b] EXCEPT !.quantity = q, !.price = price])

UpdateBillLine(b, q, price) ==
    /\ EnsureDraft(b) /\ bill[b].quantity # 0
    /\ SetBill(b, [bill[b] EXCEPT !.quantity = q, !.price = price])

DeleteBillLine(b) ==
    /\ EnsureDraft(b) /\ bill[b].quantity # 0
    /\ SetBill(b, [bill[b] EXCEPT !.quantity = 0, !.price = 0])

SubmitSupplierBill(b) ==
    /\ EnsureDraft(b) /\ bill[b].quantity # 0
    /\ Billable /\ Free(Supplier)
    /\ SetBill(b, [bill[b] EXCEPT !.status = "submitted", !.match_status = "not_run"])

\* Mutated form: the tolerance applies to what was billed alone.
QuantityOrdered(b, allowed) == bill[b].quantity <= MaxQuantity + allowed

QuantityReceived(b, allowed) == bill[b].quantity <= delivered + allowed

\* The order's lines cost 1; dearer is how the prices of a bill differ.
PriceOk(b, allowed) == bill[b].price <= 1 + allowed

RunThreeWayMatch(b, quantityTolerance, priceTolerance) ==
    LET result == IF QuantityReceived(b, quantityTolerance) /\ PriceOk(b, priceTolerance)
                  THEN "matched" ELSE "exception"
    IN /\ bill[b].status \in {"submitted", "matched", "exception"}
       /\ SetBill(b, [bill[b] EXCEPT !.status = result, !.match_status = result,
                                     !.allowed = quantityTolerance])

\* An exception needs a reason to override it.
ApproveSupplierBill(b) ==
    /\ bill[b].status \in {"matched", "exception"}
    /\ SetBill(b, [bill[b] EXCEPT !.status = "approved"])

-----------------------------------------------------------------------------
(* Debit notes; a note without lines has the total 0.                      *)

SetNote(d, status, total) ==
    /\ Free(d)
    /\ note' = [note EXCEPT ![d] = [status |-> status, total |-> total]]
    /\ UNCHANGED <<orderStatus, delivered, bill, supplierPayment, accountLock, spend>>

CreateDebitNote(d, total) == note[d].status = "none" /\ SetNote(d, "draft", total)

EditDebitNoteLines(d, total) ==
    note[d].status = "draft" /\ note[d].total # total /\ SetNote(d, "draft", total)

AddDebitNoteLine(d, amount) == EditDebitNoteLines(d, note[d].total + amount)

UpdateDebitNoteLine(d, total) ==
    /\ note[d].total # 0 /\ total # 0
    /\ EditDebitNoteLines(d, total)

DeleteDebitNoteLine(d, amount) ==
    /\ amount <= note[d].total
    /\ EditDebitNoteLines(d, note[d].total - amount)

IssueDebitNote(d) ==
    note[d].status = "draft" /\ note[d].total > 0 /\ SetNote(d, "issued", note[d].total)

AcknowledgeDebitNote(d) == note[d].status = "issued" /\ SetNote(d, "acknowledged", note[d].total)

-----------------------------------------------------------------------------
(* What is left of a bill and of a note.                                   *)

Posted == {n \in SupplierPayment : supplierPayment[n].status = "posted"}

ActiveAllocatedTotal(b) == SumFunction([n \in Posted |-> supplierPayment[n].allocations[b]])

Amount(allocations) == SumFunctionOnSet(allocations, Bill)

ActiveSettlementTotal(d) ==
    SumFunction([n \in {m \in Posted : supplierPayment[m].note = d} |->
                    Amount(supplierPayment[n].allocations)])

\* int(highest or -1) + 1, where a highest position of 0 counts as none.
NextSettlementPosition(d) ==
    LET used == {supplierPayment[n].position : n \in {m \in SupplierPayment : supplierPayment[m].note = d}}
    IN IF used \subseteq {0} THEN 0 ELSE Max(used) + 1

-----------------------------------------------------------------------------
(* Spending: the primary row is locked and its status checked; the bills   *)
(* are locked and the sums read; the change is written.                    *)

Allocated(allocations) == {b \in Bill : allocations[b] > 0}

LockFirst(p, operation, r, n, allocations) ==
    /\ spend[p].phase = "idle" /\ Free(r)
    /\ accountLock' = [accountLock EXCEPT ![r] = p]
    /\ spend' = [spend EXCEPT ![p] = [phase |-> "locked", operation |-> operation, row |-> r,
                                      payment |-> n, allocations |-> allocations]]
    /\ UNCHANGED <<orderStatus, delivered, accounts>>

Fresh(n) == supplierPayment[n].status = "none" /\ \A q \in Request : spend[q].payment # n

RecordSupplierPayment(p, n, allocations) ==
    /\ Fresh(n) /\ Allocated(allocations) # {}
    /\ LockFirst(p, "record_payment", Supplier, n, allocations)

Acknowledged(d) == note[d].status = "acknowledged"

SettleDebitNote(p, d, n, allocations) ==
    /\ Fresh(n) /\ Allocated(allocations) # {}
    /\ Acknowledged(d)
    /\ LockFirst(p, "settle_debit_note", d, n, allocations)

VoidSupplierBill(p, b) ==
    /\ bill[b].status \notin {"none", "voided"}
    /\ LockFirst(p, "void_bill", b, None, Nothing)

VoidDebitNote(p, d) ==
    /\ note[d].status \notin {"none", "voided"}
    /\ LockFirst(p, "void_note", d, None, Nothing)

\* Mutated form: the bills are read without locking them.
ReadBills(p, bs) == UNCHANGED accountLock

LockBills(p, bs) ==
    /\ \A b \in bs : Free(b)
    /\ accountLock' = [r \in Row |-> IF r \in bs THEN p ELSE accountLock[r]]

BillHasLeft(b, amount) ==
    bill[b].status = "approved" /\ amount <= Total(b) - ActiveAllocatedTotal(b)

NoteHasLeft(d, amount) == amount <= note[d].total - ActiveSettlementTotal(d)

NoActivePayment(b) == \A n \in Posted : supplierPayment[n].allocations[b] = 0

Checked(p) ==
    /\ spend' = [spend EXCEPT ![p].phase = "checked"]
    /\ UNCHANGED <<orderStatus, delivered, accounts>>

CheckPayment(p) ==
    LET s == spend[p]
        bs == Allocated(s.allocations)
    IN /\ s.phase = "locked" /\ s.operation \in {"record_payment", "settle_debit_note"}
       /\ LockBills(p, bs)
       /\ s.operation = "settle_debit_note" => NoteHasLeft(s.row, Amount(s.allocations))
       /\ \A b \in bs : BillHasLeft(b, s.allocations[b])
       /\ Checked(p)

CheckVoidBill(p) ==
    /\ spend[p].phase = "locked" /\ spend[p].operation = "void_bill"
    /\ NoActivePayment(spend[p].row)
    /\ Checked(p) /\ UNCHANGED accountLock

CheckVoidNote(p) ==
    /\ spend[p].phase = "locked" /\ spend[p].operation = "void_note"
    /\ ActiveSettlementTotal(spend[p].row) = 0
    /\ Checked(p) /\ UNCHANGED accountLock

EndSpend(p) ==
    /\ accountLock' = [r \in Row |-> IF accountLock[r] = p THEN None ELSE accountLock[r]]
    /\ spend' = [spend EXCEPT ![p] = NoSpend]
    /\ UNCHANGED <<orderStatus, delivered>>

PostPayment(p) ==
    LET s == spend[p]
        credit == s.operation = "settle_debit_note"
    IN /\ s.phase = "checked" /\ s.payment # None
       /\ supplierPayment' = [supplierPayment EXCEPT ![s.payment] =
              [status |-> "posted", allocations |-> s.allocations,
               note |-> IF credit THEN s.row ELSE None,
               position |-> IF credit THEN NextSettlementPosition(s.row) ELSE None]]
       \* uq_supplier_credit_settlements: one settlement at a position of the note
       /\ credit => \A n \in SupplierPayment :
                        supplierPayment[n].note = s.row =>
                            supplierPayment[n].position # NextSettlementPosition(s.row)
       /\ EndSpend(p) /\ UNCHANGED <<bill, note>>

VoidBillRow(p) ==
    /\ spend[p].phase = "checked" /\ spend[p].operation = "void_bill"
    /\ bill' = [bill EXCEPT ![spend[p].row].status = "voided"]
    /\ EndSpend(p) /\ UNCHANGED <<supplierPayment, note>>

VoidNoteRow(p) ==
    /\ spend[p].phase = "checked" /\ spend[p].operation = "void_note"
    /\ note' = [note EXCEPT ![spend[p].row].status = "voided"]
    /\ EndSpend(p) /\ UNCHANGED <<bill, supplierPayment>>

\* A check fails, the database reports a conflict or a deadlock, or the process dies.
FailSpend(p) ==
    /\ spend[p].phase # "idle"
    /\ EndSpend(p) /\ UNCHANGED accounts

-----------------------------------------------------------------------------
(* Reversals.                                                              *)

Reverse(n) ==
    /\ supplierPayment[n].status = "posted" /\ Free(n)
    /\ supplierPayment' = [supplierPayment EXCEPT ![n].status = "reversed"]
    /\ UNCHANGED <<orderStatus, delivered, bill, note, accountLock, spend>>

\* Any payment, the credit payments of settlements too.
ReverseSupplierPayment(n) ==
    /\ \A b \in Allocated(supplierPayment[n].allocations) : Free(b)
    /\ Reverse(n)

ReverseCreditSettlement(n) ==
    /\ supplierPayment[n].note # None /\ Free(supplierPayment[n].note)
    /\ Reverse(n)

-----------------------------------------------------------------------------
Quantities == 1 .. MaxQuantity
Prices     == 1 .. MaxPrice

BillStep(b) ==
    \/ \E q \in Quantities, price \in Prices :
         CreateSupplierBill(b, q, price) \/ AddBillLine(b, q, price) \/ UpdateBillLine(b, q, price)
    \/ CreateSupplierBill(b, 0, 0)
    \/ DeleteBillLine(b) \/ SubmitSupplierBill(b) \/ ApproveSupplierBill(b)
    \/ \E q \in 0 .. MaxQuantity, price \in 0 .. MaxPrice : RunThreeWayMatch(b, q, price)

NoteStep(d) ==
    \/ \E t \in Quantities : \/ CreateDebitNote(d, t) \/ UpdateDebitNoteLine(d, t)
                             \/ DeleteDebitNoteLine(d, t)
                             \/ t + note[d].total <= MaxQuantity /\ AddDebitNoteLine(d, t)
    \/ IssueDebitNote(d) \/ AcknowledgeDebitNote(d)

SpendStep(p) ==
    \/ \E n \in SupplierPayment, allocations \in [Bill -> 0 .. MaxQuantity] :
         \/ RecordSupplierPayment(p, n, allocations)
         \/ \E d \in DebitNote : SettleDebitNote(p, d, n, allocations)
    \/ \E b \in Bill : VoidSupplierBill(p, b)
    \/ \E d \in DebitNote : VoidDebitNote(p, d)
    \/ CheckPayment(p) \/ CheckVoidBill(p) \/ CheckVoidNote(p)
    \/ PostPayment(p) \/ VoidBillRow(p) \/ VoidNoteRow(p) \/ FailSpend(p)

AccountsNext ==
    \/ OrderIssued \/ OrderCancelled \/ \E q \in Quantities : ReceiptPosted(q)
    \/ \E b \in Bill : BillStep(b)
    \/ \E d \in DebitNote : NoteStep(d)
    \/ \E p \in Request : SpendStep(p)
    \/ \E n \in SupplierPayment : ReverseSupplierPayment(n) \/ ReverseCreditSettlement(n)

AccountsSpec == AccountsInit /\ [][AccountsNext]_accountsVars

-----------------------------------------------------------------------------
(* Properties.                                                             *)

\* However payments, settlements, reversals and voids interleave, no bill has more
\* posted against it than its total, and one that is not approved has nothing; and the
\* credit of a debit note is not spent beyond its total, and only while it stands.
NothingOverspent ==
    /\ \A b \in Bill : IF bill[b].status = "approved"
                       THEN ActiveAllocatedTotal(b) <= Total(b)
                       ELSE NoActivePayment(b)
    /\ \A d \in DebitNote : IF note[d].status = "acknowledged"
                            THEN ActiveSettlementTotal(d) <= note[d].total
                            ELSE ActiveSettlementTotal(d) = 0

\* A bill that counts as matched still bills no more than was received, beyond the
\* tolerance its match was given, whatever happened since the match.
MatchedIsReceived ==
    \A b \in Bill : bill[b].match_status = "matched" =>
        bill[b].quantity <= delivered + bill[b].allowed
=============================================================================
