------------------------------ MODULE Invoices ------------------------------
(***************************************************************************)
(* Invoices of one work order: their lines, their payments and the totals  *)
(* the invoice row repeats, changed by concurrent requests.                *)
(*                                                                         *)
(* No operation locks anything before it reads.  A request loads the       *)
(* invoice and checks it, changes a line or a payment, recalculates the    *)
(* row from what it sees (what is committed, and its own change), and      *)
(* commits.  Of the row it writes only the columns that differ from those  *)
(* it loaded: the session flushes changes column by column.                *)
(*                                                                         *)
(* missed[p] is what rivals committed since p read it; crossed holds what  *)
(* was ever written by a request that had missed a change of it.  Both are *)
(* history: they say how far the promises of the service go.               *)
(***************************************************************************)
EXTENDS Integers, FiniteSets, FiniteSetsExt

CONSTANTS
    Invoice, Payment,  \* the invoices and payments that may ever be made
    Expense,           \* approved, billable expenses of the work order
    Manual,            \* manual lines an invoice may have
    Closeout,          \* the line that charges the closed-out work order
    Request,           \* concurrent requests
    Busy,              \* bound: the invoices that are worked on once created
    MaxAmount,         \* bound: amounts are at most MaxAmount
    MaxCrossed,        \* bound: how much is written over missed changes
    None

ASSUME InvoicesAssumption ==
    /\ MaxAmount \in Nat \ {0} /\ MaxCrossed \in Nat /\ Busy \subseteq Invoice
    /\ None \notin Invoice \cup Payment \cup Expense \cup Manual \cup {Closeout}
    /\ Closeout \notin Expense \cup Manual /\ Expense \cap Manual = {}
    /\ (Expense \cup {Closeout}) \cap Invoice = {}
    /\ IsFiniteSet(Expense) /\ IsFiniteSet(Manual) /\ IsFiniteSet(Payment)

VARIABLES
    invoice,   \* invoices: status and the amounts of the row
    line,      \* invoice_line_items, by invoice and by what they charge: nothing reads a
               \* removed manual line again, so it is none
    payment,   \* invoice_payments that are not reversed
    req,       \* per request: the operation, what it loaded and what it will write
    missed,    \* per request: what rivals committed, of what it writes, since it began
    crossed    \* what was written by a request that had missed a change of it

rows == <<invoice, line, payment>>
vars == <<rows, req, missed, crossed>>

Source  == Expense \cup Manual \cup {Closeout}
Amount  == 1 .. MaxAmount
Charged == Expense \cup {Closeout}   \* what is to be charged only once

Creating  == {"create_invoice", "create_invoice_from_closeout"}
AddLine   == {"add_manual_line_item", "add_expense_line_item"}
OnLines   == AddLine \cup {"update_line_item", "remove_line_item"}
OnDrafts  == OnLines \cup {"update_invoice", "issue_invoice"}
OnPayments == {"record_payment", "reverse_payment"}
Operations == Creating \cup OnDrafts \cup OnPayments \cup {"void_invoice"}

Invoices == [status : {"none", "draft", "issued", "partially_paid", "paid", "void"},
             discount : Nat, total : Nat, paid : Nat, balance : Nat]
Lines    == [state : {"none", "active", "removed"}, amount : Nat]
Payments == [invoice : Invoice \cup {None}, amount : Nat]
Requests == [phase : {"idle", "loaded", "written"}, operation : Operations \cup {"none"},
             invoice : Invoice \cup {None}, source : Source \cup {None},
             payment : Payment \cup {None}, amount : Nat, fresh : BOOLEAN,
             lines : [Source -> Lines], was : Invoices, row : Invoices]

NoInvoice == [status |-> "none", discount |-> 0, total |-> 0, paid |-> 0, balance |-> 0]
NoLine    == [state |-> "none", amount |-> 0]
NoLines   == [s \in Source |-> NoLine]
NoPayment == [invoice |-> None, amount |-> 0]
NoRequest == [phase |-> "idle", operation |-> "none", invoice |-> None, source |-> None,
              payment |-> None, amount |-> 0, fresh |-> FALSE, lines |-> NoLines,
              was |-> NoInvoice, row |-> NoInvoice]

\* Amounts of money are never negative, in the rows and in what requests will write.
TypeOK ==
    /\ invoice \in [Invoice -> Invoices]
    /\ line \in [Invoice -> [Source -> Lines]]
    /\ payment \in [Payment -> Payments]
    /\ req \in [Request -> Requests]
    /\ missed \in [Request -> SUBSET (Invoice \cup Charged)]
    /\ crossed \subseteq Invoice \cup Charged

Init ==
    /\ invoice = [i \in Invoice |-> NoInvoice]
    /\ line = [i \in Invoice |-> NoLines]
    /\ payment = [n \in Payment |-> NoPayment]
    /\ req = [p \in Request |-> NoRequest]
    /\ missed = [p \in Request |-> {}]
    /\ crossed = {}

-----------------------------------------------------------------------------
(* What the queries see.                                                   *)

Standing(i) == invoice[i].status \notin {"none", "void"}

\* Mutated form: a draft does not count.
ChargedByIssued(s, others) ==
    \E i \in others : Standing(i) /\ invoice[i].status # "draft" /\ line[i][s].state = "active"

AlreadyInvoiced(s, others) == \E i \in others : Standing(i) /\ line[i][s].state = "active"

Subtotal(ls) == SumFunction([s \in {c \in Source : ls[c].state = "active"} |-> ls[s].amount])

PaidOn(i, ps) == SumFunction([n \in {m \in Payment : ps[m].invoice = i} |-> ps[n].amount])

-----------------------------------------------------------------------------
(* The totals of a row.                                                    *)

Settled(paid, total) ==
    IF paid = 0 THEN "issued" ELSE IF paid < total THEN "partially_paid" ELSE "paid"

\* Mutated form: the status follows what was paid only upwards.
RecalculatedUpwards(row, subtotal, paid) ==
    LET total == subtotal - row.discount
    IN [row EXCEPT !.total = total, !.paid = paid, !.balance = total - paid,
                   !.status = IF @ \in {"draft", "void"} \/ paid = 0 THEN @ ELSE Settled(paid, total)]

Recalculated(row, subtotal, paid) ==
    LET total == subtotal - row.discount
    IN [row EXCEPT !.total = total, !.paid = paid, !.balance = total - paid,
                   !.status = IF @ \in {"draft", "void"} THEN @ ELSE Settled(paid, total)]

\* Mutated form: what was paid is not compared with the total.
DiscountFits(row, subtotal, paid) == row.discount <= subtotal

TotalsFit(row, subtotal, paid) == row.discount + paid <= subtotal

-----------------------------------------------------------------------------
(* Loading: the unlocked reads and the checks made on them.                *)

Load(p, phase, operation, i, s, n, amount, ls, row) ==
    /\ req[p].phase = "idle"
    /\ req' = [req EXCEPT ![p] =
           [phase |-> phase, operation |-> operation, invoice |-> i, source |-> s,
            payment |-> n, amount |-> amount,
            fresh |-> s # None /\ line[i][s].state = "none",
            lines |-> ls, was |-> invoice[i], row |-> row]]
    /\ missed' = [missed EXCEPT ![p] = {}]
    /\ UNCHANGED <<rows, crossed>>

Change(p, operation, i, s, n, amount) ==
    Load(p, "loaded", operation, i, s, n, amount, NoLines, invoice[i])

Unused(i) == invoice[i].status = "none" /\ \A q \in Request : req[q].invoice # i

Active(amount) == [state |-> "active", amount |-> amount]

\* An expense costs 1.
Charging(expenses, others, amount) ==
    [s \in Source |-> IF s \in expenses THEN Active(1)
                      ELSE IF s \in others THEN Active(amount) ELSE NoLine]

\* The rows of a new invoice are seen by nobody else: it is written as soon as what
\* it charges is checked.
Draft(p, operation, i, ls, discount) ==
    LET row == [NoInvoice EXCEPT !.status = "draft", !.discount = discount]
    IN /\ Unused(i) /\ TotalsFit(row, Subtotal(ls), 0)
       /\ Load(p, "written", operation, i, None, None, 0, ls, Recalculated(row, Subtotal(ls), 0))

CreateInvoice(p, i, expenses, manual, amount, discount) ==
    /\ expenses \cup manual # {}
    /\ \A e \in expenses : ~AlreadyInvoiced(e, Invoice)
    /\ Draft(p, "create_invoice", i, Charging(expenses, manual, amount), discount)

CreateInvoiceFromCloseout(p, i, amount, discount) ==
    /\ \A j \in Invoice : ~Standing(j)
    /\ Draft(p, "create_invoice_from_closeout", i, Charging({}, {Closeout}, amount), discount)

\* Mutated form: editing is not restricted to drafts.
AnyInvoice(i) == Standing(i)

Editable(i) == invoice[i].status = "draft"

UpdateInvoice(p, i, discount) ==
    /\ Editable(i)
    /\ Load(p, "loaded", "update_invoice", i, None, None, 0, NoLines,
            [invoice[i] EXCEPT !.discount = discount])

AddManualLineItem(p, i, m, amount) ==
    /\ Editable(i) /\ line[i][m].state = "none"
    /\ \A q \in Request : req[q].invoice = i => req[q].source # m
    /\ Change(p, "add_manual_line_item", i, m, None, amount)

\* A removed expense line is made active again.
AddExpenseLineItem(p, i, e) ==
    /\ Editable(i) /\ line[i][e].state # "active"
    /\ ~AlreadyInvoiced(e, Invoice \ {i})
    /\ Change(p, "add_expense_line_item", i, e, None, 1)

\* An update that changes nothing writes nothing, and is left out.
UpdateLineItem(p, i, s, amount) ==
    /\ Editable(i) /\ s \notin Expense
    /\ line[i][s].state = "active" /\ line[i][s].amount # amount
    /\ Change(p, "update_line_item", i, s, None, amount)

RemoveLineItem(p, i, s) ==
    /\ Editable(i) /\ line[i][s].state = "active"
    /\ Change(p, "remove_line_item", i, s, None, 0)

IssueInvoice(p, i) == Editable(i) /\ Change(p, "issue_invoice", i, None, None, 0)

RecordPayment(p, i, n, amount) ==
    /\ invoice[i].status \in {"issued", "partially_paid"}
    /\ amount <= invoice[i].balance
    /\ payment[n] = NoPayment /\ \A q \in Request : req[q].payment # n
    /\ Change(p, "record_payment", i, None, n, amount)

ReversePayment(p, i, n) ==
    /\ Standing(i) /\ ~Editable(i)
    /\ payment[n].invoice = i
    /\ Change(p, "reverse_payment", i, None, n, 0)

VoidInvoice(p, i) ==
    /\ invoice[i].status = "issued"
    /\ Change(p, "void_invoice", i, None, None, 0)

-----------------------------------------------------------------------------
(* Writing: the change of a line or payment, and the totals that follow.   *)

\* The lines of the invoice and the payments, with what p changes in them.
LinesAfter(p) ==
    LET ls == line[req[p].invoice]
        s == req[p].source
    IN CASE req[p].operation \in Creating -> req[p].lines
         [] req[p].operation \in AddLine -> [ls EXCEPT ![s] = Active(req[p].amount)]
         [] req[p].operation = "update_line_item" /\ ls[s].state = "active" ->
                [ls EXCEPT ![s].amount = req[p].amount]
         [] req[p].operation = "remove_line_item" ->
                [ls EXCEPT ![s] = IF s \in Expense THEN [@ EXCEPT !.state = "removed"] ELSE NoLine]
         [] OTHER -> ls

PaymentsAfter(p) ==
    CASE req[p].operation = "record_payment" ->
           [payment EXCEPT ![req[p].payment] =
               [invoice |-> req[p].invoice, amount |-> req[p].amount]]
      [] req[p].operation = "reverse_payment" -> [payment EXCEPT ![req[p].payment] = NoPayment]
      [] OTHER -> payment

\* A line or payment that a rival wrote stays locked until the rival is done, and a
\* line it inserted is in the way of another for the expense or at the position.
RowFree(p) ==
    /\ \A q \in Request \ {p} :
         (req[q].phase = "written" /\ req[q].invoice = req[p].invoice) =>
             /\ req[q].source = None \/ req[q].source # req[p].source
             /\ req[q].payment = None \/ req[q].payment # req[p].payment
    /\ req[p].fresh => line[req[p].invoice][req[p].source].state = "none"

SubtotalSeen(p) == Subtotal(LinesAfter(p))
PaidSeen(p)     == PaidOn(req[p].invoice, PaymentsAfter(p))

Fits(p)  == TotalsFit(req[p].row, SubtotalSeen(p), PaidSeen(p))
After(p) == Recalculated(req[p].row, SubtotalSeen(p), PaidSeen(p))

Write(p, row) ==
    /\ req' = [req EXCEPT ![p].phase = "written", ![p].row = row]
    /\ UNCHANGED <<rows, missed, crossed>>

Recalculate(p) ==
    /\ req[p].phase = "loaded" /\ req[p].operation \notin {"issue_invoice", "void_invoice"}
    /\ RowFree(p) /\ Fits(p)
    /\ Write(p, After(p))

Issue(p) ==
    /\ req[p].phase = "loaded" /\ req[p].operation = "issue_invoice"
    /\ \E s \in Source : line[req[p].invoice][s].state = "active"
    /\ Fits(p) /\ After(p).total > 0
    /\ Write(p, [After(p) EXCEPT !.status = "issued", !.balance = After(p).total])

Void(p) ==
    /\ req[p].phase = "loaded" /\ req[p].operation = "void_invoice"
    /\ PaidSeen(p) = 0
    /\ Write(p, [req[p].row EXCEPT !.status = "void", !.balance = 0])

-----------------------------------------------------------------------------
(* The end of a request.                                                   *)

\* Mutated form: all columns of the row are written.
AllColumns(was, row, now) == row

Flushed(was, row, now) == [c \in DOMAIN now |-> IF row[c] # was[c] THEN row[c] ELSE now[c]]

\* What p writes: the invoice, and what it newly charges.
Touched(p) ==
    {req[p].invoice} \cup
    {s \in Charged : LinesAfter(p)[s].state = "active" /\ line[req[p].invoice][s].state # "active"}

Commit(p) ==
    LET i == req[p].invoice
    IN /\ req[p].phase = "written"
       /\ invoice' = [invoice EXCEPT ![i] = Flushed(req[p].was, req[p].row, @)]
       /\ line' = [line EXCEPT ![i] = LinesAfter(p)]
       /\ payment' = PaymentsAfter(p)
       /\ crossed' = crossed \cup (Touched(p) \cap missed[p])
       /\ Cardinality(crossed') <= MaxCrossed
       /\ missed' = [q \in Request |->
                       IF q = p \/ req[q].phase = "idle" THEN {}
                       ELSE missed[q] \cup (Touched(p) \cap Touched(q))]
       /\ req' = [req EXCEPT ![p] = NoRequest]

\* A check fails, the database reports a conflict or the process dies.
RollBack(p) ==
    /\ req[p].phase # "idle"
    /\ req' = [req EXCEPT ![p] = NoRequest]
    /\ missed' = [missed EXCEPT ![p] = {}]
    /\ UNCHANGED <<rows, crossed>>

-----------------------------------------------------------------------------
Create(p, i, manual, discounts) ==
    \E a \in Amount, d \in discounts :
        \/ \E es \in SUBSET Expense, ms \in SUBSET manual : CreateInvoice(p, i, es, ms, a, d)
        \/ CreateInvoiceFromCloseout(p, i, a, d)

WorkOn(p, i) ==
    \/ \E d \in 0 .. MaxAmount : UpdateInvoice(p, i, d)
    \/ \E s \in Source, a \in 0 .. MaxAmount : UpdateLineItem(p, i, s, a)
    \/ \E m \in Manual, a \in Amount : AddManualLineItem(p, i, m, a)
    \/ \E e \in Expense : AddExpenseLineItem(p, i, e)
    \/ \E s \in Source : RemoveLineItem(p, i, s)
    \/ IssueInvoice(p, i)
    \/ \E n \in Payment, a \in Amount : RecordPayment(p, i, n, a)
    \/ \E n \in Payment : ReversePayment(p, i, n)
    \/ VoidInvoice(p, i)

Begin(p) ==
    \/ \E i \in Busy : Create(p, i, Manual, 0 .. MaxAmount) \/ WorkOn(p, i)
    \/ \E i \in Invoice \ Busy : Create(p, i, {}, {0})

Next ==
    \E p \in Request : Begin(p) \/ Recalculate(p) \/ Issue(p) \/ Void(p) \/ Commit(p) \/ RollBack(p)

Spec == Init /\ [][Next]_vars

-----------------------------------------------------------------------------
(* Properties.                                                             *)

\* The amounts and the status an invoice repeats are those of its lines and payments,
\* and a void invoice has no active payment, unless a request wrote over a change of the
\* invoice it had missed.
RowAgrees(i) ==
    LET paid == PaidOn(i, payment)
        total == Subtotal(line[i]) - invoice[i].discount
    IN CASE invoice[i].status = "none"  -> line[i] = NoLines /\ paid = 0
         [] invoice[i].status = "void"  -> invoice[i].balance = 0 /\ paid = 0
         [] invoice[i].status = "draft" -> paid = 0 /\ invoice[i].total = total /\ invoice[i].balance = total
         [] OTHER -> /\ invoice[i].total = total /\ invoice[i].paid = paid
                     /\ invoice[i].balance = total - paid
                     /\ invoice[i].status = Settled(paid, total)
RowsAgree == \A i \in Invoice \ crossed : RowAgrees(i)

\* An expense, and the closed-out work order, is charged by at most one standing
\* invoice, unless two requests charged it at a time.
ChargedOnce ==
    \A s \in Charged \ crossed :
        \A i, j \in {k \in Invoice \ crossed : Standing(k) /\ line[k][s].state = "active"} : i = j

\* No request, however stale, makes an issued invoice a draft again.
NeverDraftAgain ==
    [][\A i \in Invoice :
         invoice'[i].status \in {"none", "draft"} => invoice[i].status \in {"none", "draft"}]_vars

\* What an issued invoice charges is final, and a void one stays void, unless a request
\* that loaded it earlier wrote over that.
IssuedTermsStay ==
    [][\A i \in Invoice \ crossed' :
         invoice[i].status \notin {"none", "draft"} =>
             /\ line'[i] = line[i]
             /\ invoice'[i].total = invoice[i].total
             /\ invoice'[i].discount = invoice[i].discount
             /\ invoice[i].status = "void" => invoice'[i] = invoice[i]]_vars
=============================================================================
