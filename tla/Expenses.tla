------------------------------ MODULE Expenses ------------------------------
(***************************************************************************)
(* The expenses of a work order: drafted, submitted, reviewed.             *)
(*                                                                         *)
(* An operation reads its expense without a lock, checks it, and commits   *)
(* the columns it changed.  overtakenExpenses remembers the expenses on    *)
(* which two operations overlapped.  The activity of an operation is a     *)
(* commit of its own after that, and is left out, as is the work order,    *)
(* which every operation but the reads wants active when it begins.        *)
(***************************************************************************)
EXTENDS Requests, Integers

CONSTANTS
    Expense,   \* expenses that may ever be made
    MaxSpent   \* bound: quantities and unit costs

ASSUME ExpensesAssumption == MaxSpent \in Nat \ {0} /\ None \notin Request \cup Expense

VARIABLES
    expense,   \* work_order_expenses
    spending,  \* per request: the expense, and the columns it is to commit
    overtakenExpenses

expensesVars == <<expense, spending, overtakenExpenses>>

ExpenseStatuses == {"none", "draft", "submitted", "approved", "rejected"}
ExpenseRows == [status : ExpenseStatuses, is_active : BOOLEAN,
                quantity : Nat, unit_cost : Nat, total_amount : Nat]
NoExpense   == [status |-> "none", is_active |-> FALSE, quantity |-> 0, unit_cost |-> 0,
                total_amount |-> 0]
NotSpending == [expense |-> None, columns |-> <<>>]

ExpensesTypeOK ==
    /\ expense \in [Expense -> ExpenseRows]
    /\ \A p \in Request : spending[p] # NotSpending =>
         /\ spending[p].expense \in Expense
         /\ Overwritten(NoExpense, spending[p].columns) \in ExpenseRows
    /\ overtakenExpenses \subseteq Expense

ExpensesInit ==
    /\ expense = [e \in Expense |-> NoExpense]
    /\ spending = [p \in Request |-> NotSpending]
    /\ overtakenExpenses = {}

-----------------------------------------------------------------------------
\* Cents are the unit: the rounding of a total to them is left out.
Calculated(row) == [row EXCEPT !.total_amount = row.quantity * row.unit_cost]

\* p is to make the row of e `to', and will write the columns in which it differs.
SetExpense(p, e, to) ==
    /\ spending[p] = NotSpending /\ to # expense[e]
    /\ spending' = [spending EXCEPT ![p] = [expense |-> e, columns |-> Changed(expense[e], to)]]
    /\ overtakenExpenses' = overtakenExpenses \cup ({spending[q].expense : q \in Request} \cap {e})
    /\ UNCHANGED expense

CreateExpense(p, e, quantity, cost) ==
    /\ expense[e] = NoExpense /\ \A q \in Request : spending[q].expense # e
    /\ SetExpense(p, e, Calculated([NoExpense EXCEPT !.status = "draft", !.is_active = TRUE,
                                                     !.quantity = quantity, !.unit_cost = cost]))

\* Mutated form: what was rejected may be edited where it is.
NotSubmitted(e) == expense[e].status \in {"draft", "rejected"}

Draft(e) == expense[e].status = "draft"

UpdateExpense(p, e, quantity, cost) ==
    /\ expense[e].is_active /\ Draft(e)
    /\ SetExpense(p, e, Calculated([expense[e] EXCEPT !.quantity = quantity, !.unit_cost = cost]))

AllowedTransitions ==
    [draft |-> {"submitted"}, submitted |-> {"approved", "rejected"}, rejected |-> {"draft"},
     approved |-> {}]

ChangeExpenseStatus(p, e, to) ==
    /\ expense[e].is_active
    /\ to \in AllowedTransitions[expense[e].status]
    /\ SetExpense(p, e, [expense[e] EXCEPT !.status = to])

DeactivateExpense(p, e) ==
    /\ expense[e].is_active /\ expense[e].status \in {"draft", "rejected"}
    /\ SetExpense(p, e, [expense[e] EXCEPT !.is_active = FALSE])

ReactivateExpense(p, e) ==
    /\ expense[e].status # "none"
    /\ SetExpense(p, e, [expense[e] EXCEPT !.is_active = TRUE])

CommitExpense(p) ==
    /\ spending[p] # NotSpending
    /\ expense' = [expense EXCEPT ![spending[p].expense] = Overwritten(@, spending[p].columns)]
    /\ spending' = [spending EXCEPT ![p] = NotSpending]
    /\ UNCHANGED overtakenExpenses

\* A check fails, the database reports a conflict or the process dies.
AbandonExpense(p) ==
    /\ spending[p] # NotSpending
    /\ spending' = [spending EXCEPT ![p] = NotSpending]
    /\ UNCHANGED <<expense, overtakenExpenses>>

-----------------------------------------------------------------------------
ExpenseOperation(p, e) ==
    \/ \E quantity \in 1 .. MaxSpent, cost \in 0 .. MaxSpent :
         CreateExpense(p, e, quantity, cost) \/ UpdateExpense(p, e, quantity, cost)
    \/ \E to \in ExpenseStatuses : ChangeExpenseStatus(p, e, to)
    \/ DeactivateExpense(p, e) \/ ReactivateExpense(p, e)

ExpensesNext ==
    \E p \in Request :
        \/ \E e \in Expense : ExpenseOperation(p, e)
        \/ CommitExpense(p) \/ AbandonExpense(p)

ExpensesSpec == ExpensesInit /\ [][ExpensesNext]_expensesVars

-----------------------------------------------------------------------------
(* Properties.                                                             *)

Terms(row) == <<row.quantity, row.unit_cost, row.total_amount>>

\* Unless operations on it overlapped, an expense costs its quantity at its unit cost, what
\* was submitted is what is reviewed, and an approved expense is never changed or hidden.
ReviewedTermsStay ==
    [][\A e \in Expense \ overtakenExpenses :
         /\ expense[e] = Calculated(expense[e])
         /\ expense[e].status \in {"submitted", "approved", "rejected"} =>
              Terms(expense'[e]) = Terms(expense[e])
         /\ expense[e].status = "approved" =>
              expense[e].is_active /\ expense'[e] = expense[e]]_expensesVars
=============================================================================
