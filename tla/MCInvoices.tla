----------------------------- MODULE MCInvoices -----------------------------
(* Invoices with interchangeable payments, expenses and requests.   *)
EXTENDS Invoices, TLC

Symmetry ==
    Permutations(Payment) \cup Permutations(Expense) \cup Permutations(Request)
=============================================================================
