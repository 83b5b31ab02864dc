---------------------------- MODULE Settlements ----------------------------
(***************************************************************************)
(* What the accounts of a supplier promise: each debt has a balance, what  *)
(* is settled of what is owed, and each payment settles its debts whole    *)
(* and at once, or not at all.  The code keeps no balances: its requests   *)
(* sum the payments in one step and write in another.                      *)
(***************************************************************************)
EXTENDS Integers

CONSTANTS Debt,     \* a bill owed to the supplier, a credit owed by it
          Payment,
          Sum       \* what a debt may come to: natural numbers

VARIABLES owed, settled, payment

settlementsVars == <<owed, settled, payment>>

Zero == [d \in Debt |-> 0]

SettlementsInit ==
    /\ owed = Zero /\ settled = Zero
    /\ payment = [n \in Payment |-> [status |-> "none", amounts |-> Zero]]

Left(d) == owed[d] - settled[d]

\* A debt arises; what is owed is not changed afterwards.
Owe(d, total) ==
    /\ owed[d] = 0 /\ settled[d] = 0
    /\ owed' = [owed EXCEPT ![d] = total]
    /\ UNCHANGED <<settled, payment>>

\* A debt is cancelled, while nothing of it is settled.
Cancel(d) ==
    /\ settled[d] = 0
    /\ owed' = [owed EXCEPT ![d] = 0]
    /\ UNCHANGED <<settled, payment>>

Pay(n, amounts) ==
    /\ payment[n].status = "none"
    /\ \A d \in Debt : amounts[d] <= Left(d)
    /\ settled' = [d \in Debt |-> settled[d] + amounts[d]]
    /\ payment' = [payment EXCEPT ![n] = [status |-> "posted", amounts |-> amounts]]
    /\ UNCHANGED owed

TakeBack(n) ==
    /\ payment[n].status = "posted"
    /\ settled' = [d \in Debt |-> settled[d] - payment[n].amounts[d]]
    /\ payment' = [payment EXCEPT ![n].status = "reversed"]
    /\ UNCHANGED owed

SettlementsNext ==
    \/ \E d \in Debt : Cancel(d) \/ \E total \in Sum : Owe(d, total)
    \/ \E n \in Payment : TakeBack(n) \/ \E amounts \in [Debt -> Sum] : Pay(n, amounts)

SettlementsSpec == SettlementsInit /\ [][SettlementsNext]_settlementsVars
=============================================================================
