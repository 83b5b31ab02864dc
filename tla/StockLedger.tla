---------------------------- MODULE StockLedger ----------------------------
(***************************************************************************)
(* What the inventory promises: for every item and location, a stock on    *)
(* hand of which a part is reserved, changed by indivisible postings that  *)
(* never take stock that is not there and never take reserved stock for    *)
(* anything but its reservation.                                           *)
(***************************************************************************)
EXTENDS Integers

CONSTANTS Slot,     \* an item at a location
          Quantity  \* quantities a posting may move, positive

VARIABLES onHand, reserved

ledgerVars == <<onHand, reserved>>

Free(s) == onHand[s] - reserved[s]

LedgerTypeOK == onHand \in [Slot -> Nat] /\ reserved \in [Slot -> Nat]

LedgerInit == onHand = [s \in Slot |-> 0] /\ reserved = [s \in Slot |-> 0]

Receive(s, q) ==
    /\ onHand' = [onHand EXCEPT ![s] = @ + q]
    /\ UNCHANGED reserved

Take(s, q) ==
    /\ q <= Free(s)
    /\ onHand' = [onHand EXCEPT ![s] = @ - q]
    /\ UNCHANGED reserved

Move(s, t, q) ==
    /\ s # t /\ q <= Free(s)
    /\ onHand' = [onHand EXCEPT ![s] = @ - q, ![t] = @ + q]
    /\ UNCHANGED reserved

Reserve(s, q) ==
    /\ q <= Free(s)
    /\ reserved' = [reserved EXCEPT ![s] = @ + q]
    /\ UNCHANGED onHand

Consume(s, q) ==
    /\ q <= reserved[s]
    /\ onHand' = [onHand EXCEPT ![s] = @ - q]
    /\ reserved' = [reserved EXCEPT ![s] = @ - q]

Release(s, q) ==
    /\ q <= reserved[s]
    /\ reserved' = [reserved EXCEPT ![s] = @ - q]
    /\ UNCHANGED onHand

LedgerNext ==
    \E q \in Quantity, s \in Slot :
        \/ Receive(s, q) \/ Take(s, q) \/ Reserve(s, q)
        \/ Consume(s, q) \/ Release(s, q)
        \/ \E t \in Slot : Move(s, t, q)

LedgerSpec == LedgerInit /\ [][LedgerNext]_ledgerVars

\* Reserved stock is always there: nobody is promised stock that was taken.
ReservedIsOnHand == \A s \in Slot : 0 <= reserved[s] /\ reserved[s] <= onHand[s]
=============================================================================
