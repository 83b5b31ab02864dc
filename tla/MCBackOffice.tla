---------------------------- MODULE MCBackOffice ----------------------------
(* Small instances, for TLC, of the parts of the back office.               *)
EXTENDS BackOffice, TLC

CONSTANTS
    MaxOrdered,   \* quantity ordered of every line
    MaxReceived,  \* what the receipt brought of every kind, where it is returned
    Twin          \* interchangeable rows, where a kind has two

OrderedAlike  == [l \in Line |-> MaxOrdered]
ReceivedAlike == [x \in Part |-> MaxReceived]

Symmetry == Permutations(Request) \cup Permutations(Twin)

\* What distinguishes the states of a behaviour: the parts that rest stay as they began.
Moving ==
    <<part, CASE part = "receipts"     -> vars
              [] part = "accounts"     -> accountsVars
              [] part = "returns"      -> returnsVars
              [] part = "requisitions" -> requisitionsVars
              [] part = "quotes"       -> quotesVars
              [] part = "work orders"  -> workOrdersVars
              [] part = "scheduling"   -> schedulingVars
              [] part = "materials"    -> materialsVars
              [] part = "memberships"  -> membershipsVars
              [] part = "expenses"     -> expensesVars
              [] part = "positions"    -> positionsVars
              [] part = "directory"    -> directoryVars
              [] part = "documents"    -> documentsVars
              [] part = "alerts"       -> alertsVars>>
=============================================================================
