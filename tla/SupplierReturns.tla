-------------------------- MODULE SupplierReturns --------------------------
(***************************************************************************)
(* Goods returned to the supplier out of one posted goods receipt.  Draft  *)
(* returns claim nothing; dispatching one checks each line against what    *)
(* dispatched returns already took of the receipt, and takes accepted      *)
(* goods out of stock.                                                     *)
(*                                                                         *)
(* A dispatch locks its return, and the stock balance for accepted lines.  *)
(* It locks nothing of the receipt, so dispatches of two returns may each  *)
(* miss what the other takes: rivalled remembers that they overlapped.     *)
(***************************************************************************)
EXTENDS Requests, Integers, FiniteSetsExt

CONSTANTS
    Return,        \* the supplier returns that may ever be made
    ReceiptLine,   \* lines of the receipt
    ReceivedAs,    \* what each line received as accepted and as rejected
    MaxStock       \* bound: stock of the item at the receiving location

Source == {"accepted", "rejected"}
Part   == ReceiptLine \X Source   \* what a line of a return is about

ASSUME SupplierReturnsAssumption ==
    /\ ReceivedAs \in [Part -> Nat] /\ IsFiniteSet(Return)
    /\ MaxStock \in Nat
    /\ None \notin Request

VARIABLES
    supplierReturn,  \* supplier_returns, with their lines
    stock,           \* inventory_balances row of the item: on hand and reserved
    returnLock, stockLock,
    dispatch,        \* per request: the dispatch it is doing
    rivalled         \* two dispatches overlapped

returnsVars == <<supplierReturn, stock, returnLock, stockLock, dispatch, rivalled>>

ReturnLines == [Part -> Nat]   \* the quantity of each line, 0 for none
Returns    == [status : {"none", "draft", "dispatched", "completed", "cancelled"}, lines : ReturnLines]
Dispatches == [phase : {"idle", "lines"}, supplierReturn : Return \cup {None},
               todo : SUBSET Part, taken : Nat]

NoReturn   == [status |-> "none", lines |-> [x \in Part |-> 0]]
NoDispatch == [phase |-> "idle", supplierReturn |-> None, todo |-> {}, taken |-> 0]

ReturnsTypeOK ==
    /\ supplierReturn \in [Return -> Returns]
    /\ stock \in [on_hand : Nat, reserved : Nat]
    /\ returnLock \in [Return -> Request \cup {None}]
    /\ stockLock \in Request \cup {None}
    /\ dispatch \in [Request -> Dispatches]
    /\ rivalled \in BOOLEAN

ReturnsInit ==
    /\ supplierReturn = [r \in Return |-> NoReturn]
    /\ stock = [on_hand |-> 0, reserved |-> 0]
    /\ returnLock = [r \in Return |-> None]
    /\ stockLock = None
    /\ dispatch = [p \in Request |-> NoDispatch]
    /\ rivalled = FALSE

-----------------------------------------------------------------------------
(* The stock, as receipts, issues, reservations and their release move it. *)

MoveStock(to) ==
    /\ stockLock = None
    /\ to.reserved <= to.on_hand /\ to.on_hand <= MaxStock
    /\ stock' = to
    /\ UNCHANGED <<supplierReturn, returnLock, stockLock, dispatch, rivalled>>

StockStep ==
    \/ MoveStock([stock EXCEPT !.on_hand = @ + 1])
    \/ stock.on_hand > 0 /\ MoveStock([stock EXCEPT !.on_hand = @ - 1])
    \/ MoveStock([stock EXCEPT !.reserved = @ + 1])
    \/ stock.reserved > 0 /\ MoveStock([stock EXCEPT !.reserved = @ - 1])

-----------------------------------------------------------------------------
(* Drafts.                                                                 *)

\* What dispatched and completed returns took; a return's own draft never counts.
ReturnedQuantity(x) ==
    SumFunction([r \in {k \in Return : supplierReturn[k].status \in {"dispatched", "completed"}} |->
                    supplierReturn[r].lines[x]])

Remaining(x, q) == q <= ReceivedAs[x] - ReturnedQuantity(x)

SetReturn(r, to) ==
    /\ returnLock[r] = None
    /\ supplierReturn' = [supplierReturn EXCEPT ![r] = to]
    /\ UNCHANGED <<stock, returnLock, stockLock, dispatch, rivalled>>

CreateSupplierReturn(r, lines) ==
    /\ supplierReturn[r].status = "none"
    /\ \A x \in Part : lines[x] > 0 => Remaining(x, lines[x])
    /\ SetReturn(r, [status |-> "draft", lines |-> lines])

EditLine(r, x, q) ==
    /\ supplierReturn[r].status = "draft"
    /\ SetReturn(r, [supplierReturn[r] EXCEPT !.lines[x] = q])

AddReturnLine(r, x, q) ==
    /\ supplierReturn[r].lines[x] = 0 /\ Remaining(x, q)
    /\ EditLine(r, x, q)

UpdateReturnLine(r, x, q) ==
    /\ supplierReturn[r].lines[x] > 0 /\ Remaining(x, q)
    /\ EditLine(r, x, q)

DeleteReturnLine(r, x) == supplierReturn[r].lines[x] > 0 /\ EditLine(r, x, 0)

CancelSupplierReturn(r) ==
    /\ supplierReturn[r].status = "draft"
    /\ SetReturn(r, [supplierReturn[r] EXCEPT !.status = "cancelled"])

CompleteSupplierReturn(r) ==
    /\ supplierReturn[r].status = "dispatched"
    /\ SetReturn(r, [supplierReturn[r] EXCEPT !.status = "completed"])

-----------------------------------------------------------------------------
(* Dispatching a return.                                                   *)

ReturnedParts(r) == {x \in Part : supplierReturn[r].lines[x] > 0}

DispatchSupplierReturn(p, r) ==
    /\ dispatch[p].phase = "idle"
    /\ supplierReturn[r].status = "draft" /\ ReturnedParts(r) # {} /\ returnLock[r] = None
    /\ returnLock' = [returnLock EXCEPT ![r] = p]
    /\ dispatch' = [dispatch EXCEPT ![p] = [phase |-> "lines", supplierReturn |-> r,
                                            todo |-> ReturnedParts(r), taken |-> 0]]
    /\ rivalled' = (rivalled \/ \E q \in Request : dispatch[q].phase # "idle")
    /\ UNCHANGED <<supplierReturn, stock, stockLock>>

\* Mutated form: reserved stock may go back too.
OnHand(p, q) == q <= stock.on_hand - dispatch[p].taken

Available(p, q) == q <= stock.on_hand - dispatch[p].taken - stock.reserved

LockBalance(p) == stockLock \in {None, p} /\ stockLock' = p

\* A line of rejected goods takes nothing out of stock.
DispatchLine(p, x) ==
    LET q == supplierReturn[dispatch[p].supplierReturn].lines[x]
    IN /\ x \in dispatch[p].todo
       /\ Remaining(x, q)
       /\ IF x[2] = "accepted"
          THEN /\ LockBalance(p) /\ Available(p, q)
               /\ dispatch' = [dispatch EXCEPT ![p].todo = @ \ {x}, ![p].taken = @ + q]
          ELSE /\ dispatch' = [dispatch EXCEPT ![p].todo = @ \ {x}]
               /\ UNCHANGED stockLock
       /\ UNCHANGED <<supplierReturn, stock, returnLock, rivalled>>

EndDispatch(p) ==
    /\ returnLock' = [r \in Return |-> IF returnLock[r] = p THEN None ELSE returnLock[r]]
    /\ stockLock' = IF stockLock = p THEN None ELSE stockLock
    /\ dispatch' = [dispatch EXCEPT ![p] = NoDispatch]
    /\ UNCHANGED rivalled

FinishDispatch(p) ==
    LET r == dispatch[p].supplierReturn
    IN /\ dispatch[p].phase = "lines" /\ dispatch[p].todo = {}
       /\ supplierReturn' = [supplierReturn EXCEPT ![r].status = "dispatched"]
       /\ stock' = [stock EXCEPT !.on_hand = @ - dispatch[p].taken]
       /\ EndDispatch(p)

\* A check fails, the database reports an error or a deadlock, or the process dies.
FailDispatch(p) ==
    /\ dispatch[p].phase # "idle"
    /\ EndDispatch(p) /\ UNCHANGED <<supplierReturn, stock>>

-----------------------------------------------------------------------------
Returnable(x) == 1 .. ReceivedAs[x]

DraftStep(r) ==
    \/ \E x \in Part : \/ \E q \in Returnable(x) :
                            \/ CreateSupplierReturn(r, [NoReturn.lines EXCEPT ![x] = q])
                            \/ AddReturnLine(r, x, q) \/ UpdateReturnLine(r, x, q)
                       \/ DeleteReturnLine(r, x)
    \/ CreateSupplierReturn(r, NoReturn.lines)
    \/ CancelSupplierReturn(r) \/ CompleteSupplierReturn(r)

DispatchStep(p) ==
    \/ \E r \in Return : DispatchSupplierReturn(p, r)
    \/ \E x \in Part : DispatchLine(p, x)
    \/ FinishDispatch(p) \/ FailDispatch(p)

ReturnsNext ==
    \/ StockStep
    \/ \E r \in Return : DraftStep(r)
    \/ \E p \in Request : DispatchStep(p)

ReturnsSpec == ReturnsInit /\ [][ReturnsNext]_returnsVars

-----------------------------------------------------------------------------
(* Properties.                                                             *)

\* The returns that went out never exceed what the receipt brought, as what it was
\* accepted or rejected, unless two dispatches overlapped; and however dispatches
\* interleave with each other and with reservations of the stock, they leave what is
\* reserved.
ReturnsStayWithin ==
    /\ ~rivalled => \A x \in Part : ReturnedQuantity(x) <= ReceivedAs[x]
    /\ stock.reserved <= stock.on_hand
=============================================================================
