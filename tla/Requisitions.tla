---------------------------- MODULE Requisitions ----------------------------
(***************************************************************************)
(* Purchase requisitions, from draft to approval, and the purchase orders  *)
(* they are converted into.                                                *)
(*                                                                         *)
(* Each operation locks the row of its requisition (of its order), loads   *)
(* it with the lines, and writes what it changed when it commits.  On a    *)
(* requisition these are two steps; the orders' own operations are one.    *)
(*                                                                         *)
(* One operation takes no lock: a job's request for its missing materials  *)
(* replaces the lines it generated before.  overtaken remembers the        *)
(* requisitions on which it crossed another operation.                     *)
(***************************************************************************)
EXTENDS Requests, Integers, FiniteSetsExt

CONSTANTS
    Requisition, Order,  \* those that may ever be made
    Position,            \* positions a line may have, from 0
    MaxCost              \* bound: what a line costs

ASSUME RequisitionsAssumption ==
    /\ Position \subseteq Nat /\ IsFiniteSet(Position) /\ MaxCost \in Nat \ {0}
    /\ None \notin Request \cup Requisition \cup Order

VARIABLES
    requisition,      \* purchase_requisitions, with what the line at each position costs
    order,            \* purchase_orders: status, source_requisition_id, lines
    requisitionLock,
    drafting,         \* per request: the operation under way, with what it loaded and writes
    overtaken

requisitionsVars == <<requisition, order, requisitionLock, drafting, overtaken>>

Costs           == [Position -> Nat]   \* 0 where there is no line
RequisitionRows == [status : {"none", "draft", "submitted", "approved", "rejected", "cancelled", "converted"},
                    shortage : BOOLEAN,           \* it asks for the missing materials of the job
                    generated : SUBSET Position,  \* the lines that do
                    lines : Costs, total : Nat]
OrderRows       == [status : {"none", "draft", "issued", "cancelled"},
                    source : Requisition \cup {None}, lines : Costs, total : Nat]
Drafts          == [requisition : Requisition \cup {None}, from : RequisitionRows, to : RequisitionRows,
                    order : Order \cup {None}]

NoCosts       == [x \in Position |-> 0]
NoRequisition == [status |-> "none", shortage |-> FALSE, generated |-> {}, lines |-> NoCosts, total |-> 0]
NoOrder       == [status |-> "none", source |-> None, lines |-> NoCosts, total |-> 0]
NoDraft       == [requisition |-> None, from |-> NoRequisition, to |-> NoRequisition, order |-> None]

RequisitionsTypeOK ==
    /\ requisition \in [Requisition -> RequisitionRows]
    /\ order \in [Order -> OrderRows]
    /\ requisitionLock \in [Requisition -> Request \cup {None}]
    /\ drafting \in [Request -> Drafts]
    /\ overtaken \subseteq Requisition

RequisitionsInit ==
    /\ requisition = [r \in Requisition |-> NoRequisition]
    /\ order = [o \in Order |-> NoOrder]
    /\ requisitionLock = [r \in Requisition |-> None]
    /\ drafting = [p \in Request |-> NoDraft]
    /\ overtaken = {}

LineTotal(lines) == SumFunctionOnSet(lines, Position)

Placed(lines) == {x \in Position : lines[x] > 0}

\* int(highest or -1) + 1, where a highest position of 0 counts as none.
NextPosition(lines) == IF Placed(lines) \subseteq {0} THEN 0 ELSE Max(Placed(lines)) + 1

-----------------------------------------------------------------------------
(* Operations on a requisition: load it, under its lock or not ...         *)

Load(p, r, row, o) ==
    /\ drafting[p].requisition = None
    /\ drafting' = [drafting EXCEPT ![p] = [requisition |-> r, from |-> requisition[r], to |-> row, order |-> o]]
    /\ overtaken' = IF \E q \in Request : drafting[q].requisition = r THEN overtaken \cup {r} ELSE overtaken
    /\ UNCHANGED <<requisition, order>>

LoadForUpdate(p, r, row, o) ==
    /\ requisitionLock[r] = None
    /\ requisitionLock' = [requisitionLock EXCEPT ![r] = p]
    /\ Load(p, r, row, o)

LoadUnlocked(p, r, row) == Load(p, r, row, None) /\ UNCHANGED requisitionLock

MoveRequisition(p, r, from, to) ==
    /\ requisition[r].status \in from
    /\ LoadForUpdate(p, r, [requisition[r] EXCEPT !.status = to], None)

\* Mutated form: a submitted requisition may still be edited.
OpenStatuses == {"draft", "rejected", "submitted"}

EditableStatuses    == {"draft", "rejected"}
CancellableStatuses == {"draft", "submitted", "approved", "rejected"}

NewRequisition(lines) == [NoRequisition EXCEPT !.status = "draft", !.lines = lines, !.total = LineTotal(lines)]

CreateRequisition(p, r, lines) ==
    requisition[r].status = "none" /\ LoadForUpdate(p, r, NewRequisition(lines), None)

\* A change of the header only.
UpdateRequisition(p, r) == \E s \in EditableStatuses : MoveRequisition(p, r, {s}, s)

SetRequisitionLine(p, r, x, cost) ==
    LET lines == [requisition[r].lines EXCEPT ![x] = cost]
    IN /\ requisition[r].status \in EditableStatuses /\ x \in Position
       /\ LoadForUpdate(p, r, [requisition[r] EXCEPT !.lines = lines, !.total = LineTotal(lines),
                                                     !.generated = @ \cap Placed(lines)], None)

\* At the position asked for, or else at the next one.
AddRequisitionLine(p, r, x, cost) ==
    LET at == IF x = None THEN NextPosition(requisition[r].lines) ELSE x
    IN at \notin Placed(requisition[r].lines) /\ SetRequisitionLine(p, r, at, cost)

UpdateRequisitionLine(p, r, x, cost) ==
    x \in Placed(requisition[r].lines) /\ SetRequisitionLine(p, r, x, cost)

DeleteRequisitionLine(p, r, x) ==
    x \in Placed(requisition[r].lines) /\ SetRequisitionLine(p, r, x, 0)

SubmitRequisition(p, r) ==
    /\ Placed(requisition[r].lines) # {}
    /\ MoveRequisition(p, r, EditableStatuses, "submitted")

ApproveRequisition(p, r) == MoveRequisition(p, r, {"submitted"}, "approved")
RejectRequisition(p, r)  == MoveRequisition(p, r, {"submitted"}, "rejected")
CancelRequisition(p, r)  == MoveRequisition(p, r, CancellableStatuses, "cancelled")

\* Mutated form: whether it was converted already is not looked at.
AnyRequisition(r) == requisition[r].status \notin {"none", "draft"}

Convertible(r) ==
    /\ requisition[r].status = "approved" /\ Placed(requisition[r].lines) # {}
    /\ \A o \in Order : order[o].source # r

ConvertRequisition(p, r, o) ==
    /\ Convertible(r)
    /\ order[o].status = "none" /\ \A q \in Request : drafting[q].order # o
    /\ LoadForUpdate(p, r, [requisition[r] EXCEPT !.status = "converted"], o)

\* The requests of the job for missing materials that are still open.
OpenShortageRequests ==
    {r \in Requisition : requisition[r].shortage /\ requisition[r].status \in {"draft", "submitted", "approved"}}

\* The job has no open request: one is created, for n missing materials.
CreateShortageRequest(p, r, n, cost) ==
    LET made  == {x \in Position : x < n}
        lines == [x \in Position |-> IF x \in made THEN cost ELSE 0]
    IN /\ OpenShortageRequests = {} /\ requisition[r].status = "none" /\ Cardinality(made) = n
       /\ LoadForUpdate(p, r, [NewRequisition(lines) EXCEPT !.shortage = TRUE, !.generated = made], None)

\* It has one: if that is a draft its generated lines make place for new ones, at the
\* lowest positions that the other lines leave; if not it is returned as it is.
SyncDraftShortageRequest(p, r, n, cost) ==
    LET row   == requisition[r]
        kept  == Placed(row.lines) \ row.generated
        made  == {x \in Position \ kept : Cardinality({y \in Position \ kept : y < x}) < n}
        lines == [x \in Position |-> IF x \in made THEN cost ELSE IF x \in kept THEN row.lines[x] ELSE 0]
    IN /\ r \in OpenShortageRequests /\ row.status = "draft" /\ Cardinality(made) = n
       /\ LoadUnlocked(p, r, [row EXCEPT !.lines = lines, !.total = LineTotal(lines), !.generated = made])

(* ... and commit what the session changed of it: columns, and lines.      *)

\* The lines an operation inserts: those it generates anew, or adds.
Inserted(w) == {x \in Placed(w.to.lines) : x \in w.to.generated \/ x \notin Placed(w.from.lines)}

\* Ends p, and those that are to insert a line where p did: the unique key refuses them.
EndDraft(p, inserted) ==
    /\ requisitionLock' = [r \in Requisition |-> IF requisitionLock[r] = p THEN None
                                                 ELSE requisitionLock[r]]
    /\ drafting' = [q \in Request |->
           IF \/ q = p
              \/ drafting[q].requisition = drafting[p].requisition /\ Inserted(drafting[q]) \cap inserted # {}
           THEN NoDraft ELSE drafting[q]]

Newer(from, to, now) == IF to # from THEN to ELSE now

\* A generated line that someone deleted meanwhile is not there to be replaced.
Merged(w, now) ==
    LET lines == [x \in Position |->
                    IF x \in Inserted(w) THEN w.to.lines[x]
                    ELSE IF x \in w.from.generated \ now.generated THEN now.lines[x]
                    ELSE Newer(w.from.lines[x], w.to.lines[x], now.lines[x])]
    IN [status    |-> Newer(w.from.status, w.to.status, now.status),
        shortage  |-> w.to.shortage,
        generated |-> ((now.generated \ w.from.generated) \cup w.to.generated) \cap Placed(lines),
        lines     |-> lines,
        total     |-> Newer(w.from.total, w.to.total, now.total)]

CommitRequisition(p) ==
    LET w == drafting[p]
        r == w.requisition
    IN /\ r # None /\ requisitionLock[r] \in {p, None}
       /\ requisition' = [requisition EXCEPT ![r] = Merged(w, @)]
       /\ order' = IF w.order = None THEN order
                   ELSE [order EXCEPT ![w.order] = [status |-> "draft", source |-> r, lines |-> w.to.lines,
                                                    total |-> LineTotal(w.to.lines)]]
       /\ EndDraft(p, Inserted(w)) /\ UNCHANGED overtaken

\* A check fails, the database reports a conflict or the process dies.
AbandonRequisition(p) ==
    /\ drafting[p].requisition # None
    /\ EndDraft(p, {}) /\ UNCHANGED <<requisition, order, overtaken>>

-----------------------------------------------------------------------------
(* Operations on an order.                                                 *)

SetOrderRow(o, row) ==
    /\ \A q \in Request : drafting[q].order # o
    /\ order' = [order EXCEPT ![o] = row]
    /\ UNCHANGED <<requisition, requisitionLock, drafting, overtaken>>

CreateOrder(o, lines) ==
    /\ order[o].status = "none"
    /\ SetOrderRow(o, [NoOrder EXCEPT !.status = "draft", !.lines = lines, !.total = LineTotal(lines)])

SetOrderLine(o, x, cost) ==
    LET lines == [order[o].lines EXCEPT ![x] = cost]
    IN /\ order[o].status = "draft" /\ x \in Position
       /\ SetOrderRow(o, [order[o] EXCEPT !.lines = lines, !.total = LineTotal(lines)])

AddOrderLine(o, x, cost) ==
    LET at == IF x = None THEN NextPosition(order[o].lines) ELSE x
    IN at \notin Placed(order[o].lines) /\ SetOrderLine(o, at, cost)

UpdateOrderLine(o, x, cost) == x \in Placed(order[o].lines) /\ SetOrderLine(o, x, cost)

DeleteOrderLine(o, x) == x \in Placed(order[o].lines) /\ SetOrderLine(o, x, 0)

IssueOrderRow(o) ==
    /\ order[o].status = "draft" /\ Placed(order[o].lines) # {}
    /\ SetOrderRow(o, [order[o] EXCEPT !.status = "issued"])

CancelOrderRow(o) ==
    /\ order[o].status \in {"draft", "issued"}
    /\ SetOrderRow(o, [order[o] EXCEPT !.status = "cancelled"])

-----------------------------------------------------------------------------
OperateOn(p, r) ==
    \/ CreateRequisition(p, r, NoCosts)
    \/ \E c \in 1 .. MaxCost :
         \/ \E x \in Position : UpdateRequisitionLine(p, r, x, c)
         \/ \E x \in Position : CreateRequisition(p, r, [NoCosts EXCEPT ![x] = c])
         \/ \E x \in Position \cup {None} : AddRequisitionLine(p, r, x, c)
         \/ \E n \in 1 .. Cardinality(Position) :
              CreateShortageRequest(p, r, n, c) \/ SyncDraftShortageRequest(p, r, n, c)
    \/ \E x \in Position : DeleteRequisitionLine(p, r, x)
    \/ UpdateRequisition(p, r) \/ SubmitRequisition(p, r) \/ ApproveRequisition(p, r)
    \/ RejectRequisition(p, r) \/ CancelRequisition(p, r)
    \/ \E o \in Order : ConvertRequisition(p, r, o)

OrderStep(o) ==
    \/ CreateOrder(o, NoCosts)
    \/ \E c \in 1 .. MaxCost :
         \/ \E x \in Position : UpdateOrderLine(o, x, c)
         \/ \E x \in Position \cup {None} : AddOrderLine(o, x, c)
    \/ \E x \in Position : DeleteOrderLine(o, x)
    \/ IssueOrderRow(o) \/ CancelOrderRow(o)

RequisitionsNext ==
    \/ \E p \in Request, r \in Requisition : OperateOn(p, r)
    \/ \E p \in Request : CommitRequisition(p) \/ AbandonRequisition(p)
    \/ \E o \in Order : OrderStep(o)

RequisitionsSpec == RequisitionsInit /\ [][RequisitionsNext]_requisitionsVars

-----------------------------------------------------------------------------
(* Properties.                                                             *)

\* A requisition is converted into one order for good, whatever becomes of the order and
\* whatever a request for missing materials writes over it.
ConvertedOnce ==
    \A r \in Requisition :
        IF requisition[r].status = "converted"
        THEN \E o \in Order : \A q \in Order : order[q].source = r <=> q = o
        ELSE \A o \in Order : order[o].source # r

\* What is approved is what was submitted, and what is converted is what was approved,
\* unless a request for missing materials crossed another operation on the requisition.
SubmittedTermsStay ==
    [][\A r \in Requisition \ overtaken' :
         /\ requisition[r].status \in {"submitted", "approved", "converted"} =>
              /\ requisition'[r].lines = requisition[r].lines
              /\ requisition'[r].total = LineTotal(requisition'[r].lines)
         /\ requisition'[r].status = "converted" => requisition[r].status \in {"approved", "converted"}
      ]_requisitionsVars
=============================================================================
