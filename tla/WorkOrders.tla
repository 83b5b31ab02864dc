----------------------------- MODULE WorkOrders -----------------------------
(***************************************************************************)
(* Work orders, their checklists and their closeouts.                      *)
(*                                                                         *)
(* An operation loads the work order with its checklist, decides on what   *)
(* it loaded, and commits.  No lock is held between the two, and the       *)
(* commit writes only the columns the operation changed: two operations    *)
(* that cross each decide on what the other is about to change.  crossed   *)
(* remembers that they did.  Only the closeout row is locked FOR UPDATE.   *)
(***************************************************************************)
EXTENDS Requests

CONSTANTS WorkOrder, ChecklistItem  \* those that may ever be made

ASSUME WorkOrdersAssumption ==
    /\ None \notin Request \cup WorkOrder
    /\ ChecklistItem \cap {"order", "closeout"} = {}

VARIABLES
    work,          \* work_orders, each with its checklist items and its closeout
    closeoutLock,
    job,           \* per request: the row its operation writes, and the columns
    crossed        \* work orders on which operations crossed

workOrdersVars == <<work, closeoutLock, job, crossed>>

WorkStatuses == {"draft", "scheduled", "dispatched", "in_progress", "on_hold", "completed", "cancelled"}
WorkRows    == [status : WorkStatuses \cup {"none"}, is_active : BOOLEAN,
                 is_scheduled : BOOLEAN]  \* scheduled_start is not null
ItemRows     == [status : {"none", "pending", "completed", "skipped"}, is_required : BOOLEAN,
                 is_active : BOOLEAN]
Reports      == {"first", "amended"}
CloseoutRows == [status : {"none", "submitted", "rejected", "approved"}, is_invoice_ready : BOOLEAN,
                 report : Reports]

Place    == {"order", "closeout"} \cup ChecklistItem   \* the rows of a work order
Rows(x)  == CASE x = "order" -> WorkRows [] x = "closeout" -> CloseoutRows [] OTHER -> ItemRows
NoRow(x) == CASE x = "order"    -> [status |-> "none", is_active |-> FALSE, is_scheduled |-> FALSE]
              [] x = "closeout" -> [status |-> "none", is_invoice_ready |-> FALSE, report |-> "first"]
              [] OTHER          -> [status |-> "none", is_required |-> FALSE, is_active |-> FALSE]
NoJob    == [work |-> None, place |-> None, creates |-> FALSE, columns |-> <<>>]

WorkOrdersTypeOK ==
    /\ \A w \in WorkOrder, x \in Place : work[w][x] \in Rows(x)
    /\ closeoutLock \in [WorkOrder -> Request \cup {None}]
    /\ \A p \in Request : job[p] # NoJob =>
         /\ job[p].work \in WorkOrder /\ job[p].place \in Place /\ job[p].creates \in BOOLEAN
         /\ Overwritten(NoRow(job[p].place), job[p].columns) \in Rows(job[p].place)
    /\ crossed \subseteq WorkOrder

WorkOrdersInit ==
    /\ work = [w \in WorkOrder |-> [x \in Place |-> NoRow(x)]]
    /\ closeoutLock = [w \in WorkOrder |-> None]
    /\ job = [p \in Request |-> NoJob]
    /\ crossed = {}

-----------------------------------------------------------------------------
(* An operation begins: it loads w, and is to make one of its rows `to'.   *)

\* Does it matter to what others decide about the work order?
Decisive(x) == x \in {"order"} \cup ChecklistItem

Begin(p, w, x, to) ==
    /\ job[p] = NoJob
    /\ to # work[w][x]
    /\ job' = [job EXCEPT ![p] = [work |-> w, place |-> x, creates |-> work[w][x].status = "none",
                                  columns |-> Changed(work[w][x], to)]]
    /\ crossed' = IF \E q \in Request : job[q].work = w /\ (Decisive(x) \/ Decisive(job[q].place))
                  THEN crossed \cup {w} ELSE crossed
    /\ UNCHANGED work

\* Without a lock.
Operate(p, w, x, to) == Begin(p, w, x, to) /\ UNCHANGED closeoutLock

SetWorkOrder(p, w, to) == Operate(p, w, "order", to)

Terminal == {"completed", "cancelled"}

Open(w) == work[w].order.is_active /\ work[w].order.status \notin Terminal

CreateWorkOrder(p, w, status, scheduled) ==
    /\ work[w].order.status = "none" /\ \A q \in Request : job[q].work # w
    /\ status = "scheduled" => scheduled
    /\ SetWorkOrder(p, w, [status |-> status, is_active |-> TRUE, is_scheduled |-> scheduled])

UpdateWorkOrder(p, w, scheduled) ==
    Open(w) /\ SetWorkOrder(p, w, [work[w].order EXCEPT !.is_scheduled = scheduled])

ALLOWED_STATUS_TRANSITIONS ==
    [draft       |-> {"scheduled", "cancelled"},
     scheduled   |-> {"dispatched", "in_progress", "on_hold", "cancelled"},
     dispatched  |-> {"in_progress", "on_hold", "cancelled"},
     in_progress |-> {"on_hold", "completed", "cancelled"},
     on_hold     |-> {"scheduled", "dispatched", "in_progress", "cancelled"}]

\* Mutated form: an item that is not pending any more is done.
NothingPending(w) ==
    \A i \in ChecklistItem : work[w][i].is_active => work[w][i].status # "pending"

RequiredChecklistComplete(w) ==
    \A i \in ChecklistItem :
        work[w][i].is_active /\ work[w][i].is_required => work[w][i].status = "completed"

ChangeStatus(p, w, to) ==
    /\ Open(w)
    /\ to \in ALLOWED_STATUS_TRANSITIONS[work[w].order.status]
    /\ to \in {"scheduled", "dispatched"} => work[w].order.is_scheduled
    /\ to = "completed" => RequiredChecklistComplete(w)
    /\ SetWorkOrder(p, w, [work[w].order EXCEPT !.status = to])

\* set_status_to_scheduled is the caller's choice.
ScheduleWorkOrder(p, w, set_status) ==
    /\ Open(w)
    /\ SetWorkOrder(p, w, [work[w].order EXCEPT
         !.is_scheduled = TRUE,
         !.status = IF set_status /\ @ \in {"draft", "on_hold"} THEN "scheduled" ELSE @])

DispatchWorkOrder(p, w) ==
    /\ Open(w) /\ work[w].order.status = "scheduled" /\ work[w].order.is_scheduled
    /\ SetWorkOrder(p, w, [work[w].order EXCEPT !.status = "dispatched"])

DeactivateWorkOrder(p, w) ==
    /\ work[w].order.is_active
    /\ work[w].order.status \notin {"dispatched", "in_progress", "on_hold"}
    /\ SetWorkOrder(p, w, [work[w].order EXCEPT !.is_active = FALSE])

ReactivateWorkOrder(p, w) ==
    work[w].order.status # "none" /\ SetWorkOrder(p, w, [work[w].order EXCEPT !.is_active = TRUE])

-----------------------------------------------------------------------------
(* The checklist.                                                          *)

SetItem(p, w, i, item) ==
    /\ Open(w)
    /\ Operate(p, w, i, item)

Exists(w, i) == work[w][i].is_active

CreateItem(p, w, i, required) ==
    /\ work[w][i].status = "none"
    /\ SetItem(p, w, i, [status |-> "pending", is_required |-> required, is_active |-> TRUE])

UpdateItem(p, w, i, required) ==
    Exists(w, i) /\ SetItem(p, w, i, [work[w][i] EXCEPT !.is_required = required])

ChangeItemStatus(p, w, i, to) ==
    Exists(w, i) /\ SetItem(p, w, i, [work[w][i] EXCEPT !.status = to])

DeactivateItem(p, w, i) ==
    Exists(w, i) /\ SetItem(p, w, i, [work[w][i] EXCEPT !.is_active = FALSE])

ReactivateItem(p, w, i) ==
    work[w][i].status # "none" /\ SetItem(p, w, i, [work[w][i] EXCEPT !.is_active = TRUE])

-----------------------------------------------------------------------------
(* The closeout.                                                           *)

\* Mutated form: the closeout is read without its lock.
LoadCloseout(p, w, to) ==
    /\ work[w].order.is_active
    /\ Operate(p, w, "closeout", to)

LockCloseout(p, w, to) ==
    /\ work[w].order.is_active /\ closeoutLock[w] = None
    /\ closeoutLock' = IF work[w].closeout.status = "none" THEN closeoutLock
                       ELSE [closeoutLock EXCEPT ![w] = p]
    /\ Begin(p, w, "closeout", to)

Closeout(w) == work[w].closeout

SubmitCloseout(p, w, report) ==
    /\ work[w].order.status = "completed" /\ Closeout(w).status # "approved"
    /\ LockCloseout(p, w, [Closeout(w) EXCEPT !.status = "submitted", !.report = report])

UpdateCloseout(p, w, report) ==
    /\ Closeout(w).status \in {"submitted", "rejected"}
    /\ LockCloseout(p, w, [Closeout(w) EXCEPT !.report = report])

ApproveCloseout(p, w, ready) ==
    /\ Closeout(w).status = "submitted"
    /\ LockCloseout(p, w, [Closeout(w) EXCEPT !.status = "approved", !.is_invoice_ready = ready \/ @])

RejectCloseout(p, w) ==
    /\ Closeout(w).status = "submitted"
    /\ LockCloseout(p, w, [Closeout(w) EXCEPT !.status = "rejected", !.is_invoice_ready = FALSE])

MarkInvoiceReady(p, w) ==
    /\ Closeout(w).status = "approved"
    /\ LockCloseout(p, w, [Closeout(w) EXCEPT !.is_invoice_ready = TRUE])

-----------------------------------------------------------------------------
(* The operation commits.                                                  *)

EndJob(p) ==
    /\ closeoutLock' = [w \in WorkOrder |-> IF closeoutLock[w] = p THEN None ELSE closeoutLock[w]]
    /\ job' = [job EXCEPT ![p] = NoJob]
    /\ UNCHANGED crossed

\* Unless it is to make a row that somebody else made in the meantime.
CommitJob(p) ==
    LET j == job[p]
    IN /\ j # NoJob
       /\ j.creates => work[j.work][j.place].status = "none"
       /\ work' = [work EXCEPT ![j.work][j.place] = Overwritten(@, j.columns)]
       /\ EndJob(p)

\* A check fails, the database reports a conflict or the process dies.
AbandonJob(p) == job[p] # NoJob /\ EndJob(p) /\ UNCHANGED work

-----------------------------------------------------------------------------
WorkOrderOperation(p, w) ==
    \/ \E s \in WorkStatuses, scheduled \in BOOLEAN : CreateWorkOrder(p, w, s, scheduled)
    \/ \E s \in WorkStatuses : ChangeStatus(p, w, s)
    \/ \E set \in BOOLEAN : UpdateWorkOrder(p, w, set) \/ ScheduleWorkOrder(p, w, set)
    \/ DispatchWorkOrder(p, w) \/ DeactivateWorkOrder(p, w) \/ ReactivateWorkOrder(p, w)

ChecklistOperation(p, w, i) ==
    \/ \E required \in BOOLEAN : CreateItem(p, w, i, required) \/ UpdateItem(p, w, i, required)
    \/ \E s \in {"pending", "completed", "skipped"} : ChangeItemStatus(p, w, i, s)
    \/ DeactivateItem(p, w, i) \/ ReactivateItem(p, w, i)

CloseoutOperation(p, w) ==
    \/ \E report \in Reports : SubmitCloseout(p, w, report) \/ UpdateCloseout(p, w, report)
    \/ \E ready \in BOOLEAN : ApproveCloseout(p, w, ready)
    \/ RejectCloseout(p, w) \/ MarkInvoiceReady(p, w)

WorkOrdersNext ==
    \/ \E p \in Request, w \in WorkOrder :
         \/ WorkOrderOperation(p, w) \/ CloseoutOperation(p, w)
         \/ \E i \in ChecklistItem : ChecklistOperation(p, w, i)
    \/ \E p \in Request : CommitJob(p) \/ AbandonJob(p)

WorkOrdersSpec == WorkOrdersInit /\ [][WorkOrdersNext]_workOrdersVars

-----------------------------------------------------------------------------
(* Properties.                                                             *)

\* A completed work order has every required item of its checklist completed, and only
\* a completed one has a closeout, unless operations on the work order crossed.
CompletionHolds ==
    \A w \in WorkOrder \ crossed :
        /\ work[w].order.status = "completed" =>
             {i \in ChecklistItem : work[w][i].is_active /\ work[w][i].is_required}
                \subseteq {i \in ChecklistItem : work[w][i].status = "completed"}
        /\ work[w].closeout.status # "none" => work[w].order.status = "completed"

\* However submissions, edits, approvals and rejections interleave, what the customer
\* approved stays approved as it was reported, and nothing else is ready for invoice.
ApprovalStands ==
    [][\A w \in WorkOrder :
         IF work[w].closeout.status = "approved"
         THEN /\ work'[w].closeout.status = "approved"
              /\ work'[w].closeout.report = work[w].closeout.report
              /\ work[w].closeout.is_invoice_ready => work'[w].closeout.is_invoice_ready
         ELSE ~work[w].closeout.is_invoice_ready]_workOrdersVars
=============================================================================
