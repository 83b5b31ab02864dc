----------------------------- MODULE Materials -----------------------------
(***************************************************************************)
(* The materials a job requires, what covers them of the stock, and the    *)
(* allowances to proceed in spite of a shortage.                           *)
(*                                                                         *)
(* An operation on an allowance locks it and the requirement it is for,    *)
(* computes the shortage from stock it does not lock, and writes what it   *)
(* changed when it commits.  An operation on a requirement alone is one    *)
(* step; so are those of the inventory on the item, for this job and for   *)
(* others: Inventory has them in full.                                     *)
(***************************************************************************)
EXTENDS Requests, Integers

CONSTANTS
    Requirement,  \* the job's material requirements, each of an item of its own
    MaxRequired,  \* bound: quantities required and requested
    MaxSupply     \* bound: stock of an item

ASSUME MaterialsAssumption ==
    /\ MaxRequired \in Nat \ {0} /\ MaxSupply \in Nat
    /\ None \notin Request \cup Requirement

VARIABLES
    material,     \* work_order_material_requirements
    supply,       \* of its item: stock, and the reservations and consumption of the requirement
    allowance,    \* work_order_material_shortage_allowances, at most one per requirement
    allowanceLock,
    authorizing   \* per request: the operation on an allowance under way

materialsVars == <<material, supply, allowance, allowanceLock, authorizing>>

Materials  == [standing : {"none", "active", "inactive"}, required : 0 .. MaxRequired]
Supplies   == [onHand : 0 .. MaxSupply, reserved : 0 .. MaxSupply, forJob : 0 .. MaxSupply, consumed : Nat]
Allowances == [status : {"none", "draft", "submitted", "approved", "rejected", "cancelled"},
               requested : 0 .. MaxRequired, approved : 0 .. MaxRequired]
Authorizations == [requirement : Requirement \cup {None}, from : Allowances, to : Allowances]

NoMaterial      == [standing |-> "none", required |-> 0]
NoSupply        == [onHand |-> 0, reserved |-> 0, forJob |-> 0, consumed |-> 0]
NoAllowance     == [status |-> "none", requested |-> 0, approved |-> 0]
NoAuthorization == [requirement |-> None, from |-> NoAllowance, to |-> NoAllowance]

MaterialsTypeOK ==
    /\ material \in [Requirement -> Materials]
    /\ supply \in [Requirement -> Supplies]
    /\ allowance \in [Requirement -> Allowances]
    /\ allowanceLock \in [Requirement -> Request \cup {None}]
    /\ authorizing \in [Request -> Authorizations]

MaterialsInit ==
    /\ material = [m \in Requirement |-> NoMaterial]
    /\ supply = [m \in Requirement |-> NoSupply]
    /\ allowance = [m \in Requirement |-> NoAllowance]
    /\ allowanceLock = [m \in Requirement |-> None]
    /\ authorizing = [p \in Request |-> NoAuthorization]

-----------------------------------------------------------------------------
(* What is missing.                                                        *)

Smaller(a, b) == IF a < b THEN a ELSE b
NotNegative(a) == IF a < 0 THEN 0 ELSE a

InStock(m) == NotNegative(supply[m].onHand - supply[m].reserved)

\* The readiness of the job's materials.
MissingQuantity(m) ==
    LET required  == material[m].required
        consumed  == Smaller(supply[m].consumed, required)
        remaining == NotNegative(required - consumed)
        covered   == consumed + Smaller(remaining, InStock(m) + supply[m].forJob)
    IN NotNegative(required - covered)

\* reservation_totals has the requirement's reservations under its id and is asked for
\* that of the item, so it answers 0; consumption is not looked at.
ReservationTotal(m, key) == IF key = "requirement" THEN supply[m].forJob ELSE 0

LiveShortage(m) ==
    LET required == material[m].required
        covered  == Smaller(required, InStock(m) + ReservationTotal(m, "item"))
    IN NotNegative(required - covered)

-----------------------------------------------------------------------------
(* Requirements and stock.                                                 *)

SetMaterial(m, to) ==
    /\ allowanceLock[m] = None
    /\ material' = [material EXCEPT ![m] = to]
    /\ UNCHANGED <<supply, allowance, allowanceLock, authorizing>>

\* A requirement that was removed is restored with the new quantity.
CreateRequirement(m, n) ==
    /\ material[m].standing # "active"
    /\ SetMaterial(m, [standing |-> "active", required |-> n])

UpdateRequirement(m, n) ==
    /\ material[m].standing = "active"
    /\ SetMaterial(m, [material[m] EXCEPT !.required = n])

DeactivateRequirement(m) ==
    /\ material[m].standing = "active"
    /\ SetMaterial(m, [material[m] EXCEPT !.standing = "inactive"])

ReactivateRequirement(m) ==
    /\ material[m].standing = "inactive"
    /\ SetMaterial(m, [material[m] EXCEPT !.standing = "active"])

SetSupply(m, to) ==
    /\ to \in Supplies
    /\ supply' = [supply EXCEPT ![m] = to]
    /\ UNCHANGED <<material, allowance, allowanceLock, authorizing>>

ReceiveItem(m) == SetSupply(m, [supply[m] EXCEPT !.onHand = @ + 1])

IssueItem(m) == InStock(m) > 0 /\ SetSupply(m, [supply[m] EXCEPT !.onHand = @ - 1])

\* n of 1 where the reservation is the job's, of 0 where it is another job's.
ReserveItem(m, n) ==
    /\ InStock(m) > 0 /\ (n = 1 => material[m].standing = "active")
    /\ SetSupply(m, [supply[m] EXCEPT !.reserved = @ + 1, !.forJob = @ + n])

Reserved(m, n) == IF n = 1 THEN supply[m].forJob ELSE supply[m].reserved - supply[m].forJob

ReleaseItem(m, n) ==
    /\ Reserved(m, n) > 0
    /\ SetSupply(m, [supply[m] EXCEPT !.reserved = @ - 1, !.forJob = @ - n])

ConsumeItem(m, n) ==
    /\ Reserved(m, n) > 0 /\ supply[m].consumed + n <= MaxRequired
    /\ SetSupply(m, [supply[m] EXCEPT !.onHand = @ - 1, !.reserved = @ - 1, !.forJob = @ - n,
                                      !.consumed = @ + n])

-----------------------------------------------------------------------------
(* Allowances: load one under its lock ...                                 *)

\* Mutated form: the allowance is read without its lock.
AllowanceRead(p, m) == UNCHANGED allowanceLock

LockAllowance(p, m) ==
    /\ allowanceLock[m] = None
    /\ allowanceLock' = [allowanceLock EXCEPT ![m] = p]

BeginAllowance(p, m, to) ==
    /\ authorizing[p].requirement = None
    /\ LockAllowance(p, m)
    /\ authorizing' = [authorizing EXCEPT ![p] = [requirement |-> m, from |-> allowance[m], to |-> to]]
    /\ UNCHANGED <<material, supply, allowance>>

\* Quantities are positive, so there is a shortage too.
WithinShortage(m, n) == material[m].standing = "active" /\ n \in 1 .. LiveShortage(m)

CreateAllowance(p, m, n) ==
    /\ allowance[m].status = "none" /\ WithinShortage(m, n)
    /\ BeginAllowance(p, m, [status |-> "draft", requested |-> n, approved |-> 0])

UpdateAllowance(p, m, n) ==
    /\ allowance[m].status \in {"draft", "rejected"} /\ WithinShortage(m, n)
    /\ BeginAllowance(p, m, [status |-> "draft", requested |-> n, approved |-> allowance[m].approved])

SubmitAllowance(p, m) ==
    /\ allowance[m].status = "draft" /\ WithinShortage(m, allowance[m].requested)
    /\ BeginAllowance(p, m, [allowance[m] EXCEPT !.status = "submitted"])

ApproveAllowance(p, m, n) ==
    /\ allowance[m].status = "submitted" /\ WithinShortage(m, n)
    /\ n <= allowance[m].requested
    /\ BeginAllowance(p, m, [allowance[m] EXCEPT !.status = "approved", !.approved = n])

RejectAllowance(p, m) ==
    /\ allowance[m].status = "submitted"
    /\ BeginAllowance(p, m, [allowance[m] EXCEPT !.status = "rejected", !.approved = 0])

CancelAllowance(p, m) ==
    /\ allowance[m].status \in {"draft", "submitted", "approved"}
    /\ BeginAllowance(p, m, [allowance[m] EXCEPT !.status = "cancelled"])

(* ... and commit the columns that changed.                                *)

EndAllowance(p) ==
    /\ allowanceLock' = [m \in Requirement |-> IF allowanceLock[m] = p THEN None ELSE allowanceLock[m]]
    /\ authorizing' = [authorizing EXCEPT ![p] = NoAuthorization]
    /\ UNCHANGED <<material, supply>>

CommitAllowance(p) ==
    LET w   == authorizing[p]
        row == Overwritten(allowance[w.requirement], Changed(w.from, w.to))
    IN /\ w.requirement # None
       /\ row.approved <= row.requested     \* approved_quantity_not_greater_than_requested
       /\ allowance' = [allowance EXCEPT ![w.requirement] = row]
       /\ EndAllowance(p)

AbandonAllowance(p) ==
    /\ authorizing[p].requirement # None
    /\ EndAllowance(p) /\ UNCHANGED allowance

-----------------------------------------------------------------------------
MaterialStep(m) ==
    \/ \E n \in 1 .. MaxRequired : CreateRequirement(m, n) \/ UpdateRequirement(m, n)
    \/ DeactivateRequirement(m) \/ ReactivateRequirement(m)
    \/ ReceiveItem(m) \/ IssueItem(m)
    \/ \E n \in {0, 1} : ReserveItem(m, n) \/ ReleaseItem(m, n) \/ ConsumeItem(m, n)

AllowanceStep(p, m) ==
    \/ \E n \in 1 .. MaxRequired : CreateAllowance(p, m, n) \/ UpdateAllowance(p, m, n) \/ ApproveAllowance(p, m, n)
    \/ SubmitAllowance(p, m) \/ RejectAllowance(p, m) \/ CancelAllowance(p, m)

MaterialsNext ==
    \/ \E m \in Requirement : MaterialStep(m)
    \/ \E p \in Request, m \in Requirement : AllowanceStep(p, m)
    \/ \E p \in Request : CommitAllowance(p) \/ AbandonAllowance(p)

MaterialsSpec == MaterialsInit /\ [][MaterialsNext]_materialsVars

-----------------------------------------------------------------------------
(* Properties.                                                             *)

\* What was submitted is what is decided on: the quantity requested stays while an
\* allowance is submitted and once it is approved or cancelled, only a submitted allowance
\* is approved, and an approval is only ever cancelled.
AllowanceTermsStay ==
    [][\A m \in Requirement :
         LET was == allowance[m]
             now == allowance'[m]
         IN /\ was.status \in {"submitted", "approved", "cancelled"} => now.requested = was.requested
            /\ now.status = "approved" /\ was.status # "approved" => was.status = "submitted"
            /\ was.status = "approved" => now.status \in {"approved", "cancelled"} /\ now.approved = was.approved
            /\ was.status = "cancelled" => now = was
      ]_materialsVars

\* "This intentionally mirrors the readiness calculation used by WorkOrderMaterialService":
\* the shortage an allowance is checked against is the one the job's materials show.
ShortageMirrorsReadiness ==
    \A m \in Requirement : material[m].standing = "active" => LiveShortage(m) = MissingQuantity(m)
=============================================================================
