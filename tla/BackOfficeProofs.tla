-------------------------- MODULE BackOfficeProofs --------------------------
(***************************************************************************)
(* Proofs about the parts of the back office put together.                 *)
(*                                                                         *)
(* A behaviour in which one part moves is one of every part, since those   *)
(* that rest only stutter: so what is proved of each part alone holds of   *)
(* all of them side by side, and of what TLC looks at.                     *)
(***************************************************************************)
EXTENDS BackOffice, OfficeProofs, WorkProofs, ProcurementProofs

-----------------------------------------------------------------------------
LEMMA PartsBegin ==
    ASSUME BackOfficeInit
    PROVE /\ Init /\ AccountsInit /\ ReturnsInit /\ RequisitionsInit /\ QuotesInit
          /\ WorkOrdersInit /\ SchedulingInit /\ MaterialsInit /\ MembershipsInit
          /\ ExpensesInit /\ PositionsInit /\ DirectoryInit /\ DocumentsInit /\ AlertsInit
  BY DEF BackOfficeInit

\* A step in which one part moves is a step of that part, and of none of the others.
LEMMA PartsStep ==
    ASSUME [BackOfficeNext]_backOfficeVars
    PROVE  /\ [Next]_vars /\ [AccountsNext]_accountsVars /\ [ReturnsNext]_returnsVars
           /\ [RequisitionsNext]_requisitionsVars /\ [QuotesNext]_quotesVars
           /\ [WorkOrdersNext]_workOrdersVars /\ [SchedulingNext]_schedulingVars
           /\ [MaterialsNext]_materialsVars /\ [MembershipsNext]_membershipsVars
           /\ [ExpensesNext]_expensesVars /\ [PositionsNext]_positionsVars
           /\ [DirectoryNext]_directoryVars /\ [DocumentsNext]_documentsVars
           /\ [AlertsNext]_alertsVars
<1>1. CASE UNCHANGED backOfficeVars
    BY <1>1 DEF backOfficeVars
<1>2. CASE Rest("receipts") /\ Next
    BY <1>2 DEF Rest
<1>3. CASE Rest("accounts") /\ AccountsNext
    BY <1>3 DEF Rest
<1>4. CASE Rest("returns") /\ ReturnsNext
    BY <1>4 DEF Rest
<1>5. CASE Rest("requisitions") /\ RequisitionsNext
    BY <1>5 DEF Rest
<1>6. CASE Rest("quotes") /\ QuotesNext
    BY <1>6 DEF Rest
<1>7. CASE Rest("work orders") /\ WorkOrdersNext
    BY <1>7 DEF Rest
<1>8. CASE Rest("scheduling") /\ SchedulingNext
    BY <1>8 DEF Rest
<1>9. CASE Rest("materials") /\ MaterialsNext
    BY <1>9 DEF Rest
<1>10. CASE Rest("memberships") /\ MembershipsNext
    BY <1>10 DEF Rest
<1>11. CASE Rest("expenses") /\ ExpensesNext
    BY <1>11 DEF Rest
<1>12. CASE Rest("positions") /\ PositionsNext
    BY <1>12 DEF Rest
<1>13. CASE Rest("directory") /\ DirectoryNext
    BY <1>13 DEF Rest
<1>14. CASE Rest("documents") /\ DocumentsNext
    BY <1>14 DEF Rest
<1>15. CASE Rest("alerts") /\ AlertsNext
    BY <1>15 DEF Rest
<1>16. QED
    BY <1>1, <1>2, <1>3, <1>4, <1>5, <1>6, <1>7, <1>8, <1>9, <1>10, <1>11, <1>12, <1>13,
    <1>14, <1>15
    DEF BackOfficeNext

\* What TLC looks at are behaviours of the parts side by side: a part that moves while the
\* others rest does nothing it would not do alone.
THEOREM MovesAreOffice == BackOfficeSpec => OfficeSpec
<1>1. BackOfficeInit =>
          /\ Init /\ AccountsInit /\ ReturnsInit /\ RequisitionsInit /\ QuotesInit
          /\ WorkOrdersInit /\ SchedulingInit /\ MaterialsInit /\ MembershipsInit
          /\ ExpensesInit /\ PositionsInit /\ DirectoryInit /\ DocumentsInit /\ AlertsInit
    BY PartsBegin
<1>2. [BackOfficeNext]_backOfficeVars =>
          /\ [Next]_vars /\ [AccountsNext]_accountsVars /\ [ReturnsNext]_returnsVars
          /\ [RequisitionsNext]_requisitionsVars /\ [QuotesNext]_quotesVars
          /\ [WorkOrdersNext]_workOrdersVars /\ [SchedulingNext]_schedulingVars
          /\ [MaterialsNext]_materialsVars /\ [MembershipsNext]_membershipsVars
          /\ [ExpensesNext]_expensesVars /\ [PositionsNext]_positionsVars
          /\ [DirectoryNext]_directoryVars /\ [DocumentsNext]_documentsVars
          /\ [AlertsNext]_alertsVars
    BY PartsStep
<1>3. QED
    BY <1>1, <1>2, PTL DEF BackOfficeSpec, OfficeSpec,
        Spec, AccountsSpec, ReturnsSpec, RequisitionsSpec, QuotesSpec, WorkOrdersSpec,
        SchedulingSpec, MaterialsSpec, MembershipsSpec, ExpensesSpec, PositionsSpec,
        DirectorySpec, DocumentsSpec, AlertsSpec

-----------------------------------------------------------------------------
(* Types.                                                                  *)

EveryPartTyped ==
    /\ TypeOK /\ AccountsTypeOK /\ ReturnsTypeOK /\ RequisitionsTypeOK /\ QuotesTypeOK
    /\ WorkOrdersTypeOK /\ SchedulingTypeOK /\ MaterialsTypeOK /\ MembershipsTypeOK
    /\ ExpensesTypeOK /\ PositionsTypeOK /\ DirectoryTypeOK /\ DocumentsTypeOK
    /\ AlertsTypeOK

\* However the requests of the fourteen parts interleave, every row, every lock and all that
\* a request has loaded and is to write keeps its type, whatever there is of everything.
THEOREM OfficeTyped == OfficeSpec => []EveryPartTyped
<1>1. QED
    BY NeverOverReceived, AccountsTyped, ReturnsTyped, RequisitionsTyped, QuotesTyped,
       WorkOrdersTyped, SchedulingTyped, MaterialsTyped, MembershipsTyped, ExpensesTyped,
       PositionsTyped, DirectoryTyped, DocumentsTyped, AlertsTyped, PTL
    DEF OfficeSpec, EveryPartTyped

\* So it does where one part moves and the others rest.
THEOREM BackOfficeTyped == BackOfficeSpec => []BackOfficeTypeOK
<1>1. EveryPartTyped => BackOfficeTypeOK
    BY DEF EveryPartTyped, BackOfficeTypeOK
<1>2. QED
    BY <1>1, MovesAreOffice, OfficeTyped, PTL

-----------------------------------------------------------------------------
(* What the parts promise.                                                 *)

EveryInvariant ==
    /\ SerialPostingIsComplete /\ NoPhantomReceipt /\ NothingOverspent /\ MatchedIsReceived
    /\ ReturnsStayWithin /\ ConvertedOnce /\ ActivitiesTellQuote /\ CompletionHolds
    /\ VettedBookingsDisjoint /\ OwnerStays /\ PositionsApart /\ EntriesKnownApart
    /\ NotifiedOnce

EveryTerm ==
    /\ SubmittedTermsStay /\ SentTermsStay /\ ApprovalStands /\ AllowanceTermsStay
    /\ ReviewedTermsStay /\ DocumentsHold

\* All that is proved of the parts holds of them side by side: what was received, spent,
\* returned, converted, completed, booked, named and notified is in order in every state ...
THEOREM OfficeInOrder == OfficeSpec => []EveryInvariant
<1>1. QED
    BY SerialPostingsComplete, OrderClaimsNoPhantoms, BillsNeverOverspent,
       MatchedStaysReceived, ReturnsWithinReceipt, RequisitionsConvertOnce, ActivitiesTell,
       CompletionsHold, VettedDisjoint, OwnersStay, PositionsStayApart, EntriesApart,
       AlertsNotifiedOnce, PTL
    DEF OfficeSpec, EveryInvariant

\* ... and what was submitted, sent, approved, reviewed or filed stays, whatever is done next.
THEOREM OfficeKeepsTerms == OfficeSpec => EveryTerm
<1>1. QED
    BY RequisitionTermsStay, SentQuotesStay, ApprovalsStand, AllowancesKeepTerms,
       ExpensesKeepTerms, DocumentsStand
    DEF OfficeSpec, EveryTerm

\* So they do in the behaviours TLC looks at: the run of the back office cannot find one of
\* its properties violated, on instances of any size.
THEOREM BackOfficeInOrder == BackOfficeSpec => []EveryInvariant /\ EveryTerm
<1>1. QED
    BY MovesAreOffice, OfficeInOrder, OfficeKeepsTerms
=============================================================================
