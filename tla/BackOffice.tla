----------------------------- MODULE BackOffice -----------------------------
(***************************************************************************)
(* The fourteen parts of the back office that share no rows in their       *)
(* models, side by side (OfficeSpec).  Their requests are told apart by    *)
(* the part whose rows they touch, so that a part cannot tell what the     *)
(* others do: BackOfficeSpec has the behaviours in which one part moves    *)
(* and the others rest, which are enough to look at each of them.          *)
(***************************************************************************)
EXTENDS GoodsReceipts, SupplierAccounts, SupplierReturns, Requisitions, Quotes,
        WorkOrders, Scheduling, Materials, Memberships, Expenses, Positions,
        Directory, Documents, Alerts

OfficeSpec ==
    /\ Spec /\ AccountsSpec /\ ReturnsSpec /\ RequisitionsSpec /\ QuotesSpec
    /\ WorkOrdersSpec /\ SchedulingSpec /\ MaterialsSpec /\ MembershipsSpec
    /\ ExpensesSpec /\ PositionsSpec /\ DirectorySpec /\ DocumentsSpec /\ AlertsSpec

-----------------------------------------------------------------------------
VARIABLE part  \* the part that moves

Parts == {"receipts", "accounts", "returns", "requisitions", "quotes", "work orders",
          "scheduling", "materials", "memberships", "expenses", "positions", "directory",
          "documents", "alerts"}

BackOfficeInit ==
    /\ part \in Parts
    /\ Init /\ AccountsInit /\ ReturnsInit /\ RequisitionsInit /\ QuotesInit
    /\ WorkOrdersInit /\ SchedulingInit /\ MaterialsInit /\ MembershipsInit
    /\ ExpensesInit /\ PositionsInit /\ DirectoryInit /\ DocumentsInit /\ AlertsInit
    /\ part # "positions" => list = "checklist"
    /\ part # "directory" => directory = "customers"

backOfficeVars == <<part, vars, accountsVars, returnsVars, requisitionsVars, quotesVars,
                    workOrdersVars, schedulingVars, materialsVars, membershipsVars,
                    expensesVars, positionsVars, directoryVars, documentsVars, alertsVars>>

Rest(x) ==
    /\ part = x /\ UNCHANGED part
    /\ x # "receipts"     => UNCHANGED vars
    /\ x # "accounts"     => UNCHANGED accountsVars
    /\ x # "returns"      => UNCHANGED returnsVars
    /\ x # "requisitions" => UNCHANGED requisitionsVars
    /\ x # "quotes"       => UNCHANGED quotesVars
    /\ x # "work orders"  => UNCHANGED workOrdersVars
    /\ x # "scheduling"   => UNCHANGED schedulingVars
    /\ x # "materials"    => UNCHANGED materialsVars
    /\ x # "memberships"  => UNCHANGED membershipsVars
    /\ x # "expenses"     => UNCHANGED expensesVars
    /\ x # "positions"    => UNCHANGED positionsVars
    /\ x # "directory"    => UNCHANGED directoryVars
    /\ x # "documents"    => UNCHANGED documentsVars
    /\ x # "alerts"       => UNCHANGED alertsVars

BackOfficeNext ==
    \/ Rest("receipts")     /\ Next
    \/ Rest("accounts")     /\ AccountsNext
    \/ Rest("returns")      /\ ReturnsNext
    \/ Rest("requisitions") /\ RequisitionsNext
    \/ Rest("quotes")       /\ QuotesNext
    \/ Rest("work orders")  /\ WorkOrdersNext
    \/ Rest("scheduling")   /\ SchedulingNext
    \/ Rest("materials")    /\ MaterialsNext
    \/ Rest("memberships")  /\ MembershipsNext
    \/ Rest("expenses")     /\ ExpensesNext
    \/ Rest("positions")    /\ PositionsNext
    \/ Rest("directory")    /\ DirectoryNext
    \/ Rest("documents")    /\ DocumentsNext
    \/ Rest("alerts")       /\ AlertsNext

BackOfficeSpec == BackOfficeInit /\ [][BackOfficeNext]_backOfficeVars

-----------------------------------------------------------------------------
\* Every part keeps its types; those that rest need not be looked at.
BackOfficeTypeOK ==
    /\ part = "receipts"     => TypeOK
    /\ part = "accounts"     => AccountsTypeOK
    /\ part = "returns"      => ReturnsTypeOK
    /\ part = "requisitions" => RequisitionsTypeOK
    /\ part = "quotes"       => QuotesTypeOK
    /\ part = "work orders"  => WorkOrdersTypeOK
    /\ part = "scheduling"   => SchedulingTypeOK
    /\ part = "materials"    => MaterialsTypeOK
    /\ part = "memberships"  => MembershipsTypeOK
    /\ part = "expenses"     => ExpensesTypeOK
    /\ part = "positions"    => PositionsTypeOK
    /\ part = "directory"    => DirectoryTypeOK
    /\ part = "documents"    => DocumentsTypeOK
    /\ part = "alerts"       => AlertsTypeOK
=============================================================================
