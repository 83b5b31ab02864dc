----------------------------- MODULE WorkProofs -----------------------------
(***************************************************************************)
(* Proofs about Materials, Expenses, Scheduling, WorkOrders and Positions, *)
(* for any number of concurrent requests, each of which decides on a row   *)
(* it loaded and later writes the columns it changed over the row as it is *)
(* by then.                                                                *)
(*                                                                         *)
(* What carries the first proofs is why the row is still the one it        *)
(* loaded: the lock of an allowance or a closeout, nobody else on the      *)
(* expense, nothing that changed a booking since the check.                *)
(*                                                                         *)
(* The positions of a checklist are no row's own: what carries that proof  *)
(* is counting.  The temporary positions of a reorder begin above the      *)
(* highest stored one by more than there are items, so that the final      *)
(* ones, which count the items, stay below them.                           *)
(***************************************************************************)
EXTENDS Materials, Expenses, Scheduling, WorkOrders, Positions, TLAPS, SumTheorems

-----------------------------------------------------------------------------
(* Materials.                                                              *)

\* What an operation on an allowance may make of it.
TermsKept(was, now) ==
    /\ was.status \in {"submitted", "approved", "cancelled"} => now.requested = was.requested
    /\ now.status = "approved" /\ was.status # "approved" => was.status = "submitted"
    /\ was.status = "approved" => now.status \in {"approved", "cancelled"} /\ now.approved = was.approved
    /\ was.status = "cancelled" => now = was

\* Who holds the lock of an allowance found it as it is.
MaterialsInv ==
    /\ allowance \in [Requirement -> Allowances]
    /\ DOMAIN allowanceLock = Requirement
    /\ DOMAIN authorizing = Request
    /\ \A p \in Request : authorizing[p].requirement # None =>
         /\ authorizing[p].requirement \in Requirement
         /\ allowanceLock[authorizing[p].requirement] = p
         /\ authorizing[p].from = allowance[authorizing[p].requirement]
         /\ authorizing[p].to \in Allowances
         /\ TermsKept(authorizing[p].from, authorizing[p].to)

LEMMA MaterialsInitially == MaterialsInit => MaterialsInv
BY MaterialsAssumption
   DEF MaterialsInit, MaterialsInv, NoAllowance, NoAuthorization, Allowances

LEMMA AllowanceWrites ==
    ASSUME NEW from \in Allowances, NEW to \in Allowances
    PROVE  Overwritten(from, Changed(from, to)) = to
BY DEF Allowances, Overwritten, Changed

\* An operation begins that is to keep the terms of an allowance.
LEMMA AllowanceBegins ==
    ASSUME MaterialsInv, NEW p \in Request, NEW m \in Requirement, NEW to \in Allowances,
           BeginAllowance(p, m, to), TermsKept(allowance[m], to)
    PROVE  MaterialsInv' /\ allowance' = allowance
<1>1. /\ allowance' = allowance /\ DOMAIN authorizing' = Request
      /\ authorizing'[p] = [requirement |-> m, from |-> allowance[m], to |-> to]
      /\ \A q \in Request \ {p} : authorizing'[q] = authorizing[q]
      BY DEF MaterialsInv, BeginAllowance
<1>2. /\ DOMAIN allowanceLock' = Requirement /\ allowanceLock[m] = None /\ allowanceLock'[m] = p
      /\ \A n \in Requirement \ {m} : allowanceLock'[n] = allowanceLock[n]
      BY DEF MaterialsInv, BeginAllowance, LockAllowance
<1>3. ASSUME NEW q \in Request \ {p}, authorizing[q].requirement # None
      PROVE  authorizing[q].requirement # m
      BY <1>2, <1>3, MaterialsAssumption DEF MaterialsInv
<1> QED BY <1>1, <1>2, <1>3 DEF MaterialsInv

LEMMA AllowanceEnds ==
    ASSUME MaterialsInv, NEW p \in Request, EndAllowance(p),
           allowance' \in [Requirement -> Allowances],
           \A m \in Requirement : allowanceLock[m] # p => allowance'[m] = allowance[m]
    PROVE  MaterialsInv'
<1>1. /\ DOMAIN authorizing' = Request /\ authorizing'[p].requirement = None
      /\ \A q \in Request \ {p} : authorizing'[q] = authorizing[q]
      BY DEF MaterialsInv, EndAllowance, NoAuthorization
<1>2. /\ DOMAIN allowanceLock' = Requirement
      /\ \A m \in Requirement : allowanceLock[m] # p => allowanceLock'[m] = allowanceLock[m]
      BY DEF EndAllowance
<1> QED BY <1>1, <1>2 DEF MaterialsInv

LEMMA AllowanceStepKeeps ==
    ASSUME MaterialsInv, NEW p \in Request, NEW m \in Requirement, AllowanceStep(p, m)
    PROVE  MaterialsInv' /\ allowance' = allowance
<1>1. allowance[m] \in Allowances BY DEF MaterialsInv
<1>2. SUFFICES \E to \in Allowances : BeginAllowance(p, m, to) /\ TermsKept(allowance[m], to)
      BY AllowanceBegins
<1> DEFINE was == allowance[m]
<1>3. ASSUME NEW n \in 1 .. MaxRequired,
             CreateAllowance(p, m, n) \/ UpdateAllowance(p, m, n)
      PROVE  \E to \in Allowances : BeginAllowance(p, m, to) /\ TermsKept(was, to)
  <2>1. was.status \in {"none", "draft", "rejected"}
        BY <1>3 DEF CreateAllowance, UpdateAllowance
  <2>2. 0 \in 0 .. MaxRequired /\ was.approved \in 0 .. MaxRequired
        BY <1>1, MaterialsAssumption DEF Allowances
  <2>3. \E k \in 0 .. MaxRequired :
          BeginAllowance(p, m, [status |-> "draft", requested |-> n, approved |-> k])
        BY <1>3, <2>2 DEF CreateAllowance, UpdateAllowance
  <2>4. ASSUME NEW k \in 0 .. MaxRequired
        PROVE  /\ [status |-> "draft", requested |-> n, approved |-> k] \in Allowances
               /\ TermsKept(was, [status |-> "draft", requested |-> n, approved |-> k])
        BY <2>1 DEF Allowances, TermsKept
  <2> QED BY <2>3, <2>4
<1>4. ASSUME NEW n \in 1 .. MaxRequired, ApproveAllowance(p, m, n)
      PROVE  \E to \in Allowances : BeginAllowance(p, m, to) /\ TermsKept(was, to)
  <2>1. was.status = "submitted" BY <1>4 DEF ApproveAllowance
  <2>2. n \in 0 .. MaxRequired BY MaterialsAssumption
  <2>3. /\ [was EXCEPT !.status = "approved", !.approved = n] \in Allowances
        /\ TermsKept(was, [was EXCEPT !.status = "approved", !.approved = n])
        BY <1>1, <2>1, <2>2 DEF Allowances, TermsKept
  <2> QED BY <1>4, <2>3 DEF ApproveAllowance
<1>5. CASE SubmitAllowance(p, m)
  <2>1. /\ [was EXCEPT !.status = "submitted"] \in Allowances
        /\ TermsKept(was, [was EXCEPT !.status = "submitted"])
        BY <1>1, <1>5 DEF SubmitAllowance, Allowances, TermsKept
  <2> QED BY <1>5, <2>1 DEF SubmitAllowance
<1>6. CASE RejectAllowance(p, m)
  <2>1. was.status = "submitted" BY <1>6 DEF RejectAllowance
  <2>2. 0 \in 0 .. MaxRequired BY MaterialsAssumption
  <2>3. /\ [was EXCEPT !.status = "rejected", !.approved = 0] \in Allowances
        /\ TermsKept(was, [was EXCEPT !.status = "rejected", !.approved = 0])
        BY <1>1, <2>1, <2>2 DEF Allowances, TermsKept
  <2> QED BY <1>6, <2>3 DEF RejectAllowance
<1>7. CASE CancelAllowance(p, m)
  <2>1. /\ [was EXCEPT !.status = "cancelled"] \in Allowances
        /\ TermsKept(was, [was EXCEPT !.status = "cancelled"])
        BY <1>1, <1>7 DEF CancelAllowance, Allowances, TermsKept
  <2> QED BY <1>7, <2>1 DEF CancelAllowance
<1> QED BY <1>3, <1>4, <1>5, <1>6, <1>7 DEF AllowanceStep

LEMMA AllowanceCommits ==
    ASSUME MaterialsInv, NEW p \in Request, CommitAllowance(p)
    PROVE  MaterialsInv' /\ \A m \in Requirement : TermsKept(allowance[m], allowance'[m])
<1> DEFINE w == authorizing[p]
<1>1. /\ w.requirement \in Requirement /\ allowanceLock[w.requirement] = p
      /\ w.from = allowance[w.requirement] /\ w.to \in Allowances /\ TermsKept(w.from, w.to)
      BY DEF MaterialsInv, CommitAllowance
<1>2. allowance' = [allowance EXCEPT ![w.requirement] = Overwritten(allowance[w.requirement], Changed(w.from, w.to))]
      BY DEF CommitAllowance
<1>3. allowance' = [allowance EXCEPT ![w.requirement] = w.to]
  <2>1. allowance[w.requirement] \in Allowances BY <1>1 DEF MaterialsInv
  <2>2. Overwritten(allowance[w.requirement], Changed(allowance[w.requirement], w.to)) = w.to
        BY <1>1, <2>1, AllowanceWrites
  <2> QED BY <1>1, <1>2, <2>2
<1> HIDE DEF w
<1>4. MaterialsInv' BY <1>1, <1>3, AllowanceEnds DEF CommitAllowance, MaterialsInv
<1>5. \A m \in Requirement : TermsKept(allowance[m], allowance[m]) BY DEF TermsKept
<1> QED BY <1>1, <1>3, <1>4, <1>5 DEF MaterialsInv

LEMMA MaterialsStep ==
    ASSUME MaterialsInv, [MaterialsNext]_materialsVars
    PROVE  MaterialsInv' /\ \A m \in Requirement : TermsKept(allowance[m], allowance'[m])
<1>1. \A m \in Requirement : TermsKept(allowance[m], allowance[m]) BY DEF TermsKept
<1>2. ASSUME UNCHANGED <<allowance, allowanceLock, authorizing>> PROVE MaterialsInv'
      BY <1>2 DEF MaterialsInv
<1>3. CASE UNCHANGED materialsVars BY <1>1, <1>2, <1>3 DEF materialsVars
<1>4. ASSUME NEW m \in Requirement, MaterialStep(m)
      PROVE  UNCHANGED <<allowance, allowanceLock, authorizing>>
      BY <1>4 DEF MaterialStep, CreateRequirement, UpdateRequirement, DeactivateRequirement,
            ReactivateRequirement, SetMaterial, ReceiveItem, IssueItem, ReserveItem, ReleaseItem,
            ConsumeItem, SetSupply
<1>5. ASSUME NEW p \in Request, NEW m \in Requirement, AllowanceStep(p, m)
      PROVE  MaterialsInv' /\ allowance' = allowance
      BY <1>5, AllowanceStepKeeps
<1>6. ASSUME NEW p \in Request, CommitAllowance(p)
      PROVE  MaterialsInv' /\ \A m \in Requirement : TermsKept(allowance[m], allowance'[m])
      BY <1>6, AllowanceCommits
<1>7. ASSUME NEW p \in Request, AbandonAllowance(p) PROVE MaterialsInv' /\ allowance' = allowance
      BY <1>7, AllowanceEnds DEF AbandonAllowance, MaterialsInv
<1> QED BY <1>1, <1>2, <1>3, <1>4, <1>5, <1>6, <1>7 DEF MaterialsNext

\* For any requirements, quantities and concurrent requests: an allowance is approved only
\* when submitted and for what was requested then, and afterwards it is only ever cancelled.
THEOREM AllowancesKeepTerms == MaterialsSpec => AllowanceTermsStay
<1>1. ASSUME MaterialsInv, [MaterialsNext]_materialsVars
      PROVE  [\A m \in Requirement :
                LET was == allowance[m]
                    now == allowance'[m]
                IN /\ was.status \in {"submitted", "approved", "cancelled"} => now.requested = was.requested
                   /\ now.status = "approved" /\ was.status # "approved" => was.status = "submitted"
                   /\ was.status = "approved" => now.status \in {"approved", "cancelled"} /\ now.approved = was.approved
                   /\ was.status = "cancelled" => now = was]_materialsVars
      BY <1>1, MaterialsStep DEF TermsKept
<1>2. MaterialsInv /\ [MaterialsNext]_materialsVars => MaterialsInv' BY MaterialsStep
<1> QED BY <1>1, <1>2, MaterialsInitially, PTL DEF MaterialsSpec, AllowanceTermsStay

\* What an operation on an allowance loaded and is to write are the columns of one row.
Worded(a) == \E m, from, to : a = [requirement |-> m, from |-> from, to |-> to]

\* Requirements, what is in stock for them and the locks, which no proof above looks at.
SuppliesTyped ==
    /\ material \in [Requirement -> Materials]
    /\ supply \in [Requirement -> Supplies]
    /\ allowanceLock \in [Requirement -> Request \cup {None}]
    /\ authorizing = [p \in Request |-> authorizing[p]]
    /\ \A p \in Request : authorizing[p].requirement = None => authorizing[p] = NoAuthorization
    /\ \A p \in Request : Worded(authorizing[p])

LEMMA SuppliesInitially == MaterialsInit => SuppliesTyped
<1> SUFFICES ASSUME MaterialsInit PROVE SuppliesTyped OBVIOUS
<1>1. NoMaterial \in Materials BY MaterialsAssumption DEF NoMaterial, Materials
<1>2. NoSupply \in Supplies BY MaterialsAssumption DEF NoSupply, Supplies
<1>3. Worded(NoAuthorization) BY DEF NoAuthorization, Worded
<1> QED BY <1>1, <1>2, <1>3 DEF MaterialsInit, SuppliesTyped

LEMMA SuppliesStep ==
    ASSUME MaterialsInv, SuppliesTyped, [MaterialsNext]_materialsVars
    PROVE  SuppliesTyped'
<1>1. ASSUME UNCHANGED <<allowanceLock, authorizing>>,
             material' \in [Requirement -> Materials], supply' \in [Requirement -> Supplies]
      PROVE  SuppliesTyped'
      BY <1>1 DEF SuppliesTyped
<1>2. ASSUME UNCHANGED <<material, supply>>, NEW p \in Request,
             allowanceLock' \in [Requirement -> Request \cup {None}],
             NEW to, authorizing' = [authorizing EXCEPT ![p] = to],
             to.requirement = None => to = NoAuthorization,
             Worded(to)
      PROVE  SuppliesTyped'
  <2>1. /\ authorizing' = [q \in Request |-> authorizing'[q]] /\ authorizing'[p] = to
        /\ \A q \in Request \ {p} : authorizing'[q] = authorizing[q]
        BY <1>2 DEF SuppliesTyped
  <2>2. \A q \in Request : authorizing'[q].requirement = None => authorizing'[q] = NoAuthorization
        BY <1>2, <2>1 DEF SuppliesTyped
  <2>3. \A q \in Request : Worded(authorizing'[q])
        BY <1>2, <2>1 DEF SuppliesTyped
  <2> QED BY <1>2, <2>1, <2>2, <2>3 DEF SuppliesTyped
<1>3. CASE UNCHANGED materialsVars BY <1>1, <1>3 DEF materialsVars, SuppliesTyped
<1>4. ASSUME NEW m \in Requirement, MaterialStep(m) PROVE SuppliesTyped'
  <2>1. ASSUME NEW to \in Materials, SetMaterial(m, to) PROVE SuppliesTyped'
        BY <1>1, <2>1 DEF SetMaterial, SuppliesTyped
  <2>2. ASSUME NEW to, SetSupply(m, to) PROVE SuppliesTyped'
        BY <1>1, <2>2 DEF SetSupply, SuppliesTyped
  <2>3. material[m] \in Materials BY DEF SuppliesTyped
  <2>4. ASSUME NEW n \in 1 .. MaxRequired, CreateRequirement(m, n) \/ UpdateRequirement(m, n)
        PROVE  SuppliesTyped'
    <3>1. /\ [standing |-> "active", required |-> n] \in Materials
          /\ [material[m] EXCEPT !.required = n] \in Materials
          BY <2>3, MaterialsAssumption DEF Materials
    <3> QED BY <2>1, <2>4, <3>1 DEF CreateRequirement, UpdateRequirement
  <2>5. CASE DeactivateRequirement(m) \/ ReactivateRequirement(m)
    <3>1. \A s \in {"active", "inactive"} : [material[m] EXCEPT !.standing = s] \in Materials
          BY <2>3 DEF Materials
    <3> QED BY <2>1, <2>5, <3>1 DEF DeactivateRequirement, ReactivateRequirement
  <2> QED BY <1>4, <2>2, <2>4, <2>5
          DEF MaterialStep, ReceiveItem, IssueItem, ReserveItem, ReleaseItem, ConsumeItem
<1>5. ASSUME NEW p \in Request, NEW m \in Requirement, AllowanceStep(p, m)
      PROVE  SuppliesTyped'
  <2>1. PICK to : BeginAllowance(p, m, to)
        BY <1>5 DEF AllowanceStep, CreateAllowance, UpdateAllowance, SubmitAllowance,
              ApproveAllowance, RejectAllowance, CancelAllowance
  <2> DEFINE next == [requirement |-> m, from |-> allowance[m], to |-> to]
  <2>2. /\ UNCHANGED <<material, supply>>
        /\ authorizing' = [authorizing EXCEPT ![p] = next]
        /\ allowanceLock' \in [Requirement -> Request \cup {None}]
        BY <2>1 DEF BeginAllowance, LockAllowance, SuppliesTyped
  <2>3. next.requirement # None /\ Worded(next) BY MaterialsAssumption DEF Worded
  <2> HIDE DEF next
  <2> QED BY <1>2, <2>2, <2>3
<1>6. ASSUME NEW p \in Request, CommitAllowance(p) \/ AbandonAllowance(p) PROVE SuppliesTyped'
  <2>1. EndAllowance(p) BY <1>6 DEF CommitAllowance, AbandonAllowance
  <2>2. Worded(NoAuthorization) BY DEF NoAuthorization, Worded
  <2>3. allowanceLock' \in [Requirement -> Request \cup {None}]
        BY <2>1 DEF EndAllowance, SuppliesTyped
  <2> QED BY <1>2, <2>1, <2>2, <2>3 DEF EndAllowance
<1> QED BY <1>3, <1>4, <1>5, <1>6 DEF MaterialsNext

\* For any requirements, quantities and requests: requirements, their stock, allowances and
\* what every request is to write keep their types (work_order_material_service.py).
THEOREM MaterialsTyped == MaterialsSpec => []MaterialsTypeOK
<1>1. ASSUME MaterialsInv, SuppliesTyped PROVE MaterialsTypeOK
  <2>1. ASSUME NEW p \in Request PROVE authorizing[p] \in Authorizations
    <3>1. CASE authorizing[p].requirement = None
      <4>1. authorizing[p] = NoAuthorization BY <1>1, <3>1 DEF SuppliesTyped
      <4>2. NoAllowance \in Allowances BY MaterialsAssumption DEF NoAllowance, Allowances
      <4> QED BY <4>1, <4>2 DEF NoAuthorization, Authorizations
    <3>2. CASE authorizing[p].requirement # None
      <4>1. /\ authorizing[p].requirement \in Requirement /\ authorizing[p].to \in Allowances
            /\ authorizing[p].from \in Allowances
            BY <1>1, <3>2 DEF MaterialsInv
      <4>2. PICK m, from, to : authorizing[p] = [requirement |-> m, from |-> from, to |-> to]
            BY <1>1 DEF SuppliesTyped, Worded
      <4> QED BY <4>1, <4>2 DEF Authorizations
    <3> QED BY <3>1, <3>2
  <2>2. authorizing \in [Request -> Authorizations] BY <1>1, <2>1 DEF SuppliesTyped
  <2> QED BY <1>1, <2>2 DEF MaterialsInv, SuppliesTyped, MaterialsTypeOK
<1>2. MaterialsInv /\ SuppliesTyped /\ [MaterialsNext]_materialsVars => MaterialsInv' /\ SuppliesTyped'
      BY MaterialsStep, SuppliesStep
<1> QED BY <1>1, <1>2, MaterialsInitially, SuppliesInitially, PTL DEF MaterialsSpec

-----------------------------------------------------------------------------
(* Expenses.                                                               *)

\* A row of an expense costs what it says, and an approved one is there to be seen.
InOrder(row) ==
    /\ row = Calculated(row)
    /\ row.status = "approved" => row.is_active

\* What an operation may make of it.
ReviewKept(was, now) ==
    /\ was.status \in {"submitted", "approved", "rejected"} => Terms(now) = Terms(was)
    /\ was.status = "approved" => now = was

\* Unless it was overtaken, an operation found the row as it is, and is alone on it.
SpendingFormed(p) ==
    /\ spending[p].expense \in Expense
    /\ \E from, to \in ExpenseRows :
         /\ spending[p].columns = Changed(from, to)
         /\ spending[p].expense \notin overtakenExpenses =>
              /\ from = expense[spending[p].expense] /\ InOrder(to) /\ ReviewKept(from, to)
              /\ \A q \in Request \ {p} : spending[q].expense # spending[p].expense

ExpensesInv ==
    /\ expense \in [Expense -> ExpenseRows]
    /\ DOMAIN spending = Request
    /\ \A p \in Request : spending[p] = NotSpending \/ SpendingFormed(p)
    /\ \A e \in Expense \ overtakenExpenses : InOrder(expense[e])

LEMMA ExpensesInitially == ExpensesInit => ExpensesInv
<1> SUFFICES ASSUME ExpensesInit PROVE ExpensesInv OBVIOUS
<1>1. NoExpense \in ExpenseRows BY DEF NoExpense, ExpenseRows, ExpenseStatuses
<1>2. InOrder(NoExpense)
  <2>1. 0 * 0 = 0 OBVIOUS
  <2> QED BY <2>1 DEF InOrder, Calculated, NoExpense
<1> QED BY <1>1, <1>2 DEF ExpensesInit, ExpensesInv

LEMMA ExpenseWrites ==
    ASSUME NEW from \in ExpenseRows, NEW to \in ExpenseRows, NEW now \in ExpenseRows
    PROVE  /\ Overwritten(now, Changed(from, to)) \in ExpenseRows
           /\ now = from => Overwritten(now, Changed(from, to)) = to
<1> DEFINE row == Overwritten(now, Changed(from, to))
           columns == {"status", "is_active", "quantity", "unit_cost", "total_amount"}
<1>1. DOMAIN now = columns /\ DOMAIN to = columns BY DEF ExpenseRows
<1>2. row = [c \in columns |-> IF to[c] # from[c] THEN to[c] ELSE now[c]]
      BY <1>1 DEF Changed, Overwritten
<1>3. row = [status |-> row.status, is_active |-> row.is_active, quantity |-> row.quantity,
             unit_cost |-> row.unit_cost, total_amount |-> row.total_amount]
      BY <1>2
<1>4. /\ row.status \in ExpenseStatuses /\ row.is_active \in BOOLEAN
      /\ row.quantity \in Nat /\ row.unit_cost \in Nat /\ row.total_amount \in Nat
      BY <1>2 DEF ExpenseRows
<1>5. now = from => row = to
  <2>1. now = from => \A c \in columns : row[c] = to[c] BY <1>2
  <2>2. to = [c \in columns |-> to[c]] BY <1>1 DEF ExpenseRows
  <2> QED BY <1>2, <2>1, <2>2
<1> HIDE DEF row
<1>6. row \in ExpenseRows BY <1>3, <1>4 DEF ExpenseRows
<1> QED BY <1>5, <1>6 DEF row

\* The rows the operations make of one another: a new price, another status, shown or hidden.
LEMMA ExpensePriced ==
    ASSUME NEW row \in ExpenseRows, NEW quantity \in Nat, NEW cost \in Nat
    PROVE  LET to == Calculated([row EXCEPT !.quantity = quantity, !.unit_cost = cost])
           IN to \in ExpenseRows /\ to.status = row.status /\ (row.status # "approved" => InOrder(to))
<1>1. quantity * cost \in Nat OBVIOUS
<1> DEFINE total == quantity * cost
           made == [row EXCEPT !.quantity = quantity, !.unit_cost = cost]
           to   == [row EXCEPT !.quantity = quantity, !.unit_cost = cost, !.total_amount = total]
<1>2. /\ Calculated(made) = [made EXCEPT !.total_amount = total]
      /\ Calculated(to) = [to EXCEPT !.total_amount = total]
      BY DEF Calculated, ExpenseRows
<1>3. Calculated(made) = to BY <1>2 DEF ExpenseRows
<1>4. total \in Nat BY <1>1
<1> HIDE DEF total
<1>5. to \in ExpenseRows /\ to.status = row.status BY <1>4 DEF ExpenseRows
<1>6. to = [to EXCEPT !.total_amount = total] BY DEF ExpenseRows
<1>7. row.status # "approved" => InOrder(to) BY <1>2, <1>5, <1>6 DEF InOrder
<1> HIDE DEF to
<1> QED BY <1>3, <1>5, <1>7

LEMMA ExpenseCosts ==
    ASSUME NEW row \in ExpenseRows
    PROVE  row = Calculated(row) <=> row.total_amount = row.quantity * row.unit_cost
BY DEF Calculated, ExpenseRows

LEMMA ExpenseMoved ==
    ASSUME NEW row \in ExpenseRows, NEW status \in ExpenseStatuses
    PROVE  LET to == [row EXCEPT !.status = status]
           IN to \in ExpenseRows /\ Terms(to) = Terms(row) /\ (InOrder(row) /\ row.is_active => InOrder(to))
<1> DEFINE to == [row EXCEPT !.status = status]
<1>1. /\ to \in ExpenseRows /\ Terms(to) = Terms(row) /\ to.is_active = row.is_active
      /\ to.quantity = row.quantity /\ to.unit_cost = row.unit_cost /\ to.total_amount = row.total_amount
      BY DEF ExpenseRows, Terms
<1> HIDE DEF to
<1>2. InOrder(row) /\ row.is_active => InOrder(to) BY <1>1, ExpenseCosts DEF InOrder
<1> QED BY <1>1, <1>2 DEF to

LEMMA ExpenseShown ==
    ASSUME NEW row \in ExpenseRows, NEW shown \in BOOLEAN, row.status = "approved" => shown
    PROVE  LET to == [row EXCEPT !.is_active = shown]
           IN to \in ExpenseRows /\ Terms(to) = Terms(row) /\ (InOrder(row) => InOrder(to))
<1> DEFINE to == [row EXCEPT !.is_active = shown]
<1>1. /\ to \in ExpenseRows /\ Terms(to) = Terms(row) /\ to.is_active = shown /\ to.status = row.status
      /\ to.quantity = row.quantity /\ to.unit_cost = row.unit_cost /\ to.total_amount = row.total_amount
      BY DEF ExpenseRows, Terms
<1> HIDE DEF to
<1>2. InOrder(row) => InOrder(to) BY <1>1, ExpenseCosts DEF InOrder
<1> QED BY <1>1, <1>2 DEF to

\* An operation begins that is to keep the terms of an expense.
LEMMA ExpenseBegins ==
    ASSUME ExpensesInv, NEW p \in Request, NEW e \in Expense, NEW to \in ExpenseRows,
           SetExpense(p, e, to),
           e \notin overtakenExpenses => InOrder(to) /\ ReviewKept(expense[e], to)
    PROVE  ExpensesInv' /\ expense' = expense
<1>1. /\ expense' = expense /\ DOMAIN spending' = Request
      /\ spending'[p] = [expense |-> e, columns |-> Changed(expense[e], to)]
      /\ \A q \in Request \ {p} : spending'[q] = spending[q]
      BY DEF SetExpense, ExpensesInv
<1>2. /\ overtakenExpenses \subseteq overtakenExpenses'
      /\ e \notin overtakenExpenses' => \A q \in Request : spending[q].expense # e
      BY DEF SetExpense
<1>3. expense[e] \in ExpenseRows BY DEF ExpensesInv
<1>4. SpendingFormed(p)'
  <2>1. spending'[p].expense = e /\ spending'[p].columns = Changed(expense[e], to) BY <1>1
  <2>2. \A q \in Request \ {p} : spending'[q].expense = spending[q].expense BY <1>1
  <2>3. e \notin overtakenExpenses' => InOrder(to) /\ ReviewKept(expense[e], to) BY <1>2
  <2> QED BY <1>1, <1>2, <1>3, <2>1, <2>2, <2>3 DEF SpendingFormed
<1>5. ASSUME NEW q \in Request \ {p}, spending[q] # NotSpending PROVE SpendingFormed(q)'
  <2>1. SpendingFormed(q) BY <1>5 DEF ExpensesInv
  <2>2. spending'[q] = spending[q] /\ spending'[p].expense = e BY <1>1
  <2>3. spending[q].expense \notin overtakenExpenses' => spending[q].expense # e BY <1>2
  <2> QED BY <1>1, <1>2, <2>1, <2>2, <2>3 DEF SpendingFormed
<1> QED BY <1>1, <1>2, <1>4, <1>5 DEF ExpensesInv

LEMMA ExpenseOperationKeeps ==
    ASSUME ExpensesInv, NEW p \in Request, NEW e \in Expense, ExpenseOperation(p, e)
    PROVE  ExpensesInv' /\ expense' = expense
<1> DEFINE was == expense[e]
<1>1. /\ was \in ExpenseRows
      /\ e \notin overtakenExpenses => InOrder(was)
      BY DEF ExpensesInv
<1>2. SUFFICES \E to \in ExpenseRows :
                 /\ SetExpense(p, e, to)
                 /\ e \notin overtakenExpenses => InOrder(to) /\ ReviewKept(was, to)
      BY ExpenseBegins
<1>3. ASSUME NEW quantity \in 1 .. MaxSpent, NEW cost \in 0 .. MaxSpent,
             CreateExpense(p, e, quantity, cost) \/ UpdateExpense(p, e, quantity, cost)
      PROVE  \E to \in ExpenseRows :
                 /\ SetExpense(p, e, to)
                 /\ e \notin overtakenExpenses => InOrder(to) /\ ReviewKept(was, to)
  <2>1. quantity \in Nat /\ cost \in Nat BY ExpensesAssumption
  <2>2. CASE CreateExpense(p, e, quantity, cost)
    <3> DEFINE draft == [NoExpense EXCEPT !.status = "draft", !.is_active = TRUE]
               to == Calculated([draft EXCEPT !.quantity = quantity, !.unit_cost = cost])
    <3>1. draft \in ExpenseRows /\ draft.status = "draft"
          BY DEF NoExpense, ExpenseRows, ExpenseStatuses
    <3>2. [NoExpense EXCEPT !.status = "draft", !.is_active = TRUE, !.quantity = quantity, !.unit_cost = cost]
            = [draft EXCEPT !.quantity = quantity, !.unit_cost = cost]
          BY DEF NoExpense
    <3>3. SetExpense(p, e, to) /\ was = NoExpense BY <2>2, <3>2 DEF CreateExpense
    <3> HIDE DEF draft
    <3>4. to \in ExpenseRows /\ InOrder(to) BY <2>1, <3>1, ExpensePriced
    <3>5. ReviewKept(was, to) BY <3>3 DEF ReviewKept, NoExpense
    <3> QED BY <3>3, <3>4, <3>5
  <2>3. CASE UpdateExpense(p, e, quantity, cost)
    <3> DEFINE to == Calculated([was EXCEPT !.quantity = quantity, !.unit_cost = cost])
    <3>1. SetExpense(p, e, to) /\ was.status = "draft" BY <2>3 DEF UpdateExpense, Draft
    <3>2. to \in ExpenseRows /\ InOrder(to) BY <1>1, <2>1, <3>1, ExpensePriced
    <3>3. ReviewKept(was, to) BY <3>1 DEF ReviewKept
    <3> QED BY <3>1, <3>2, <3>3
  <2> QED BY <1>3, <2>2, <2>3
<1>4. ASSUME NEW status \in ExpenseStatuses, ChangeExpenseStatus(p, e, status)
      PROVE  \E to \in ExpenseRows :
                 /\ SetExpense(p, e, to)
                 /\ e \notin overtakenExpenses => InOrder(to) /\ ReviewKept(was, to)
  <2> DEFINE to == [was EXCEPT !.status = status]
  <2>1. SetExpense(p, e, to) /\ was.is_active /\ status \in AllowedTransitions[was.status]
        BY <1>4 DEF ChangeExpenseStatus
  <2>2. was.status # "approved" BY <2>1 DEF AllowedTransitions
  <2>3. to \in ExpenseRows /\ Terms(to) = Terms(was) /\ (InOrder(was) => InOrder(to))
        BY <1>1, <2>1, ExpenseMoved
  <2>4. ReviewKept(was, to) BY <2>2, <2>3 DEF ReviewKept
  <2> QED BY <1>1, <2>1, <2>3, <2>4
<1>5. ASSUME NEW shown \in BOOLEAN, SetExpense(p, e, [was EXCEPT !.is_active = shown]),
             was.status = "approved" => shown
      PROVE  \E to \in ExpenseRows :
                 /\ SetExpense(p, e, to)
                 /\ e \notin overtakenExpenses => InOrder(to) /\ ReviewKept(was, to)
  <2> DEFINE to == [was EXCEPT !.is_active = shown]
  <2>1. /\ to \in ExpenseRows /\ Terms(to) = Terms(was)
        /\ InOrder(was) => InOrder(to)
        BY <1>1, <1>5, ExpenseShown
  <2>2. InOrder(was) => ReviewKept(was, to)
    <3>1. InOrder(was) /\ was.status = "approved" => to = was
          BY <1>1, <1>5 DEF InOrder, ExpenseRows
    <3> QED BY <2>1, <3>1 DEF ReviewKept
  <2> QED BY <1>1, <1>5, <2>1, <2>2
<1>6. CASE DeactivateExpense(p, e) BY <1>5, <1>6 DEF DeactivateExpense
<1>7. CASE ReactivateExpense(p, e) BY <1>5, <1>7 DEF ReactivateExpense
<1> QED BY <1>3, <1>4, <1>6, <1>7 DEF ExpenseOperation

LEMMA ExpenseStep ==
    ASSUME ExpensesInv, [ExpensesNext]_expensesVars
    PROVE  /\ ExpensesInv'
           /\ \A e \in Expense \ overtakenExpenses : ReviewKept(expense[e], expense'[e])
<1>1. \A e \in Expense : ReviewKept(expense[e], expense[e]) BY DEF ReviewKept
<1>2. CASE UNCHANGED expensesVars
  <2>1. UNCHANGED <<expense, spending, overtakenExpenses>> BY <1>2 DEF expensesVars
  <2> QED BY <1>1, <2>1 DEF ExpensesInv, SpendingFormed
<1>3. ASSUME NEW p \in Request, NEW e \in Expense, ExpenseOperation(p, e)
      PROVE  ExpensesInv' /\ expense' = expense
      BY <1>3, ExpenseOperationKeeps
<1>4. ASSUME NEW p \in Request, spending[p] # NotSpending,
             spending' = [spending EXCEPT ![p] = NotSpending], UNCHANGED overtakenExpenses,
             expense' \in [Expense -> ExpenseRows],
             \A e \in Expense : e # spending[p].expense => expense'[e] = expense[e],
             \A e \in Expense \ overtakenExpenses : InOrder(expense'[e])
      PROVE  ExpensesInv'
  <2>1. SpendingFormed(p) BY <1>4 DEF ExpensesInv
  <2>2. /\ DOMAIN spending' = Request /\ spending'[p] = NotSpending
        /\ \A q \in Request \ {p} : spending'[q] = spending[q]
        BY <1>4 DEF ExpensesInv
  <2>3. NotSpending.expense = None /\ None \notin Expense BY ExpensesAssumption DEF NotSpending
  <2>4. ASSUME NEW q \in Request \ {p}, spending[q] # NotSpending PROVE SpendingFormed(q)'
    <3>1. SpendingFormed(q) BY <2>4 DEF ExpensesInv
    <3>2. spending[q].expense \notin overtakenExpenses => spending[q].expense # spending[p].expense
          BY <2>1, <3>1 DEF SpendingFormed
    <3> QED BY <1>4, <2>2, <2>3, <3>1, <3>2 DEF SpendingFormed
  <2> QED BY <1>4, <2>2, <2>4 DEF ExpensesInv
<1>5. ASSUME NEW p \in Request, CommitExpense(p)
      PROVE  /\ ExpensesInv'
             /\ \A e \in Expense \ overtakenExpenses : ReviewKept(expense[e], expense'[e])
  <2> DEFINE e == spending[p].expense
  <2>1. /\ spending[p] # NotSpending /\ UNCHANGED overtakenExpenses
        /\ spending' = [spending EXCEPT ![p] = NotSpending]
        /\ expense' = [expense EXCEPT ![e] = Overwritten(expense[e], spending[p].columns)]
        BY <1>5 DEF CommitExpense
  <2>2. SpendingFormed(p) /\ e \in Expense BY <2>1 DEF ExpensesInv, SpendingFormed
  <2>3. PICK from \in ExpenseRows, to \in ExpenseRows :
          /\ spending[p].columns = Changed(from, to)
          /\ e \notin overtakenExpenses =>
               from = expense[e] /\ InOrder(to) /\ ReviewKept(from, to)
        BY <2>2 DEF SpendingFormed
  <2>4. /\ expense[e] \in ExpenseRows
        /\ expense'[e] = Overwritten(expense[e], Changed(from, to))
        /\ \A f \in Expense \ {e} : expense'[f] = expense[f]
        BY <2>1, <2>2, <2>3 DEF ExpensesInv
  <2>5. /\ expense'[e] \in ExpenseRows
        /\ e \notin overtakenExpenses => expense'[e] = to
        BY <2>3, <2>4, ExpenseWrites
  <2> HIDE DEF e
  <2>6. expense' \in [Expense -> ExpenseRows] BY <2>1, <2>4, <2>5 DEF ExpensesInv
  <2>7. \A f \in Expense \ overtakenExpenses :
          InOrder(expense'[f]) /\ ReviewKept(expense[f], expense'[f])
        BY <1>1, <2>3, <2>4, <2>5 DEF ExpensesInv
  <2>8. ExpensesInv' BY <1>4, <2>1, <2>4, <2>6, <2>7 DEF e
  <2> QED BY <2>7, <2>8
<1>6. ASSUME NEW p \in Request, AbandonExpense(p) PROVE ExpensesInv' /\ expense' = expense
      BY <1>4, <1>6 DEF AbandonExpense, ExpensesInv
<1> QED BY <1>1, <1>2, <1>3, <1>5, <1>6 DEF ExpensesNext

\* For any expenses, amounts and overlapping requests: unless operations on an expense
\* overlapped, it costs its quantity at its unit cost, what was submitted is what is
\* reviewed, and an approved expense is neither changed nor hidden.
THEOREM ExpensesKeepTerms == ExpensesSpec => ReviewedTermsStay
<1>1. ASSUME ExpensesInv, [ExpensesNext]_expensesVars
      PROVE  [\A e \in Expense \ overtakenExpenses :
                /\ expense[e] = Calculated(expense[e])
                /\ expense[e].status \in {"submitted", "approved", "rejected"} =>
                     Terms(expense'[e]) = Terms(expense[e])
                /\ expense[e].status = "approved" =>
                     expense[e].is_active /\ expense'[e] = expense[e]]_expensesVars
  <2>1. \A e \in Expense \ overtakenExpenses : InOrder(expense[e]) /\ ReviewKept(expense[e], expense'[e])
        BY <1>1, ExpenseStep DEF ExpensesInv
  <2> QED BY <2>1 DEF InOrder, ReviewKept
<1>2. ExpensesInv /\ [ExpensesNext]_expensesVars => ExpensesInv' BY ExpenseStep
<1> QED BY <1>1, <1>2, ExpensesInitially, PTL DEF ExpensesSpec, ReviewedTermsStay

\* For any expenses and requests: the rows, and what a request is to write over them, keep
\* their types (work_order_expense_service.py).
THEOREM ExpensesTyped == ExpensesSpec => []ExpensesTypeOK
<1> DEFINE Known == overtakenExpenses \subseteq Expense
<1>1. ExpensesInit => Known BY DEF ExpensesInit
<1>2. ASSUME Known, [ExpensesNext]_expensesVars PROVE Known'
  <2>1. ASSUME NEW p \in Request, NEW e \in Expense, ExpenseOperation(p, e) PROVE Known'
    <3>1. PICK to : SetExpense(p, e, to)
          BY <2>1 DEF ExpenseOperation, CreateExpense, UpdateExpense, ChangeExpenseStatus,
                DeactivateExpense, ReactivateExpense
    <3> QED BY <1>2, <3>1 DEF SetExpense
  <2> QED BY <1>2, <2>1 DEF ExpensesNext, CommitExpense, AbandonExpense, expensesVars
<1>3. ASSUME ExpensesInv, Known PROVE ExpensesTypeOK
  <2>1. ASSUME NEW p \in Request, spending[p] # NotSpending
        PROVE  /\ spending[p].expense \in Expense
               /\ Overwritten(NoExpense, spending[p].columns) \in ExpenseRows
    <3>1. SpendingFormed(p) BY <1>3, <2>1 DEF ExpensesInv
    <3>2. PICK from \in ExpenseRows, to \in ExpenseRows : spending[p].columns = Changed(from, to)
          BY <3>1 DEF SpendingFormed
    <3>3. NoExpense \in ExpenseRows BY DEF NoExpense, ExpenseRows, ExpenseStatuses
    <3> QED BY <3>1, <3>2, <3>3, ExpenseWrites DEF SpendingFormed
  <2> QED BY <1>3, <2>1 DEF ExpensesInv, ExpensesTypeOK
<1>4. ExpensesInv /\ [ExpensesNext]_expensesVars => ExpensesInv' BY ExpenseStep
<1> QED BY <1>1, <1>2, <1>3, <1>4, ExpensesInitially, PTL DEF ExpensesSpec

-----------------------------------------------------------------------------
(* Scheduling.                                                             *)

PlanFields == {"job", "columns", "opens", "checked"}

\* A plan is for an open booking, and one that was checked sets times, is of a booking that is as
\* it was and would conflict with none as they are.
PlanFormed(p) ==
    /\ planning[p].job \in Job
    /\ \E from, to \in Bookings :
         /\ planning[p].columns = Changed(from, to)
         /\ to.standing = "open"
         /\ planning[p].checked =>
              /\ to.start # None /\ to.end # None
              /\ from = booking[planning[p].job] /\ ~Conflict(planning[p].job, to.start, to.end, to.crew)

SchedulingInv ==
    /\ booking \in [Job -> Bookings]
    /\ vetted \subseteq Job
    /\ DOMAIN planning = Request
    /\ \A p \in Request :
         DOMAIN planning[p] = PlanFields /\ (planning[p].job # None => PlanFormed(p))
    /\ \A j \in vetted : booking[j].start # None /\ booking[j].end # None
    /\ VettedBookingsDisjoint

LEMMA SchedulingInitially == SchedulingInit => SchedulingInv
BY DEF SchedulingInit, SchedulingInv, NoBooking, NoPlan, PlanFields, Bookings, VettedBookingsDisjoint

LEMMA BookingWrites ==
    ASSUME NEW from \in Bookings, NEW to \in Bookings, NEW now \in Bookings
    PROVE  /\ Overwritten(now, Changed(from, to)) \in Bookings
           /\ now = from => Overwritten(now, Changed(from, to)) = to
           /\ Changed(from, to) = <<>> => Overwritten(now, Changed(from, to)) = now
<1> DEFINE row == Overwritten(now, Changed(from, to))
           columns == {"standing", "start", "end", "crew"}
<1>1. DOMAIN now = columns /\ DOMAIN to = columns BY DEF Bookings
<1>2. row = [c \in columns |-> IF to[c] # from[c] THEN to[c] ELSE now[c]]
      BY <1>1 DEF Changed, Overwritten
<1>3. row = [standing |-> row.standing, start |-> row.start, end |-> row.end, crew |-> row.crew]
      BY <1>2
<1>4. /\ row.standing \in {"none", "open", "inactive", "closed"}
      /\ row.start \in Start \cup {None} /\ row.end \in End \cup {None} /\ row.crew \in SUBSET Resource
      BY <1>2 DEF Bookings
<1>5. now = from => row = to
  <2>1. now = from => \A c \in columns : row[c] = to[c] BY <1>2
  <2>2. to = [c \in columns |-> to[c]] BY <1>1 DEF Bookings
  <2> QED BY <1>2, <2>1, <2>2
<1>6. Changed(from, to) = <<>> => row = now
  <2>1. now = [c \in columns |-> now[c]] BY <1>1 DEF Bookings
  <2>2. Overwritten(now, <<>>) = [c \in columns |-> now[c]] BY <1>1 DEF Overwritten
  <2> QED BY <2>1, <2>2
<1> HIDE DEF row
<1>7. row \in Bookings BY <1>3, <1>4 DEF Bookings
<1> QED BY <1>5, <1>6, <1>7 DEF row

\* What a plan writes is a booking, and the one it is to make where the row is as it loaded it.
LEMMA PlannedWrites ==
    ASSUME NEW from \in Bookings, NEW to \in Bookings, to.standing = "open", NEW plan,
           plan.columns = Changed(from, to), booking[plan.job] \in Bookings
    PROVE  /\ Planned(plan) \in Bookings
           /\ booking[plan.job] = from => Planned(plan) = to
<1> DEFINE row == Overwritten(booking[plan.job], plan.columns)
<1>1. row \in Bookings /\ (booking[plan.job] = from => row = to) BY BookingWrites
<1>2. Planned(plan) = IF plan.opens /\ row.standing = "closed" THEN [row EXCEPT !.standing = "open"]
                      ELSE row
      BY DEF Planned
<1> HIDE DEF row
<1>3. [row EXCEPT !.standing = "open"] \in Bookings BY <1>1 DEF Bookings
<1>4. booking[plan.job] = from => row.standing # "closed" BY <1>1
<1> QED BY <1>1, <1>2, <1>3, <1>4

LEMMA PlansOutdated ==
    ASSUME NEW plans, DOMAIN plans = Request, \A p \in Request : DOMAIN plans[p] = PlanFields
    PROVE  /\ DOMAIN Outdated(plans) = Request
           /\ \A p \in Request :
                /\ DOMAIN Outdated(plans)[p] = PlanFields
                /\ Outdated(plans)[p].job = plans[p].job
                /\ Outdated(plans)[p].columns = plans[p].columns
                /\ Outdated(plans)[p].checked = FALSE
BY DEF Outdated, PlanFields

\* A booking changes without a look at others.
LEMMA BookingSet ==
    ASSUME SchedulingInv, NEW j \in Job, NEW to \in Bookings, SetBooking(j, to)
    PROVE  SchedulingInv'
<1>1. /\ booking' = [booking EXCEPT ![j] = to] /\ vetted' = vetted \ {j}
      /\ planning' = Outdated(planning)
      BY DEF SetBooking
<1>2. booking' \in [Job -> Bookings] /\ \A k \in Job \ {j} : booking'[k] = booking[k]
      BY <1>1 DEF SchedulingInv
<1>3. /\ DOMAIN planning' = Request
      /\ \A p \in Request :
           /\ DOMAIN planning'[p] = PlanFields /\ planning'[p].job = planning[p].job
           /\ planning'[p].columns = planning[p].columns /\ planning'[p].checked = FALSE
      BY <1>1, PlansOutdated DEF SchedulingInv
<1>4. ASSUME NEW p \in Request, planning[p].job # None PROVE PlanFormed(p)'
  <2>1. PlanFormed(p) BY <1>4 DEF SchedulingInv
  <2> QED BY <1>3, <2>1 DEF PlanFormed
<1>5. VettedBookingsDisjoint'
      BY <1>1, <1>2 DEF SchedulingInv, VettedBookingsDisjoint, Standing, Overlaps
<1>6. vetted' \subseteq Job /\ \A k \in vetted' : booking'[k].start # None /\ booking'[k].end # None
      BY <1>1, <1>2 DEF SchedulingInv
<1> QED BY <1>2, <1>3, <1>4, <1>5, <1>6 DEF SchedulingInv

LEMMA JobStepKeeps ==
    ASSUME SchedulingInv, NEW j \in Job, JobStep(j)
    PROVE  SchedulingInv'
<1> DEFINE was == booking[j]
<1>1. was \in Bookings BY DEF SchedulingInv
<1>2. SUFFICES \E to \in Bookings : SetBooking(j, to) BY BookingSet
<1>3. ASSUME NEW standing \in {"open", "inactive", "closed"}, NEW row \in {was, NoBooking}
      PROVE  [row EXCEPT !.standing = standing] \in Bookings
      BY <1>1 DEF Bookings, NoBooking
<1>4. CASE CreateJob(j) \/ CloseJob(j) \/ DeactivateJob(j) \/ ReactivateJob(j)
      BY <1>3, <1>4 DEF CreateJob, CloseJob, DeactivateJob, ReactivateJob
<1>5. ASSUME NEW start \in Start \cup {None}, NEW end \in End \cup {None}, EditTimes(j, start, end)
      PROVE  \E to \in Bookings : SetBooking(j, to)
  <2>1. [was EXCEPT !.start = start, !.end = end] \in Bookings BY <1>1 DEF Bookings
  <2> QED BY <1>5, <2>1 DEF EditTimes
<1>6. ASSUME NEW r \in Resource, Assign(j, r) \/ Unassign(j, r)
      PROVE  \E to \in Bookings : SetBooking(j, to)
  <2>1. was.crew \cup {r} \in SUBSET Resource /\ was.crew \ {r} \in SUBSET Resource
        BY <1>1 DEF Bookings
  <2>2. ASSUME NEW crew \in SUBSET Resource PROVE [was EXCEPT !.crew = crew] \in Bookings
        BY <1>1 DEF Bookings
  <2>3. /\ [was EXCEPT !.crew = was.crew \cup {r}] \in Bookings
        /\ [was EXCEPT !.crew = was.crew \ {r}] \in Bookings
        BY <2>1, <2>2
  <2> QED BY <1>6, <2>3 DEF Assign, Unassign
<1> QED BY <1>4, <1>5, <1>6 DEF JobStep

\* A plan begins, and sets times where it looks for conflicts.
LEMMA PlanBegins ==
    ASSUME SchedulingInv, NEW p \in Request, NEW j \in Job, NEW to \in Bookings,
           NEW opens \in BOOLEAN, NEW fail \in BOOLEAN, to.standing = booking[j].standing,
           fail => to.start # None /\ to.end # None, Plan(p, j, to, opens, fail)
    PROVE  SchedulingInv'
<1> DEFINE plan == [job |-> j, columns |-> Changed(booking[j], to), opens |-> opens, checked |-> fail]
<1>1. UNCHANGED <<booking, vetted>> /\ planning' = [planning EXCEPT ![p] = plan]
      BY DEF Plan
<1>2. /\ DOMAIN planning' = Request /\ planning'[p] = plan
      /\ \A q \in Request \ {p} : planning'[q] = planning[q]
      BY <1>1 DEF SchedulingInv
<1>3. fail => ~Conflict(j, to.start, to.end, to.crew) BY DEF Plan
<1>4. fail => ~Conflict(j, to.start, to.end, to.crew)'
      BY <1>1, <1>3 DEF Conflict, Overlaps, Standing
<1>5. PlanFormed(p)'
  <2>1. booking'[j] \in Bookings BY <1>1 DEF SchedulingInv
  <2>2. /\ planning'[p].job = j /\ planning'[p].checked = fail
        /\ planning'[p].columns = Changed(booking'[j], to)
        BY <1>1, <1>2
  <2>3. to.standing = "open" BY DEF Plan, Standing
  <2> QED BY <1>4, <2>1, <2>2, <2>3 DEF PlanFormed
<1>6. ASSUME NEW q \in Request \ {p}, planning[q].job # None PROVE PlanFormed(q)'
  <2>1. PlanFormed(q) BY <1>6 DEF SchedulingInv
  <2> QED BY <1>1, <1>2, <2>1 DEF PlanFormed, Conflict, Overlaps, Standing
<1>7. DOMAIN planning'[p] = PlanFields BY <1>2 DEF PlanFields
<1>8. VettedBookingsDisjoint'
      BY <1>1 DEF SchedulingInv, VettedBookingsDisjoint, Standing, Overlaps
<1> QED BY <1>1, <1>2, <1>5, <1>6, <1>7, <1>8 DEF SchedulingInv

LEMMA PlanCommits ==
    ASSUME SchedulingInv, NEW p \in Request, CommitPlan(p)
    PROVE  SchedulingInv'
<1> DEFINE j == planning[p].job
           columns == planning[p].columns
           checked == planning[p].checked
           planned == Planned(planning[p])
           plans == [planning EXCEPT ![p] = NoPlan]
<1>1. /\ j # None
      /\ booking' = [booking EXCEPT ![j] = planned]
      /\ vetted' = IF checked THEN vetted \cup {j} ELSE IF planned = booking[j] THEN vetted ELSE vetted \ {j}
      /\ planning' = IF planned = booking[j] THEN plans ELSE Outdated(plans)
      BY DEF CommitPlan
<1>2. PlanFormed(p) /\ j \in Job BY <1>1 DEF SchedulingInv, PlanFormed
<1>3. PICK from \in Bookings, to \in Bookings :
        /\ columns = Changed(from, to) /\ to.standing = "open"
        /\ checked => /\ to.start # None /\ to.end # None
                      /\ from = booking[j] /\ ~Conflict(j, to.start, to.end, to.crew)
      BY <1>2 DEF PlanFormed
<1>4. /\ booking[j] \in Bookings /\ booking'[j] = planned
      /\ \A k \in Job \ {j} : booking'[k] = booking[k]
      BY <1>1, <1>2, <1>3 DEF SchedulingInv
<1>5. /\ booking'[j] \in Bookings
      /\ checked => booking'[j] = to
      BY <1>3, <1>4, PlannedWrites
<1>6. booking' \in [Job -> Bookings] BY <1>1, <1>4, <1>5 DEF SchedulingInv
<1>7. planned = booking[j] => booking' = booking
      BY <1>1, <1>5, <1>6 DEF SchedulingInv
<1>8. /\ DOMAIN plans = Request /\ plans[p] = NoPlan
      /\ \A q \in Request \ {p} : plans[q] = planning[q]
      /\ \A q \in Request : DOMAIN plans[q] = PlanFields
      BY DEF SchedulingInv, NoPlan, PlanFields
<1> HIDE DEF plans, planned, columns, checked, j
<1>9. /\ DOMAIN planning' = Request
      /\ \A q \in Request :
           /\ DOMAIN planning'[q] = PlanFields /\ planning'[q].job = plans[q].job
           /\ planning'[q].columns = plans[q].columns
           /\ planning'[q].checked => plans[q].checked /\ booking' = booking
      BY <1>1, <1>7, <1>8, PlansOutdated, ZenonT(60)
<1>10. planning'[p].job = None BY <1>8, <1>9 DEF NoPlan
<1>11. ASSUME NEW q \in Request \ {p}, planning'[q].job # None PROVE PlanFormed(q)'
  <2>1. /\ planning'[q].job = planning[q].job /\ planning'[q].columns = planning[q].columns
        /\ planning'[q].checked => planning[q].checked /\ booking' = booking
        BY <1>8, <1>9
  <2>2. PlanFormed(q) BY <1>11, <2>1 DEF SchedulingInv
  <2>3. ASSUME booking' = booking, NEW k, NEW start, NEW end, NEW crew, ~Conflict(k, start, end, crew)
        PROVE  ~Conflict(k, start, end, crew)'
        BY <2>3 DEF Conflict, Overlaps, Standing
  <2> QED BY <2>1, <2>2, <2>3 DEF PlanFormed
<1>12. vetted' \subseteq vetted \cup (IF checked THEN {j} ELSE {})
       BY <1>1
<1>13. ~checked => \A k \in vetted' : booking'[k] = booking[k]
       BY <1>1, <1>4, <1>7 DEF SchedulingInv
<1>14. \A k \in vetted' : booking'[k].start # None /\ booking'[k].end # None
       BY <1>3, <1>4, <1>5, <1>12, <1>13 DEF SchedulingInv
<1>15. ASSUME NEW k \in vetted', k # j, checked
       PROVE  ~Overlaps(k, to.start, to.end)' \/ to.crew \cap booking'[k].crew = {}
  <2>1. k \in Job \ {j} /\ booking'[k] = booking[k] BY <1>4, <1>12, <1>15 DEF SchedulingInv
  <2>2. ~(Overlaps(k, to.start, to.end) /\ booking[k].crew \cap to.crew # {})
        BY <1>3, <1>15, <2>1 DEF Conflict
  <2> QED BY <2>1, <2>2 DEF Overlaps, Standing
<1>16. VettedBookingsDisjoint'
  <2>1. ASSUME NEW k \in vetted', NEW l \in vetted', k # l,
               booking'[k].standing = "open", booking'[l].standing = "open",
               booking'[k].start < booking'[l].end, booking'[l].start < booking'[k].end
        PROVE  booking'[k].crew \cap booking'[l].crew = {}
    <3>1. CASE (k # j /\ l # j) \/ ~checked
      <4>1. booking'[k] = booking[k] /\ booking'[l] = booking[l] /\ k \in vetted /\ l \in vetted
            BY <1>4, <1>12, <1>13, <3>1 DEF SchedulingInv
      <4> QED BY <2>1, <4>1 DEF SchedulingInv, VettedBookingsDisjoint, Overlaps, Standing
    <3>2. CASE k = j /\ checked
          BY <1>5, <1>14, <1>15, <2>1, <3>2 DEF Overlaps, Standing
    <3>3. CASE l = j /\ checked
          BY <1>5, <1>14, <1>15, <2>1, <3>3 DEF Overlaps, Standing
    <3> QED BY <2>1, <3>1, <3>2, <3>3
  <2> QED BY <2>1 DEF VettedBookingsDisjoint, Overlaps, Standing
<1>17. vetted' \subseteq Job BY <1>2, <1>12 DEF SchedulingInv
<1> QED BY <1>6, <1>9, <1>10, <1>11, <1>14, <1>16, <1>17 DEF SchedulingInv

LEMMA SchedulingStep == SchedulingInv /\ [SchedulingNext]_schedulingVars => SchedulingInv'
<1> SUFFICES ASSUME SchedulingInv, [SchedulingNext]_schedulingVars PROVE SchedulingInv'
    OBVIOUS
<1>1. CASE UNCHANGED schedulingVars
      BY <1>1 DEF schedulingVars, SchedulingInv, PlanFormed, VettedBookingsDisjoint, Conflict,
            Overlaps, Standing
<1>2. ASSUME NEW j \in Job, JobStep(j) PROVE SchedulingInv' BY <1>2, JobStepKeeps
<1>3. ASSUME NEW p \in Request, NEW j \in Job, NEW fail \in BOOLEAN,
             NEW start \in Start, NEW end \in End, NEW crew \in SUBSET Resource,
             NEW set \in BOOLEAN, ScheduleJob(p, j, start, end, crew, set, fail)
      PROVE  SchedulingInv'
  <2> DEFINE to == [booking[j] EXCEPT !.start = start, !.end = end, !.crew = crew]
  <2>1. to \in Bookings /\ to.start = start /\ to.end = end /\ to.standing = booking[j].standing
        BY DEF SchedulingInv, Bookings
  <2>2. start # None /\ end # None BY SchedulingAssumption
  <2>3. Plan(p, j, to, set, fail) BY <1>3 DEF ScheduleJob
  <2> HIDE DEF to
  <2> QED BY <2>1, <2>2, <2>3, PlanBegins
<1>4. ASSUME NEW p \in Request, NEW j \in Job, NEW fail \in BOOLEAN,
             DispatchJob(p, j, fail) \/ ChangeJobStatus(p, j)
      PROVE  SchedulingInv'
      BY <1>4, PlanBegins DEF DispatchJob, ChangeJobStatus, SchedulingInv
<1>5. ASSUME NEW p \in Request, CommitPlan(p) PROVE SchedulingInv' BY <1>5, PlanCommits
<1>6. ASSUME NEW p \in Request, AbandonPlan(p) PROVE SchedulingInv'
  <2>1. /\ UNCHANGED <<booking, vetted>> /\ DOMAIN planning' = Request /\ planning'[p] = NoPlan
        /\ \A q \in Request \ {p} : planning'[q] = planning[q]
        BY <1>6 DEF AbandonPlan, SchedulingInv
  <2>2. NoPlan.job = None /\ DOMAIN NoPlan = PlanFields BY DEF NoPlan, PlanFields
  <2>3. ASSUME NEW q \in Request \ {p}, planning[q].job # None PROVE PlanFormed(q)'
    <3>1. PlanFormed(q) BY <2>3 DEF SchedulingInv
    <3> QED BY <2>1, <3>1 DEF PlanFormed, Conflict, Overlaps, Standing
  <2>4. VettedBookingsDisjoint'
        BY <2>1 DEF SchedulingInv, VettedBookingsDisjoint, Standing, Overlaps
  <2> QED BY <2>1, <2>2, <2>3, <2>4 DEF SchedulingInv
<1> QED BY <1>1, <1>2, <1>3, <1>4, <1>5, <1>6 DEF SchedulingNext, PlanningStep

\* For any jobs, crews, times and concurrent requests: two bookings that each failed on
\* conflicts, and that nothing changed since, book nobody twice at a time.
THEOREM VettedDisjoint == SchedulingSpec => []VettedBookingsDisjoint
<1>1. SchedulingInv => VettedBookingsDisjoint BY DEF SchedulingInv
<1> QED BY <1>1, SchedulingInitially, SchedulingStep, PTL DEF SchedulingSpec

\* A request that plans nothing writes nothing.
PlansTyped ==
    \A p \in Request : /\ planning[p].checked \in BOOLEAN /\ planning[p].opens \in BOOLEAN
                       /\ planning[p].job = None => planning[p].columns = <<>>

LEMMA PlansStayTyped ==
    ASSUME SchedulingInv, PlansTyped, [SchedulingNext]_schedulingVars
    PROVE  PlansTyped'
<1>1. ASSUME NEW plans, DOMAIN plans = Request,
             \A p \in Request : /\ DOMAIN plans[p] = PlanFields
                                /\ plans[p].checked \in BOOLEAN /\ plans[p].opens \in BOOLEAN
                                /\ plans[p].job = None => plans[p].columns = <<>>,
             planning' = plans \/ planning' = Outdated(plans)
      PROVE  PlansTyped'
  <2>1. \A p \in Request : /\ planning'[p].job = plans[p].job
                           /\ planning'[p].columns = plans[p].columns
                           /\ planning'[p].opens = plans[p].opens
                           /\ planning'[p].checked \in {plans[p].checked, FALSE}
        BY <1>1 DEF Outdated, PlanFields
  <2> QED BY <1>1, <2>1 DEF PlansTyped
<1>2. /\ DOMAIN planning = Request
      /\ \A p \in Request : /\ DOMAIN planning[p] = PlanFields
                            /\ planning[p].checked \in BOOLEAN /\ planning[p].opens \in BOOLEAN
                            /\ planning[p].job = None => planning[p].columns = <<>>
      BY DEF SchedulingInv, PlansTyped
<1>3. CASE UNCHANGED schedulingVars BY <1>1, <1>2, <1>3 DEF schedulingVars
<1>4. ASSUME NEW j \in Job, JobStep(j) PROVE PlansTyped'
  <2>1. planning' = Outdated(planning)
        BY <1>4 DEF JobStep, CreateJob, CloseJob, DeactivateJob, ReactivateJob, EditTimes, Assign,
              Unassign, SetBooking
  <2> QED BY <1>1, <1>2, <2>1
<1>5. ASSUME NEW p \in Request, NEW j \in Job, NEW to, NEW opens \in BOOLEAN,
             NEW fail \in BOOLEAN, Plan(p, j, to, opens, fail)
      PROVE  PlansTyped'
  <2> DEFINE plan == [job |-> j, columns |-> Changed(booking[j], to), opens |-> opens, checked |-> fail]
             plans == [planning EXCEPT ![p] = plan]
  <2>1. planning' = plans BY <1>5 DEF Plan
  <2>2. /\ DOMAIN plan = PlanFields /\ plan.job # None
        /\ plan.checked \in BOOLEAN /\ plan.opens \in BOOLEAN
        BY SchedulingAssumption DEF PlanFields
  <2> HIDE DEF plan
  <2>3. DOMAIN plans = Request /\ \A q \in Request : plans[q] = IF q = p THEN plan ELSE planning[q]
        BY <1>2
  <2> HIDE DEF plans
  <2> QED BY <1>1, <1>2, <2>1, <2>2, <2>3
<1>6. ASSUME NEW p \in Request, CommitPlan(p) \/ AbandonPlan(p) PROVE PlansTyped'
  <2> DEFINE plans == [planning EXCEPT ![p] = NoPlan]
  <2>1. planning' = plans \/ planning' = Outdated(plans) BY <1>6 DEF CommitPlan, AbandonPlan
  <2>2. /\ DOMAIN NoPlan = PlanFields /\ NoPlan.columns = <<>>
        /\ NoPlan.checked \in BOOLEAN /\ NoPlan.opens \in BOOLEAN
        BY DEF NoPlan, PlanFields
  <2>3. DOMAIN plans = Request /\ \A q \in Request : plans[q] = IF q = p THEN NoPlan ELSE planning[q]
        BY <1>2
  <2> HIDE DEF plans
  <2> QED BY <1>1, <1>2, <2>1, <2>2, <2>3
<1> QED BY <1>3, <1>4, <1>5, <1>6 DEF SchedulingNext, PlanningStep, ScheduleJob, DispatchJob,
      ChangeJobStatus

\* For any jobs, workers, times and requests: bookings and what every planning request is to
\* write keep their types (work_order_scheduling_service.py).
THEOREM SchedulingTyped == SchedulingSpec => []SchedulingTypeOK
<1>1. SchedulingInit => PlansTyped
  <2>1. NoPlan.checked \in BOOLEAN /\ NoPlan.opens \in BOOLEAN /\ NoPlan.columns = <<>> BY DEF NoPlan
  <2> QED BY <2>1 DEF SchedulingInit, PlansTyped
<1>2. ASSUME SchedulingInv, PlansTyped PROVE SchedulingTypeOK
  <2>1. NoBooking \in Bookings BY DEF NoBooking, Bookings
  <2>2. ASSUME NEW p \in Request
        PROVE  /\ planning[p].job \in Job \cup {None}
               /\ Overwritten(NoBooking, planning[p].columns) \in Bookings
    <3>1. CASE planning[p].job = None
      <4>1. planning[p].columns = <<>> BY <1>2, <3>1 DEF PlansTyped
      <4>2. Overwritten(NoBooking, <<>>) = NoBooking BY DEF Overwritten, NoBooking
      <4> QED BY <2>1, <3>1, <4>1, <4>2
    <3>2. CASE planning[p].job # None
      <4>1. PlanFormed(p) BY <1>2, <3>2 DEF SchedulingInv
      <4>2. PICK from \in Bookings, to \in Bookings : planning[p].columns = Changed(from, to)
            BY <4>1 DEF PlanFormed
      <4> QED BY <2>1, <4>1, <4>2, BookingWrites DEF PlanFormed
    <3> QED BY <3>1, <3>2
  <2> QED BY <1>2, <2>2 DEF SchedulingInv, PlansTyped, SchedulingTypeOK
<1>3. SchedulingInv /\ PlansTyped /\ [SchedulingNext]_schedulingVars => PlansTyped'
      BY PlansStayTyped
<1> QED BY <1>1, <1>2, <1>3, SchedulingInitially, SchedulingStep, PTL DEF SchedulingSpec

-----------------------------------------------------------------------------
(* Closeouts.                                                              *)

\* Nothing that was not approved is ready for invoice.
CloseoutSound(row) ==
    /\ row.status # "approved" => ~row.is_invoice_ready
    /\ row.status = "none" => row = NoRow("closeout")

\* What an operation may make of a closeout.
ApprovalKept(was, now) ==
    was.status = "approved" =>
        /\ now.status = "approved" /\ now.report = was.report
        /\ was.is_invoice_ready => now.is_invoice_ready

\* An operation that makes a closeout commits where there is none yet; another one holds the
\* lock of the closeout, which is as it found it.
CloseoutFormed(p) ==
    /\ job[p].work \in WorkOrder /\ job[p].place \in Place
    /\ job[p].place = "closeout" =>
         \E from, to \in CloseoutRows :
            /\ job[p].columns = Changed(from, to)
            /\ CloseoutSound(to) /\ ApprovalKept(from, to)
            /\ IF job[p].creates THEN from = NoRow("closeout")
               ELSE /\ from = work[job[p].work].closeout /\ from.status # "none"
                    /\ closeoutLock[job[p].work] = p

WorkOrdersInv ==
    /\ DOMAIN work = WorkOrder
    /\ \A w \in WorkOrder :
         /\ DOMAIN work[w] = Place
         /\ work[w].closeout \in CloseoutRows /\ CloseoutSound(work[w].closeout)
    /\ DOMAIN closeoutLock = WorkOrder
    /\ DOMAIN job = Request
    /\ \A p \in Request : job[p] = NoJob \/ CloseoutFormed(p)

LEMMA NoCloseout ==
    /\ NoRow("closeout") = [status |-> "none", is_invoice_ready |-> FALSE, report |-> "first"]
    /\ NoRow("closeout") \in CloseoutRows /\ CloseoutSound(NoRow("closeout"))
<1>1. NoRow("closeout") = [status |-> "none", is_invoice_ready |-> FALSE, report |-> "first"]
      BY DEF NoRow
<1>2. [status |-> "none", is_invoice_ready |-> FALSE, report |-> "first"] \in CloseoutRows
      BY DEF CloseoutRows, Reports
<1>3. ~NoRow("closeout").is_invoice_ready BY <1>1
<1> QED BY <1>1, <1>2, <1>3 DEF CloseoutSound

LEMMA WorkOrdersInitially == WorkOrdersInit => WorkOrdersInv
<1> SUFFICES ASSUME WorkOrdersInit PROVE WorkOrdersInv OBVIOUS
<1>1. /\ DOMAIN work = WorkOrder
      /\ \A w \in WorkOrder : DOMAIN work[w] = Place /\ work[w].closeout = NoRow("closeout")
      BY DEF WorkOrdersInit, Place
<1>2. /\ DOMAIN closeoutLock = WorkOrder /\ DOMAIN job = Request
      /\ \A p \in Request : job[p] = NoJob
      BY DEF WorkOrdersInit
<1> QED BY <1>1, <1>2, NoCloseout DEF WorkOrdersInv

LEMMA CloseoutWrites ==
    ASSUME NEW from \in CloseoutRows, NEW to \in CloseoutRows
    PROVE  Overwritten(from, Changed(from, to)) = to
BY DEF CloseoutRows, Overwritten, Changed

\* An operation begins on a row that is not the closeout.
LEMMA WorkBegins ==
    ASSUME WorkOrdersInv, NEW p \in Request, NEW w \in WorkOrder, NEW x \in Place \ {"closeout"},
           NEW to, Operate(p, w, x, to)
    PROVE  WorkOrdersInv' /\ work' = work
<1>1. /\ UNCHANGED <<work, closeoutLock>> /\ DOMAIN job' = Request
      /\ job'[p].work = w /\ job'[p].place = x
      /\ \A q \in Request \ {p} : job'[q] = job[q]
      BY DEF WorkOrdersInv, Operate, Begin
<1>2. CloseoutFormed(p)' BY <1>1 DEF CloseoutFormed
<1>3. ASSUME NEW q \in Request \ {p}, job[q] # NoJob PROVE CloseoutFormed(q)'
  <2>1. CloseoutFormed(q) BY <1>3 DEF WorkOrdersInv
  <2> QED BY <1>1, <2>1 DEF CloseoutFormed
<1> QED BY <1>1, <1>2, <1>3 DEF WorkOrdersInv

\* An operation begins that is to make a sound closeout, and keep what was approved.
LEMMA CloseoutBegins ==
    ASSUME WorkOrdersInv, NEW p \in Request, NEW w \in WorkOrder, NEW to \in CloseoutRows,
           LockCloseout(p, w, to), CloseoutSound(to), ApprovalKept(work[w].closeout, to)
    PROVE  WorkOrdersInv' /\ work' = work
<1> DEFINE from == work[w].closeout
<1>1. /\ work' = work /\ DOMAIN job' = Request
      /\ job'[p] = [work |-> w, place |-> "closeout", creates |-> from.status = "none",
                    columns |-> Changed(from, to)]
      /\ \A q \in Request \ {p} : job'[q] = job[q]
      BY DEF WorkOrdersInv, LockCloseout, Begin
<1>2. /\ DOMAIN closeoutLock' = WorkOrder /\ closeoutLock[w] = None
      /\ \A v \in WorkOrder \ {w} : closeoutLock'[v] = closeoutLock[v]
      /\ closeoutLock'[w] = IF from.status = "none" THEN None ELSE p
      BY DEF WorkOrdersInv, LockCloseout
<1>3. from \in CloseoutRows /\ (from.status = "none" => from = NoRow("closeout"))
      BY DEF WorkOrdersInv, CloseoutSound
<1>4. CloseoutFormed(p)'
  <2>1. /\ job'[p].work = w /\ job'[p].place = "closeout" /\ job'[p].columns = Changed(from, to)
        /\ job'[p].creates = (from.status = "none")
        BY <1>1
  <2>2. "closeout" \in Place BY DEF Place
  <2>3. work'[w].closeout = from BY <1>1
  <2>4. IF job'[p].creates THEN from = NoRow("closeout")
        ELSE from = work'[w].closeout /\ from.status # "none" /\ closeoutLock'[w] = p
        BY <1>2, <1>3, <2>1, <2>3
  <2> HIDE DEF from
  <2> QED BY <1>3, <2>1, <2>2, <2>4 DEF CloseoutFormed, from
<1>5. ASSUME NEW q \in Request \ {p}, job[q] # NoJob PROVE CloseoutFormed(q)'
  <2>1. CloseoutFormed(q) BY <1>5 DEF WorkOrdersInv
  <2>2. job[q].place = "closeout" /\ ~job[q].creates => job[q].work # w
        BY <1>2, <2>1, WorkOrdersAssumption DEF CloseoutFormed
  <2>3. job'[q] = job[q] BY <1>1
  <2> QED BY <1>1, <1>2, <2>1, <2>2, <2>3 DEF CloseoutFormed
<1> QED BY <1>1, <1>2, <1>4, <1>5 DEF WorkOrdersInv

LEMMA CloseoutOperationKeeps ==
    ASSUME WorkOrdersInv, NEW p \in Request, NEW w \in WorkOrder, CloseoutOperation(p, w)
    PROVE  WorkOrdersInv' /\ work' = work
<1> DEFINE was == work[w].closeout
           Lawful(to) == to \in CloseoutRows /\ CloseoutSound(to) /\ ApprovalKept(was, to)
<1>1. was \in CloseoutRows /\ CloseoutSound(was) BY DEF WorkOrdersInv
<1>2. SUFFICES \E to : LockCloseout(p, w, to) /\ Lawful(to) BY CloseoutBegins
<1>3. ASSUME NEW report \in Reports, SubmitCloseout(p, w, report)
      PROVE  \E to : LockCloseout(p, w, to) /\ Lawful(to)
  <2>1. was.status # "approved" BY <1>3 DEF SubmitCloseout, Closeout
  <2>2. Lawful([was EXCEPT !.status = "submitted", !.report = report])
        BY <1>1, <2>1 DEF CloseoutRows, CloseoutSound, ApprovalKept
  <2> QED BY <1>3, <2>2 DEF SubmitCloseout, Closeout
<1>4. ASSUME NEW report \in Reports, UpdateCloseout(p, w, report)
      PROVE  \E to : LockCloseout(p, w, to) /\ Lawful(to)
  <2>1. was.status \in {"submitted", "rejected"} BY <1>4 DEF UpdateCloseout, Closeout
  <2>2. Lawful([was EXCEPT !.report = report])
        BY <1>1, <2>1 DEF CloseoutRows, CloseoutSound, ApprovalKept
  <2> QED BY <1>4, <2>2 DEF UpdateCloseout, Closeout
<1>5. ASSUME NEW ready \in BOOLEAN, ApproveCloseout(p, w, ready)
      PROVE  \E to : LockCloseout(p, w, to) /\ Lawful(to)
  <2>1. was.status = "submitted" BY <1>5 DEF ApproveCloseout, Closeout
  <2>2. was.is_invoice_ready \in BOOLEAN /\ (ready \/ was.is_invoice_ready) \in BOOLEAN
        BY <1>1 DEF CloseoutRows
  <2>3. \A r \in BOOLEAN : Lawful([was EXCEPT !.status = "approved", !.is_invoice_ready = r])
        BY <1>1, <2>1 DEF CloseoutRows, CloseoutSound, ApprovalKept
  <2>4. Lawful([was EXCEPT !.status = "approved", !.is_invoice_ready = ready \/ was.is_invoice_ready])
        BY <2>2, <2>3
  <2> QED BY <1>5, <2>4 DEF ApproveCloseout, Closeout
<1>6. CASE RejectCloseout(p, w)
  <2>1. was.status = "submitted" BY <1>6 DEF RejectCloseout, Closeout
  <2>2. Lawful([was EXCEPT !.status = "rejected", !.is_invoice_ready = FALSE])
        BY <1>1, <2>1 DEF CloseoutRows, CloseoutSound, ApprovalKept
  <2> QED BY <1>6, <2>2 DEF RejectCloseout, Closeout
<1>7. CASE MarkInvoiceReady(p, w)
  <2>1. was.status = "approved" BY <1>7 DEF MarkInvoiceReady, Closeout
  <2>2. Lawful([was EXCEPT !.is_invoice_ready = TRUE])
        BY <1>1, <2>1 DEF CloseoutRows, CloseoutSound, ApprovalKept
  <2> QED BY <1>7, <2>2 DEF MarkInvoiceReady, Closeout
<1> HIDE DEF was, Lawful
<1> QED BY <1>3, <1>4, <1>5, <1>6, <1>7 DEF CloseoutOperation

\* An operation ends; whoever holds the lock of another closeout still finds it as it was.
LEMMA WorkEnds ==
    ASSUME WorkOrdersInv, NEW p \in Request, EndJob(p),
           DOMAIN work' = WorkOrder,
           \A w \in WorkOrder :
              /\ DOMAIN work'[w] = Place
              /\ work'[w].closeout \in CloseoutRows /\ CloseoutSound(work'[w].closeout)
              /\ work[w].closeout.status # "none" /\ closeoutLock[w] # p =>
                   work'[w].closeout = work[w].closeout
    PROVE  WorkOrdersInv'
<1>1. /\ DOMAIN job' = Request /\ job'[p] = NoJob
      /\ \A q \in Request \ {p} : job'[q] = job[q]
      BY DEF EndJob, WorkOrdersInv
<1>2. /\ DOMAIN closeoutLock' = WorkOrder
      /\ \A w \in WorkOrder : closeoutLock[w] # p => closeoutLock'[w] = closeoutLock[w]
      BY DEF EndJob
<1>3. ASSUME NEW q \in Request \ {p}, job[q] # NoJob PROVE CloseoutFormed(q)'
  <2>1. CloseoutFormed(q) BY <1>3 DEF WorkOrdersInv
  <2>2. job'[q] = job[q] BY <1>1
  <2>3. ASSUME job[q].place = "closeout", ~job[q].creates
        PROVE  /\ work'[job[q].work].closeout = work[job[q].work].closeout
               /\ closeoutLock'[job[q].work] = q
        BY <1>2, <2>1, <2>3 DEF CloseoutFormed
  <2> QED BY <2>1, <2>2, <2>3 DEF CloseoutFormed
<1> QED BY <1>1, <1>2, <1>3 DEF WorkOrdersInv

LEMMA WorkCommits ==
    ASSUME WorkOrdersInv, NEW p \in Request, CommitJob(p)
    PROVE  /\ WorkOrdersInv'
           /\ \A w \in WorkOrder : ApprovalKept(work[w].closeout, work'[w].closeout)
<1> DEFINE w == job[p].work
           x == job[p].place
           columns == job[p].columns
<1>1. /\ job[p] # NoJob /\ EndJob(p)
      /\ job[p].creates => work[w][x].status = "none"
      /\ work' = [work EXCEPT ![w][x] = Overwritten(work[w][x], columns)]
      BY DEF CommitJob
<1>2. CloseoutFormed(p) /\ w \in WorkOrder /\ x \in Place BY <1>1 DEF WorkOrdersInv, CloseoutFormed
<1>3. /\ DOMAIN work' = WorkOrder
      /\ \A v \in WorkOrder : DOMAIN work'[v] = Place
      /\ \A v \in WorkOrder \ {w} : work'[v] = work[v]
      /\ work'[w][x] = Overwritten(work[w][x], columns)
      /\ \A y \in Place \ {x} : work'[w][y] = work[w][y]
      BY <1>1, <1>2 DEF WorkOrdersInv
<1>4. "closeout" \in Place BY DEF Place
<1>5. CASE x # "closeout"
  <2>1. \A v \in WorkOrder : work'[v].closeout = work[v].closeout BY <1>3, <1>4, <1>5
  <2>2. WorkOrdersInv' BY <1>1, <1>3, <2>1, WorkEnds DEF WorkOrdersInv
  <2> QED BY <2>1, <2>2 DEF ApprovalKept
<1>6. CASE x = "closeout"
  <2>1. PICK from \in CloseoutRows, to \in CloseoutRows :
          /\ columns = Changed(from, to) /\ CloseoutSound(to) /\ ApprovalKept(from, to)
          /\ IF job[p].creates THEN from = NoRow("closeout")
             ELSE from = work[w].closeout /\ from.status # "none" /\ closeoutLock[w] = p
        BY <1>2, <1>6 DEF CloseoutFormed
  <2>2. from = work[w].closeout
    <3>1. CASE job[p].creates
      <4>1. work[w].closeout.status = "none" BY <1>1, <1>6, <3>1
      <4>2. work[w].closeout = NoRow("closeout") BY <1>2, <4>1 DEF WorkOrdersInv, CloseoutSound
      <4> QED BY <2>1, <3>1, <4>2
    <3> QED BY <2>1, <3>1
  <2>3. work'[w].closeout = to
    <3>1. work'[w].closeout = Overwritten(from, Changed(from, to)) BY <1>3, <1>6, <2>1, <2>2
    <3> QED BY <3>1, CloseoutWrites
  <2>4. work[w].closeout.status # "none" => closeoutLock[w] = p BY <2>1, <2>2, NoCloseout
  <2> HIDE DEF w, x
  <2>5. WorkOrdersInv' BY <1>1, <1>3, <2>1, <2>3, <2>4, WorkEnds DEF WorkOrdersInv
  <2>6. ApprovalKept(work[w].closeout, work'[w].closeout) BY <2>1, <2>2, <2>3
  <2> QED BY <1>3, <2>5, <2>6 DEF ApprovalKept
<1> QED BY <1>5, <1>6

LEMMA WorkOrdersStep ==
    ASSUME WorkOrdersInv, [WorkOrdersNext]_workOrdersVars
    PROVE  /\ WorkOrdersInv'
           /\ \A w \in WorkOrder : ApprovalKept(work[w].closeout, work'[w].closeout)
<1>1. \A w \in WorkOrder : ApprovalKept(work[w].closeout, work[w].closeout) BY DEF ApprovalKept
<1>2. CASE UNCHANGED workOrdersVars
      BY <1>1, <1>2 DEF workOrdersVars, WorkOrdersInv, CloseoutFormed
<1>3. "order" \in Place \ {"closeout"} /\ ChecklistItem \subseteq Place \ {"closeout"}
      BY WorkOrdersAssumption DEF Place
<1>4. ASSUME NEW p \in Request, NEW w \in WorkOrder, WorkOrderOperation(p, w)
      PROVE  WorkOrdersInv' /\ work' = work
  <2>1. \E to : Operate(p, w, "order", to)
        BY <1>4 DEF WorkOrderOperation, CreateWorkOrder, UpdateWorkOrder, ChangeStatus,
              ScheduleWorkOrder, DispatchWorkOrder, DeactivateWorkOrder, ReactivateWorkOrder,
              SetWorkOrder
  <2> QED BY <1>3, <2>1, WorkBegins
<1>5. ASSUME NEW p \in Request, NEW w \in WorkOrder, NEW i \in ChecklistItem,
             ChecklistOperation(p, w, i)
      PROVE  WorkOrdersInv' /\ work' = work
  <2>1. \E to : Operate(p, w, i, to)
        BY <1>5 DEF ChecklistOperation, CreateItem, UpdateItem, ChangeItemStatus, DeactivateItem,
              ReactivateItem, SetItem
  <2> QED BY <1>3, <2>1, WorkBegins
<1>6. ASSUME NEW p \in Request, NEW w \in WorkOrder, CloseoutOperation(p, w)
      PROVE  WorkOrdersInv' /\ work' = work
      BY <1>6, CloseoutOperationKeeps
<1>7. ASSUME NEW p \in Request, CommitJob(p)
      PROVE  /\ WorkOrdersInv'
             /\ \A w \in WorkOrder : ApprovalKept(work[w].closeout, work'[w].closeout)
      BY <1>7, WorkCommits
<1>8. ASSUME NEW p \in Request, AbandonJob(p) PROVE WorkOrdersInv' /\ work' = work
      BY <1>8, WorkEnds DEF AbandonJob, WorkOrdersInv
<1> QED BY <1>1, <1>2, <1>4, <1>5, <1>6, <1>7, <1>8 DEF WorkOrdersNext

\* For any work orders, checklists and concurrent requests: an approved closeout stays
\* approved as it was reported, and none that is not approved is ready for invoice.
THEOREM ApprovalsStand == WorkOrdersSpec => ApprovalStands
<1>1. ASSUME WorkOrdersInv, [WorkOrdersNext]_workOrdersVars
      PROVE  [\A w \in WorkOrder :
                IF work[w].closeout.status = "approved"
                THEN /\ work'[w].closeout.status = "approved"
                     /\ work'[w].closeout.report = work[w].closeout.report
                     /\ work[w].closeout.is_invoice_ready => work'[w].closeout.is_invoice_ready
                ELSE ~work[w].closeout.is_invoice_ready]_workOrdersVars
  <2>1. \A w \in WorkOrder :
          CloseoutSound(work[w].closeout) /\ ApprovalKept(work[w].closeout, work'[w].closeout)
        BY <1>1, WorkOrdersStep DEF WorkOrdersInv
  <2> QED BY <2>1 DEF CloseoutSound, ApprovalKept
<1>2. WorkOrdersInv /\ [WorkOrdersNext]_workOrdersVars => WorkOrdersInv' BY WorkOrdersStep
<1> QED BY <1>1, <1>2, WorkOrdersInitially, PTL DEF WorkOrdersSpec, ApprovalStands

-----------------------------------------------------------------------------
(* Completion.                                                             *)

\* A work order that was not made has no checklist; a completed one has completed what is
\* required of it, and only a completed one has a closeout.
CompletionSound(w) ==
    /\ work[w].order \in WorkRows
    /\ \A i \in ChecklistItem : work[w][i] \in ItemRows
    /\ work[w].order.status = "none" =>
         ~work[w].order.is_active /\ \A i \in ChecklistItem : ~work[w][i].is_active
    /\ work[w].order.status = "completed" => RequiredChecklistComplete(w)
    /\ work[w].closeout.status # "none" => work[w].order.status = "completed"

\* What an operation is to make of the status of a work order it loaded as `from'.
StatusKept(w, from, to) ==
    /\ to.status # "none"
    /\ \/ to.status = from.status
       \/ from.status # "completed" /\ (to.status = "completed" => RequiredChecklistComplete(w))

\* What an operation is to write, of rows that are as it found them.
OperationFormed(p) ==
    LET w == job[p].work
        x == job[p].place
    IN /\ x = "order" => \E to \in WorkRows : /\ job[p].columns = Changed(work[w].order, to)
                                              /\ StatusKept(w, work[w].order, to)
       /\ x = "closeout" => work[w].order.status = "completed"
       /\ x \in ChecklistItem => /\ work[w].order.status \notin {"none", "completed"}
                                 /\ \E to \in ItemRows : job[p].columns = Changed(work[w][x], to)

\* Unless operations crossed on it, who is to write an order or an item is alone on it.
CompletionInv ==
    /\ WorkOrdersInv
    /\ \A w \in WorkOrder \ crossed :
         /\ CompletionSound(w)
         /\ \A p \in Request : job[p].work = w =>
              /\ OperationFormed(p)
              /\ Decisive(job[p].place) => \A q \in Request \ {p} : job[q].work # w

LEMMA RowsWritten ==
    /\ \A from, to \in WorkRows : Overwritten(from, Changed(from, to)) = to
    /\ \A from, to \in ItemRows : Overwritten(from, Changed(from, to)) = to
<1>1. QED BY DEF WorkRows, ItemRows, Overwritten, Changed

LEMMA PlacesApart ==
    /\ "order" \in Place /\ "closeout" \in Place /\ ChecklistItem \subseteq Place
    /\ \A i \in ChecklistItem : i # "order" /\ i # "closeout"
<1>1. QED BY WorkOrdersAssumption DEF Place

LEMMA CompletionAtFirst == WorkOrdersInit => CompletionInv
<1> SUFFICES ASSUME WorkOrdersInit PROVE CompletionInv OBVIOUS
<1>1. ASSUME NEW w \in WorkOrder
      PROVE  CompletionSound(w)
  <2>1. /\ work[w].order = NoRow("order") /\ work[w].closeout = NoRow("closeout")
        /\ \A i \in ChecklistItem : work[w][i] = NoRow(i)
        BY PlacesApart DEF WorkOrdersInit
  <2>2. work[w].order = [status |-> "none", is_active |-> FALSE, is_scheduled |-> FALSE]
        BY <2>1 DEF NoRow
  <2>3. \A i \in ChecklistItem :
          work[w][i] = [status |-> "none", is_required |-> FALSE, is_active |-> FALSE]
        BY <2>1, PlacesApart DEF NoRow
  <2>4. work[w].closeout.status = "none" BY <2>1, NoCloseout
  <2>5. /\ work[w].order \in WorkRows /\ work[w].order.status = "none"
        /\ ~work[w].order.is_active
        BY <2>2 DEF WorkRows
  <2>6. \A i \in ChecklistItem : work[w][i] \in ItemRows /\ ~work[w][i].is_active
    <3> DEFINE none == [status |-> "none", is_required |-> FALSE, is_active |-> FALSE]
    <3>1. none \in ItemRows /\ ~none.is_active BY DEF ItemRows
    <3> HIDE DEF none
    <3> QED BY <2>3, <3>1 DEF none
  <2> QED BY <2>4, <2>5, <2>6 DEF CompletionSound
<1>2. \A p \in Request : job[p].work = None BY DEF WorkOrdersInit, NoJob
<1> QED BY <1>1, <1>2, WorkOrdersInitially, WorkOrdersAssumption DEF CompletionInv

\* An operation begins: whoever else is at work on the order crosses it, or is, like it,
\* at work on the closeout.
LEMMA OperationBegins ==
    ASSUME CompletionInv, WorkOrdersInv', NEW p \in Request, NEW w \in WorkOrder,
           NEW x \in Place, NEW to, Begin(p, w, x, to),
           w \notin crossed =>
             /\ x = "order" => to \in WorkRows /\ StatusKept(w, work[w].order, to)
             /\ x = "closeout" => work[w].order.status = "completed"
             /\ x \in ChecklistItem =>
                  to \in ItemRows /\ work[w].order.status \notin {"none", "completed"}
    PROVE  CompletionInv'
<1>1. /\ UNCHANGED work /\ job[p] = NoJob
      /\ job'[p].work = w /\ job'[p].place = x /\ job'[p].columns = Changed(work[w][x], to)
      /\ \A q \in Request \ {p} : job'[q] = job[q]
      BY DEF CompletionInv, WorkOrdersInv, Begin
<1>2. /\ crossed \subseteq crossed'
      /\ w \notin crossed' => \A q \in Request \ {p} :
           job[q].work = w => ~Decisive(x) /\ ~Decisive(job[q].place)
      BY DEF Begin
<1>3. ASSUME NEW v \in WorkOrder \ crossed'
      PROVE  CompletionSound(v)'
      BY <1>1, <1>2 DEF CompletionInv, CompletionSound, RequiredChecklistComplete
<1>4. ASSUME NEW v \in WorkOrder \ crossed', NEW q \in Request, job'[q].work = v
      PROVE  /\ OperationFormed(q)'
             /\ Decisive(job'[q].place) => \A r \in Request \ {q} : job'[r].work # v
  <2>1. CASE q = p
    <3>1. v = w /\ w \notin crossed BY <1>1, <1>2, <1>4, <2>1
    <3>2. OperationFormed(p)'
          BY <1>1, <3>1, PlacesApart DEF OperationFormed, StatusKept, RequiredChecklistComplete
    <3> QED BY <1>1, <1>2, <1>4, <2>1, <3>1, <3>2
  <2>2. CASE q # p
    <3>1. /\ v \in WorkOrder \ crossed /\ job'[q] = job[q] /\ job[q].work = v
          BY <1>1, <1>2, <1>4, <2>2
    <3>2. /\ OperationFormed(q)
          /\ Decisive(job[q].place) => \A r \in Request \ {q} : job[r].work # v
          BY <3>1 DEF CompletionInv
    <3>3. OperationFormed(q)'
          BY <1>1, <3>1, <3>2 DEF OperationFormed, StatusKept, RequiredChecklistComplete
    <3>4. Decisive(job[q].place) => v # w BY <1>2, <1>4, <2>2, <3>1
    <3> QED BY <1>1, <3>1, <3>2, <3>3, <3>4
  <2> QED BY <2>1, <2>2
<1> QED BY <1>3, <1>4 DEF CompletionInv

\* What is to become of an order, of an item, of a closeout.
LEMMA OrderFormed ==
    ASSUME CompletionInv, NEW p \in Request, NEW w \in WorkOrder \ crossed,
           WorkOrderOperation(p, w)
    PROVE  \E to \in WorkRows : Begin(p, w, "order", to) /\ StatusKept(w, work[w].order, to)
<1> DEFINE was == work[w].order
<1>1. /\ was \in WorkRows /\ CompletionSound(w)
      /\ was = [status |-> was.status, is_active |-> was.is_active, is_scheduled |-> was.is_scheduled]
      BY DEF CompletionInv, CompletionSound, WorkRows
<1>2. was.is_active => was.status # "none" BY <1>1 DEF CompletionSound
<1>3. ASSUME NEW s \in WorkStatuses, NEW scheduled \in BOOLEAN, CreateWorkOrder(p, w, s, scheduled)
      PROVE  \E to \in WorkRows : Begin(p, w, "order", to) /\ StatusKept(w, was, to)
  <2> DEFINE to == [status |-> s, is_active |-> TRUE, is_scheduled |-> scheduled]
  <2>1. was.status = "none" /\ Begin(p, w, "order", to)
        BY <1>3 DEF CreateWorkOrder, SetWorkOrder, Operate
  <2>2. RequiredChecklistComplete(w)
        BY <1>1, <2>1 DEF CompletionSound, RequiredChecklistComplete
  <2>3. to \in WorkRows /\ to.status # "none" BY DEF WorkRows, WorkStatuses
  <2> QED BY <2>1, <2>2, <2>3 DEF StatusKept
<1>4. ASSUME NEW s \in WorkStatuses, ChangeStatus(p, w, s)
      PROVE  \E to \in WorkRows : Begin(p, w, "order", to) /\ StatusKept(w, was, to)
  <2> DEFINE to == [was EXCEPT !.status = s]
  <2>1. Begin(p, w, "order", to) BY <1>4 DEF ChangeStatus, SetWorkOrder, Operate
  <2>2. to \in WorkRows /\ to.status = s /\ s # "none" BY <1>1 DEF WorkRows, WorkStatuses
  <2>3. was.status # "completed" /\ (s = "completed" => RequiredChecklistComplete(w))
        BY <1>4 DEF ChangeStatus, Open, Terminal
  <2> HIDE DEF to
  <2> QED BY <2>1, <2>2, <2>3 DEF StatusKept
<1>5. ASSUME NEW set \in BOOLEAN, UpdateWorkOrder(p, w, set) \/ ScheduleWorkOrder(p, w, set)
      PROVE  \E to \in WorkRows : Begin(p, w, "order", to) /\ StatusKept(w, was, to)
  <2>1. was.status \notin {"none", "completed"} BY <1>2, <1>5 DEF UpdateWorkOrder, ScheduleWorkOrder, Open, Terminal
  <2>2. PICK s \in {was.status, "scheduled"}, scheduled \in BOOLEAN :
          Begin(p, w, "order", [was EXCEPT !.is_scheduled = scheduled, !.status = s])
    <3>1. CASE UpdateWorkOrder(p, w, set)
      <4>1. [was EXCEPT !.is_scheduled = set] = [was EXCEPT !.is_scheduled = set, !.status = was.status]
            BY <1>1
      <4> QED BY <3>1, <4>1 DEF UpdateWorkOrder, SetWorkOrder, Operate
    <3>2. CASE ScheduleWorkOrder(p, w, set)
          BY <3>2 DEF ScheduleWorkOrder, SetWorkOrder, Operate
    <3> QED BY <1>5, <3>1, <3>2
  <2> DEFINE to == [was EXCEPT !.is_scheduled = scheduled, !.status = s]
  <2>3. to \in WorkRows /\ to.status = s BY <1>1 DEF WorkRows, WorkStatuses
  <2> HIDE DEF to
  <2> QED BY <2>1, <2>2, <2>3 DEF to, StatusKept
<1>6. CASE DispatchWorkOrder(p, w)
  <2> DEFINE to == [was EXCEPT !.status = "dispatched"]
  <2>1. Begin(p, w, "order", to) /\ was.status = "scheduled"
        BY <1>6 DEF DispatchWorkOrder, SetWorkOrder, Operate
  <2>2. to \in WorkRows /\ to.status = "dispatched" BY <1>1 DEF WorkRows, WorkStatuses
  <2> HIDE DEF to
  <2> QED BY <2>1, <2>2 DEF StatusKept
<1>7. CASE DeactivateWorkOrder(p, w) \/ ReactivateWorkOrder(p, w)
  <2>1. was.status # "none" BY <1>2, <1>7 DEF DeactivateWorkOrder, ReactivateWorkOrder
  <2>2. PICK b \in BOOLEAN : Begin(p, w, "order", [was EXCEPT !.is_active = b])
        BY <1>7 DEF DeactivateWorkOrder, ReactivateWorkOrder, SetWorkOrder, Operate
  <2> DEFINE to == [was EXCEPT !.is_active = b]
  <2>3. to \in WorkRows /\ to.status = was.status BY <1>1 DEF WorkRows
  <2> HIDE DEF to
  <2> QED BY <2>1, <2>2, <2>3 DEF to, StatusKept
<1> QED BY <1>3, <1>4, <1>5, <1>6, <1>7 DEF WorkOrderOperation

LEMMA ItemFormed ==
    ASSUME CompletionInv, NEW p \in Request, NEW w \in WorkOrder \ crossed,
           NEW i \in ChecklistItem, ChecklistOperation(p, w, i)
    PROVE  /\ work[w].order.status \notin {"none", "completed"}
           /\ \E to \in ItemRows : Begin(p, w, i, to)
<1> DEFINE was == work[w][i]
<1>1. CompletionSound(w) /\ was \in ItemRows BY DEF CompletionInv, CompletionSound
<1>2. Open(w)
      BY DEF ChecklistOperation, CreateItem, UpdateItem, ChangeItemStatus, DeactivateItem,
            ReactivateItem, SetItem
<1>3. work[w].order.status \notin {"none", "completed"}
      BY <1>1, <1>2 DEF CompletionSound, Open, Terminal
<1>4. \A s \in {"pending", "completed", "skipped"} : \A b \in BOOLEAN :
        /\ [status |-> "pending", is_required |-> b, is_active |-> TRUE] \in ItemRows
        /\ [was EXCEPT !.is_required = b] \in ItemRows
        /\ [was EXCEPT !.status = s] \in ItemRows
        /\ [was EXCEPT !.is_active = b] \in ItemRows
      BY <1>1 DEF ItemRows
<1> QED BY <1>3, <1>4 DEF ChecklistOperation, CreateItem, UpdateItem, ChangeItemStatus,
      DeactivateItem, ReactivateItem, SetItem, Operate

LEMMA CloseoutOfCompleted ==
    ASSUME CompletionInv, NEW p \in Request, NEW w \in WorkOrder, CloseoutOperation(p, w)
    PROVE  /\ w \notin crossed => work[w].order.status = "completed"
           /\ \E to : Begin(p, w, "closeout", to)
<1>1. \/ work[w].order.status = "completed" \/ work[w].closeout.status # "none"
      BY DEF CloseoutOperation, SubmitCloseout, UpdateCloseout, ApproveCloseout, RejectCloseout,
            MarkInvoiceReady, Closeout
<1>2. \E to : Begin(p, w, "closeout", to)
      BY DEF CloseoutOperation, SubmitCloseout, UpdateCloseout, ApproveCloseout, RejectCloseout,
            MarkInvoiceReady, LockCloseout
<1> QED BY <1>1, <1>2 DEF CompletionInv, CompletionSound

\* An operation ends that leaves a sound work order, and the rows that others found.
LEMMA OperationEnds ==
    ASSUME CompletionInv, WorkOrdersInv', NEW p \in Request, EndJob(p), NEW w,
           w = job[p].work,
           \A v \in WorkOrder \ {w} : work'[v] = work[v],
           w \in WorkOrder \ crossed => CompletionSound(w)',
           \/ Decisive(job[p].place) \/ UNCHANGED work
           \/ \A y \in Place \ {"closeout"} : work'[w][y] = work[w][y]
    PROVE  CompletionInv'
<1>1. /\ job'[p] = NoJob /\ \A q \in Request \ {p} : job'[q] = job[q]
      /\ UNCHANGED crossed
      BY DEF CompletionInv, WorkOrdersInv, EndJob
<1>2. ASSUME NEW v \in WorkOrder \ crossed
      PROVE  CompletionSound(v)'
  <2>1. CASE v # w
        BY <1>2, <2>1 DEF CompletionInv, CompletionSound, RequiredChecklistComplete
  <2> QED BY <1>2, <2>1
<1>3. ASSUME NEW v \in WorkOrder \ crossed, NEW q \in Request, job'[q].work = v
      PROVE  /\ OperationFormed(q)'
             /\ Decisive(job'[q].place) => \A r \in Request \ {q} : job'[r].work # v
  <2>1. q # p /\ job'[q] = job[q] /\ job[q].work = v
        BY <1>1, <1>3, WorkOrdersAssumption DEF NoJob
  <2>2. /\ OperationFormed(q)
        /\ Decisive(job[q].place) => \A r \in Request \ {q} : job[r].work # v
        BY <2>1 DEF CompletionInv
  <2>3. Decisive(job[q].place) => v # w BY <2>1, <2>2
  <2>4. OperationFormed(q)'
    <3>1. CASE v # w \/ UNCHANGED work
          BY <2>1, <2>2, <3>1 DEF OperationFormed, StatusKept, RequiredChecklistComplete
    <3>2. CASE v = w /\ ~UNCHANGED work
      <4>1. job[q].place \notin {"order"} \cup ChecklistItem BY <2>3, <3>2 DEF Decisive
      <4>2. ~Decisive(job[p].place) BY <1>3, <2>1, <3>2 DEF CompletionInv
      <4>3. work'[w].order = work[w].order BY <1>3, <3>2, <4>2, PlacesApart
      <4> QED BY <2>1, <2>2, <3>2, <4>1, <4>3 DEF OperationFormed
    <3> QED BY <3>1, <3>2
  <2>5. ASSUME Decisive(job[q].place), NEW r \in Request \ {q} PROVE job'[r].work # v
        BY <1>1, <1>3, <2>2, <2>5, WorkOrdersAssumption DEF NoJob
  <2> QED BY <2>1, <2>4, <2>5
<1> QED BY <1>1, <1>2, <1>3 DEF CompletionInv

LEMMA OperationCommits ==
    ASSUME CompletionInv, NEW p \in Request, CommitJob(p)
    PROVE  CompletionInv'
<1>1. WorkOrdersInv' BY WorkCommits DEF CompletionInv
<1> PICK w, x : w = job[p].work /\ x = job[p].place OBVIOUS
<1>2. /\ w \in WorkOrder /\ x \in Place /\ DOMAIN work = WorkOrder
      /\ \A v \in WorkOrder : DOMAIN work[v] = Place
      BY DEF CommitJob, CompletionInv, WorkOrdersInv, CloseoutFormed
<1>3. /\ EndJob(p)
      /\ \A v \in WorkOrder \ {w} : work'[v] = work[v]
      /\ work'[w][x] = Overwritten(work[w][x], job[p].columns)
      /\ \A y \in Place \ {x} : work'[w][y] = work[w][y]
      BY <1>2 DEF CommitJob
<1>4. ASSUME w \notin crossed
      PROVE  CompletionSound(w)'
  <2>1. CompletionSound(w) /\ OperationFormed(p)
        BY <1>2, <1>4 DEF CompletionInv
  <2>2. CASE x = "order"
    <3>1. PICK to \in WorkRows : /\ job[p].columns = Changed(work[w].order, to)
                                 /\ StatusKept(w, work[w].order, to)
          BY <2>1, <2>2 DEF OperationFormed
    <3>2. work'[w].order = to
          BY <1>3, <2>1, <2>2, <3>1, RowsWritten DEF CompletionSound
    <3>3. /\ work'[w].closeout = work[w].closeout
          /\ \A i \in ChecklistItem : work'[w][i] = work[w][i]
          BY <1>3, <2>2, PlacesApart
    <3> QED BY <2>1, <3>1, <3>2, <3>3 DEF CompletionSound, StatusKept, RequiredChecklistComplete
  <2>3. CASE x = "closeout"
    <3>1. work[w].order.status = "completed" BY <2>1, <2>3 DEF OperationFormed
    <3>2. /\ work'[w].order = work[w].order
          /\ \A i \in ChecklistItem : work'[w][i] = work[w][i]
          BY <1>3, <2>3, PlacesApart
    <3> QED BY <2>1, <3>1, <3>2 DEF CompletionSound, RequiredChecklistComplete
  <2>4. CASE x \in ChecklistItem
    <3>1. PICK to \in ItemRows : job[p].columns = Changed(work[w][x], to)
          BY <2>1, <2>4 DEF OperationFormed
    <3>2. work'[w][x] \in ItemRows
          BY <1>3, <2>1, <2>4, <3>1, RowsWritten DEF CompletionSound
    <3>3. /\ work'[w].order = work[w].order /\ work'[w].closeout = work[w].closeout
          /\ \A i \in ChecklistItem \ {x} : work'[w][i] = work[w][i]
          BY <1>3, <2>4, PlacesApart
    <3>4. work[w].order.status \notin {"none", "completed"} BY <2>1, <2>4 DEF OperationFormed
    <3> QED BY <2>1, <3>2, <3>3, <3>4 DEF CompletionSound
  <2> QED BY <1>2, <2>2, <2>3, <2>4 DEF Place
<1>5. Decisive(x) \/ x = "closeout" BY <1>2 DEF Decisive, Place
<1>6. \/ Decisive(x)
      \/ \A y \in Place \ {"closeout"} : work'[w][y] = work[w][y]
      BY <1>3, <1>5
<1> QED BY <1>1, <1>2, <1>3, <1>4, <1>6, OperationEnds

LEMMA CompletionSteps ==
    ASSUME CompletionInv, [WorkOrdersNext]_workOrdersVars
    PROVE  CompletionInv'
<1>1. WorkOrdersInv' BY WorkOrdersStep DEF CompletionInv
<1>2. CASE UNCHANGED workOrdersVars
      BY <1>1, <1>2 DEF workOrdersVars, CompletionInv, CompletionSound, OperationFormed, StatusKept,
            RequiredChecklistComplete
<1>3. ASSUME NEW p \in Request, NEW w \in WorkOrder, WorkOrderOperation(p, w)
      PROVE  CompletionInv'
  <2>1. \E to : Begin(p, w, "order", to)
        BY <1>3 DEF WorkOrderOperation, CreateWorkOrder, UpdateWorkOrder, ChangeStatus,
              ScheduleWorkOrder, DispatchWorkOrder, DeactivateWorkOrder, ReactivateWorkOrder,
              SetWorkOrder, Operate
  <2>2. CASE w \in crossed BY <1>1, <2>1, <2>2, OperationBegins, PlacesApart
  <2>3. CASE w \notin crossed
        BY <1>1, <1>3, <2>3, OrderFormed, OperationBegins, PlacesApart
  <2> QED BY <2>2, <2>3
<1>4. ASSUME NEW p \in Request, NEW w \in WorkOrder, NEW i \in ChecklistItem,
             ChecklistOperation(p, w, i)
      PROVE  CompletionInv'
  <2>1. \E to : Begin(p, w, i, to)
        BY <1>4 DEF ChecklistOperation, CreateItem, UpdateItem, ChangeItemStatus, DeactivateItem,
              ReactivateItem, SetItem, Operate
  <2>2. CASE w \in crossed BY <1>1, <2>1, <2>2, OperationBegins, PlacesApart
  <2>3. CASE w \notin crossed
        BY <1>1, <1>4, <2>3, ItemFormed, OperationBegins, PlacesApart
  <2> QED BY <2>2, <2>3
<1>5. ASSUME NEW p \in Request, NEW w \in WorkOrder, CloseoutOperation(p, w)
      PROVE  CompletionInv'
      BY <1>1, <1>5, CloseoutOfCompleted, OperationBegins, PlacesApart
<1>6. ASSUME NEW p \in Request, CommitJob(p) PROVE CompletionInv'
      BY <1>6, OperationCommits
<1>7. ASSUME NEW p \in Request, AbandonJob(p) PROVE CompletionInv'
  <2>1. UNCHANGED work /\ EndJob(p) BY <1>7 DEF AbandonJob
  <2> PICK w : w = job[p].work OBVIOUS
  <2>2. w \in WorkOrder \ crossed => CompletionSound(w)'
        BY <2>1 DEF CompletionInv, CompletionSound, RequiredChecklistComplete
  <2> QED BY <1>1, <2>1, <2>2, OperationEnds
<1> QED BY <1>2, <1>3, <1>4, <1>5, <1>6, <1>7 DEF WorkOrdersNext

\* For any work orders, checklists and concurrent requests: a work order on which no
\* operations crossed is completed only with what its checklist requires, and has a
\* closeout only once it is completed.
THEOREM CompletionsHold == WorkOrdersSpec => []CompletionHolds
<1>1. CompletionInv => CompletionHolds
      BY DEF CompletionInv, CompletionSound, RequiredChecklistComplete, CompletionHolds
<1>2. CompletionInv /\ [WorkOrdersNext]_workOrdersVars => CompletionInv' BY CompletionSteps
<1> QED BY <1>1, <1>2, CompletionAtFirst, PTL DEF WorkOrdersSpec

\* What an operation is to write turns a row of its place into another.
JobTyped(p) ==
    /\ job[p].work \in WorkOrder /\ job[p].place \in Place /\ job[p].creates \in BOOLEAN
    /\ \E from, to \in Rows(job[p].place) : job[p].columns = Changed(from, to)

\* The rows of every work order are rows of their places.
WorkTyped ==
    /\ \A w \in WorkOrder : DOMAIN work[w] = Place /\ \A x \in Place : work[w][x] \in Rows(x)
    /\ DOMAIN work = WorkOrder
    /\ closeoutLock \in [WorkOrder -> Request \cup {None}]
    /\ DOMAIN job = Request /\ \A p \in Request : job[p] = NoJob \/ JobTyped(p)
    /\ crossed \subseteq WorkOrder

LEMMA RowsOfPlaces ==
    /\ Rows("order") = WorkRows /\ Rows("closeout") = CloseoutRows
    /\ \A i \in ChecklistItem : Rows(i) = ItemRows
<1>1. Rows("order") = WorkRows BY DEF Rows
<1>2. Rows("closeout") = CloseoutRows BY DEF Rows
<1>3. \A i \in ChecklistItem : Rows(i) = ItemRows BY PlacesApart DEF Rows
<1> QED BY <1>1, <1>2, <1>3

\* A row over which such columns are written is a row of its place.
LEMMA RowMixed ==
    ASSUME NEW x \in Place, NEW from \in Rows(x), NEW to \in Rows(x), NEW now \in Rows(x)
    PROVE  Overwritten(now, Changed(from, to)) \in Rows(x)
<1> DEFINE row == Overwritten(now, Changed(from, to))
<1>1. ASSUME DOMAIN now = DOMAIN to
      PROVE  row = [c \in DOMAIN now |-> IF to[c] # from[c] THEN to[c] ELSE now[c]]
      BY <1>1 DEF Changed, Overwritten
<1>2. CASE x = "order"
  <2>1. now \in WorkRows /\ from \in WorkRows /\ to \in WorkRows BY <1>2, RowsOfPlaces
  <2>2. DOMAIN now = {"status", "is_active", "is_scheduled"} /\ DOMAIN now = DOMAIN to
        BY <2>1 DEF WorkRows
  <2>3. row = [c \in {"status", "is_active", "is_scheduled"} |-> IF to[c] # from[c] THEN to[c] ELSE now[c]]
        BY <1>1, <2>2
  <2>4. row = [status |-> row.status, is_active |-> row.is_active, is_scheduled |-> row.is_scheduled]
        BY <2>3
  <2>5. /\ row.status \in {now.status, to.status} /\ row.is_active \in {now.is_active, to.is_active}
        /\ row.is_scheduled \in {now.is_scheduled, to.is_scheduled}
        BY <2>3
  <2> HIDE DEF row
  <2>6. row \in WorkRows BY <2>1, <2>4, <2>5 DEF WorkRows
  <2> QED BY <1>2, <2>6, RowsOfPlaces DEF row
<1>3. CASE x = "closeout"
  <2>1. now \in CloseoutRows /\ from \in CloseoutRows /\ to \in CloseoutRows
        BY <1>3, RowsOfPlaces
  <2>2. DOMAIN now = {"status", "is_invoice_ready", "report"} /\ DOMAIN now = DOMAIN to
        BY <2>1 DEF CloseoutRows
  <2>3. row = [c \in {"status", "is_invoice_ready", "report"} |-> IF to[c] # from[c] THEN to[c] ELSE now[c]]
        BY <1>1, <2>2
  <2>4. row = [status |-> row.status, is_invoice_ready |-> row.is_invoice_ready, report |-> row.report]
        BY <2>3
  <2>5. /\ row.status \in {now.status, to.status} /\ row.report \in {now.report, to.report}
        /\ row.is_invoice_ready \in {now.is_invoice_ready, to.is_invoice_ready}
        BY <2>3
  <2> HIDE DEF row
  <2>6. row \in CloseoutRows BY <2>1, <2>4, <2>5 DEF CloseoutRows
  <2> QED BY <1>3, <2>6, RowsOfPlaces DEF row
<1>4. CASE x \in ChecklistItem
  <2>1. now \in ItemRows /\ from \in ItemRows /\ to \in ItemRows BY <1>4, RowsOfPlaces
  <2>2. DOMAIN now = {"status", "is_required", "is_active"} /\ DOMAIN now = DOMAIN to
        BY <2>1 DEF ItemRows
  <2>3. row = [c \in {"status", "is_required", "is_active"} |-> IF to[c] # from[c] THEN to[c] ELSE now[c]]
        BY <1>1, <2>2
  <2>4. row = [status |-> row.status, is_required |-> row.is_required, is_active |-> row.is_active]
        BY <2>3
  <2>5. /\ row.status \in {now.status, to.status} /\ row.is_active \in {now.is_active, to.is_active}
        /\ row.is_required \in {now.is_required, to.is_required}
        BY <2>3
  <2> HIDE DEF row
  <2>6. row \in ItemRows BY <2>1, <2>4, <2>5 DEF ItemRows
  <2> QED BY <1>4, <2>6, RowsOfPlaces DEF row
<1> QED BY <1>2, <1>3, <1>4 DEF Place

LEMMA NoRowTyped == \A x \in Place : NoRow(x) \in Rows(x)
<1>1. NoRow("order") \in Rows("order")
      BY RowsOfPlaces DEF NoRow, WorkRows
<1>2. NoRow("closeout") \in Rows("closeout") BY NoCloseout, RowsOfPlaces
<1>3. ASSUME NEW i \in ChecklistItem PROVE NoRow(i) \in Rows(i)
  <2>1. NoRow(i) = [status |-> "none", is_required |-> FALSE, is_active |-> FALSE]
        BY PlacesApart DEF NoRow
  <2>2. [status |-> "none", is_required |-> FALSE, is_active |-> FALSE] \in ItemRows BY DEF ItemRows
  <2> QED BY <2>1, <2>2, RowsOfPlaces
<1> QED BY <1>1, <1>2, <1>3 DEF Place

LEMMA WorkTypedInitially == WorkOrdersInit => WorkTyped
<1> SUFFICES ASSUME WorkOrdersInit PROVE WorkTyped OBVIOUS
<1>1. \A w \in WorkOrder : DOMAIN work[w] = Place /\ \A x \in Place : work[w][x] = NoRow(x)
      BY DEF WorkOrdersInit
<1>2. \A w \in WorkOrder : \A x \in Place : work[w][x] \in Rows(x) BY <1>1, NoRowTyped
<1> QED BY <1>1, <1>2 DEF WorkOrdersInit, WorkTyped

\* An operation begins that is to make a row of its type.
LEMMA TypedWorkBegins ==
    ASSUME WorkTyped, NEW p \in Request, NEW w \in WorkOrder, NEW x \in Place, NEW to \in Rows(x),
           Begin(p, w, x, to), closeoutLock' \in [WorkOrder -> Request \cup {None}]
    PROVE  WorkTyped'
<1>1. /\ work' = work /\ DOMAIN job' = Request
      /\ job'[p] = [work |-> w, place |-> x, creates |-> work[w][x].status = "none",
                    columns |-> Changed(work[w][x], to)]
      /\ \A q \in Request \ {p} : job'[q] = job[q]
      BY DEF Begin, WorkTyped
<1>2. /\ job'[p].work = w /\ job'[p].place = x /\ job'[p].creates \in BOOLEAN
      /\ job'[p].columns = Changed(work[w][x], to)
      BY <1>1
<1>3. JobTyped(p)' BY <1>1, <1>2 DEF JobTyped, WorkTyped
<1>4. ASSUME NEW q \in Request \ {p}, job[q] # NoJob PROVE JobTyped(q)'
  <2>1. JobTyped(q) /\ job'[q] = job[q] BY <1>1, <1>4 DEF WorkTyped
  <2> QED BY <2>1 DEF JobTyped
<1>5. crossed' \subseteq WorkOrder BY DEF Begin, WorkTyped
<1> QED BY <1>1, <1>3, <1>4, <1>5 DEF WorkTyped

LEMMA TypedOperationBegins ==
    ASSUME WorkTyped, NEW p \in Request, NEW w \in WorkOrder,
           \/ WorkOrderOperation(p, w) \/ CloseoutOperation(p, w)
           \/ \E i \in ChecklistItem : ChecklistOperation(p, w, i)
    PROVE  WorkTyped'
<1> DEFINE order == work[w].order
           closeout == work[w].closeout
<1>1. order \in WorkRows /\ closeout \in CloseoutRows /\ \A i \in ChecklistItem : work[w][i] \in ItemRows
      BY RowsOfPlaces, PlacesApart DEF WorkTyped
<1>2. CASE WorkOrderOperation(p, w)
  <2>1. SUFFICES \E to \in WorkRows : Operate(p, w, "order", to)
        BY TypedWorkBegins, RowsOfPlaces, PlacesApart DEF Operate, WorkTyped
  <2>2. ASSUME NEW s \in WorkStatuses, NEW b \in BOOLEAN
        PROVE  /\ [status |-> s, is_active |-> TRUE, is_scheduled |-> b] \in WorkRows
               /\ [order EXCEPT !.is_scheduled = b] \in WorkRows
               /\ [order EXCEPT !.status = s] \in WorkRows
               /\ [order EXCEPT !.is_active = b] \in WorkRows
        BY <1>1 DEF WorkRows
  <2>3. ASSUME NEW s \in WorkStatuses, NEW b \in BOOLEAN, CreateWorkOrder(p, w, s, b)
        PROVE  \E to \in WorkRows : Operate(p, w, "order", to)
        BY <2>2, <2>3 DEF CreateWorkOrder, SetWorkOrder
  <2>4. ASSUME NEW b \in BOOLEAN, ScheduleWorkOrder(p, w, b)
        PROVE  \E to \in WorkRows : Operate(p, w, "order", to)
    <3>1. \A s : (s \in WorkStatuses \cup {"none"}) => [order EXCEPT !.is_scheduled = TRUE, !.status = s] \in WorkRows
          BY <1>1 DEF WorkRows
    <3> DEFINE s == IF b /\ order.status \in {"draft", "on_hold"} THEN "scheduled" ELSE order.status
    <3>2. s \in WorkStatuses \cup {"none"} BY <1>1 DEF WorkRows, WorkStatuses
    <3>3. Operate(p, w, "order", [order EXCEPT !.is_scheduled = TRUE, !.status = s])
          BY <2>4 DEF ScheduleWorkOrder, SetWorkOrder
    <3> HIDE DEF s, order
    <3> QED BY <3>1, <3>2, <3>3
  <2>5. "dispatched" \in WorkStatuses BY DEF WorkStatuses
  <2> QED BY <1>2, <2>2, <2>3, <2>4, <2>5
          DEF WorkOrderOperation, UpdateWorkOrder, ChangeStatus, DispatchWorkOrder,
              DeactivateWorkOrder, ReactivateWorkOrder, SetWorkOrder
<1>3. CASE CloseoutOperation(p, w)
  <2>1. ASSUME NEW to \in CloseoutRows, LockCloseout(p, w, to) PROVE WorkTyped'
    <3>1. closeoutLock' \in [WorkOrder -> Request \cup {None}]
          BY <2>1 DEF LockCloseout, WorkTyped
    <3> QED BY <2>1, <3>1, TypedWorkBegins, RowsOfPlaces, PlacesApart DEF LockCloseout
  <2>2. ASSUME NEW s \in {"submitted", "rejected", "approved"}, NEW r \in Reports, NEW b \in BOOLEAN
        PROVE  /\ [closeout EXCEPT !.status = s, !.report = r] \in CloseoutRows
               /\ [closeout EXCEPT !.report = r] \in CloseoutRows
               /\ [closeout EXCEPT !.status = s, !.is_invoice_ready = b] \in CloseoutRows
               /\ [closeout EXCEPT !.is_invoice_ready = b] \in CloseoutRows
        BY <1>1 DEF CloseoutRows
  <2>3. ASSUME NEW ready \in BOOLEAN, ApproveCloseout(p, w, ready) PROVE WorkTyped'
    <3>1. (ready \/ closeout.is_invoice_ready) \in BOOLEAN OBVIOUS
    <3>2. LockCloseout(p, w, [closeout EXCEPT !.status = "approved",
                                              !.is_invoice_ready = ready \/ closeout.is_invoice_ready])
          BY <2>3 DEF ApproveCloseout, Closeout
    <3>3. "first" \in Reports BY DEF Reports
    <3> HIDE DEF closeout
    <3> QED BY <2>1, <2>2, <3>1, <3>2, <3>3
  <2>4. ASSUME NEW report \in Reports, SubmitCloseout(p, w, report) \/ UpdateCloseout(p, w, report)
        PROVE  WorkTyped'
        BY <2>1, <2>2, <2>4 DEF SubmitCloseout, UpdateCloseout, Closeout
  <2>5. CASE RejectCloseout(p, w) \/ MarkInvoiceReady(p, w)
    <3>1. "first" \in Reports BY DEF Reports
    <3> QED BY <2>1, <2>2, <2>5, <3>1 DEF RejectCloseout, MarkInvoiceReady, Closeout
  <2> QED BY <1>3, <2>3, <2>4, <2>5 DEF CloseoutOperation
<1>4. ASSUME NEW i \in ChecklistItem, ChecklistOperation(p, w, i) PROVE WorkTyped'
  <2>1. SUFFICES \E to \in ItemRows : Operate(p, w, i, to)
        BY TypedWorkBegins, RowsOfPlaces, PlacesApart DEF Operate, WorkTyped
  <2>2. ASSUME NEW s \in {"pending", "completed", "skipped"}, NEW b \in BOOLEAN
        PROVE  /\ [status |-> "pending", is_required |-> b, is_active |-> TRUE] \in ItemRows
               /\ [work[w][i] EXCEPT !.is_required = b] \in ItemRows
               /\ [work[w][i] EXCEPT !.status = s] \in ItemRows
               /\ [work[w][i] EXCEPT !.is_active = b] \in ItemRows
        BY <1>1 DEF ItemRows
  <2> QED BY <1>4, <2>2 DEF ChecklistOperation, CreateItem, UpdateItem, ChangeItemStatus,
        DeactivateItem, ReactivateItem, SetItem
<1> QED BY <1>2, <1>3, <1>4

LEMMA TypedWorkStep ==
    ASSUME WorkTyped, [WorkOrdersNext]_workOrdersVars
    PROVE  WorkTyped'
<1>1. ASSUME NEW p \in Request, EndJob(p), DOMAIN work' = WorkOrder,
             \A w \in WorkOrder : DOMAIN work'[w] = Place /\ \A x \in Place : work'[w][x] \in Rows(x)
      PROVE  WorkTyped'
  <2>1. /\ DOMAIN job' = Request /\ job'[p] = NoJob /\ crossed' = crossed
        /\ \A q \in Request \ {p} : job'[q] = job[q]
        BY <1>1 DEF EndJob, WorkTyped
  <2>2. closeoutLock' \in [WorkOrder -> Request \cup {None}] BY <1>1 DEF EndJob, WorkTyped
  <2>3. ASSUME NEW q \in Request \ {p}, job[q] # NoJob PROVE JobTyped(q)'
    <3>1. JobTyped(q) /\ job'[q] = job[q] BY <2>1, <2>3 DEF WorkTyped
    <3> QED BY <3>1 DEF JobTyped
  <2> QED BY <1>1, <2>1, <2>2, <2>3 DEF WorkTyped
<1>2. ASSUME NEW p \in Request, CommitJob(p) PROVE WorkTyped'
  <2> DEFINE w == job[p].work
             x == job[p].place
             row == Overwritten(work[w][x], job[p].columns)
  <2>1. job[p] # NoJob /\ EndJob(p) /\ work' = [work EXCEPT ![w][x] = row]
        BY <1>2 DEF CommitJob
  <2>2. JobTyped(p) /\ w \in WorkOrder /\ x \in Place BY <2>1 DEF WorkTyped, JobTyped
  <2>3. PICK from \in Rows(x), to \in Rows(x) : job[p].columns = Changed(from, to)
        BY <2>2 DEF JobTyped
  <2>4. row \in Rows(x) BY <2>2, <2>3, RowMixed DEF WorkTyped
  <2> HIDE DEF w, x, row
  <2>5. /\ DOMAIN work' = WorkOrder
        /\ \A v \in WorkOrder : DOMAIN work'[v] = Place
        /\ \A v \in WorkOrder, y \in Place :
             work'[v][y] = work[v][y] \/ (y = x /\ work'[v][y] = row)
        BY <2>1, <2>2 DEF WorkTyped
  <2>6. \A v \in WorkOrder, y \in Place : work'[v][y] \in Rows(y) BY <2>4, <2>5 DEF WorkTyped
  <2> QED BY <1>1, <2>1, <2>5, <2>6
<1>3. ASSUME NEW p \in Request, AbandonJob(p) PROVE WorkTyped'
      BY <1>1, <1>3 DEF AbandonJob, WorkTyped
<1>4. CASE UNCHANGED workOrdersVars BY <1>4 DEF workOrdersVars, WorkTyped, JobTyped
<1> QED BY <1>2, <1>3, <1>4, TypedOperationBegins DEF WorkOrdersNext

\* For any work orders, checklists and requests: work orders, closeouts and items of the
\* checklist keep the types of their tables whatever is written over them
\* (work_order_service.py, work_order_closeout_service.py, work_order_checklist_service.py).
THEOREM WorkOrdersTyped == WorkOrdersSpec => []WorkOrdersTypeOK
<1>1. ASSUME WorkTyped PROVE WorkOrdersTypeOK
  <2>1. ASSUME NEW p \in Request, job[p] # NoJob
        PROVE  /\ job[p].work \in WorkOrder /\ job[p].place \in Place /\ job[p].creates \in BOOLEAN
               /\ Overwritten(NoRow(job[p].place), job[p].columns) \in Rows(job[p].place)
    <3>1. JobTyped(p) BY <1>1, <2>1 DEF WorkTyped
    <3>2. PICK from \in Rows(job[p].place), to \in Rows(job[p].place) : job[p].columns = Changed(from, to)
          BY <3>1 DEF JobTyped
    <3> QED BY <3>1, <3>2, RowMixed, NoRowTyped DEF JobTyped
  <2> QED BY <1>1, <2>1 DEF WorkTyped, WorkOrdersTypeOK
<1>2. WorkTyped /\ [WorkOrdersNext]_workOrdersVars => WorkTyped' BY TypedWorkStep
<1> QED BY <1>1, <1>2, WorkTypedInitially, PTL DEF WorkOrdersSpec

-----------------------------------------------------------------------------
(* Positions.                                                              *)

\* How many of F come before i.
RankIn(F, f, i) == Cardinality({j \in F : f[j] < f[i]})

Rank(places, i) == RankIn(Filled(places), places, i)

\* The temporary positions of a list.
Shifted(places) ==
    [i \in Item |-> IF places[i] = None THEN None ELSE TemporaryStart(places) + Rank(places, i)]

\* No two items have the same position.
Apart(places) == \A i, j \in Filled(places) : i # j => places[i] # places[j]

\* What an undisturbed request is about to write is free, and what it reordered is there.
PlacingFair(a) ==
    /\ a.step = "add" =>
         /\ a.item \in Item
         /\ list = "checklist" /\ a.alone => a.at \notin Taken(position)
         /\ list = "attachments" => a.at \notin Taken(position) \/ a.at \in doubled
    /\ a.step \in {"reorder", "temporary"} =>
         /\ list = "checklist" /\ Range(a.order) \subseteq Filled(position)
         /\ a.order \in Bijection(1 .. Cardinality(Range(a.order)), Range(a.order))
    /\ a.step = "reorder" /\ a.alone => \A i \in Item : a.seen[i] \in {None, position[i]}
    /\ a.step = "temporary" /\ a.alone => a.flushed = Shifted(position)

\* The positions are apart, what requests go on with is fair, and two that add at one
\* position are known.
PositionsInv ==
    /\ PositionsTypeOK
    /\ \A i \in Item : active[i] => position[i] # None
    /\ PositionsApart
    /\ \A p \in Request : PlacingFair(placing[p])
    /\ \A p, q \in Request :
         p # q /\ placing[p].step = "add" /\ placing[q].step = "add" /\ placing[p].at = placing[q].at =>
            placing[p].at \in doubled

\* The members of a finite set are ranked by their numbers.
LEMMA Ranked ==
    ASSUME NEW F, IsFiniteSet(F), NEW f, \A x \in F : f[x] \in Int, NEW i \in F
    PROVE  /\ RankIn(F, f, i) \in Nat /\ RankIn(F, f, i) < Cardinality(F)
           /\ \A j \in F : f[i] < f[j] => RankIn(F, f, i) < RankIn(F, f, j)
<1> DEFINE below(x) == {y \in F : f[y] < f[x]}
<1>1. \A x : below(x) \in SUBSET F
  OBVIOUS
<1>2. \A x : IsFiniteSet(below(x)) /\ Cardinality(below(x)) \in Nat
  <2> HIDE DEF below
  <2> QED
    BY <1>1, FS_Subset, FS_CardinalityType
<1>3. below(i) \in SUBSET (F \ {i})
  OBVIOUS
<1>4. Cardinality(below(i)) < Cardinality(F)
  <2>1. /\ IsFiniteSet(F \ {i}) /\ Cardinality(F \ {i}) = Cardinality(F) - 1
        /\ Cardinality(F) \in Nat
    BY FS_RemoveElement, FS_CardinalityType
  <2>2. Cardinality(below(i)) <= Cardinality(F \ {i})
    <3> HIDE DEF below
    <3> QED
      BY <1>3, <2>1, FS_Subset
  <2> HIDE DEF below
  <2> QED
    BY <1>2, <2>1, <2>2
<1>5. ASSUME NEW j \in F, f[i] < f[j] PROVE Cardinality(below(i)) < Cardinality(below(j))
  <2>1. below(i) \in SUBSET below(j) /\ i \in below(j) /\ i \notin below(i)
    BY <1>5
  <2> HIDE DEF below
  <2>2. /\ Cardinality(below(i)) <= Cardinality(below(j))
        /\ Cardinality(below(i)) # Cardinality(below(j))
    <3>1. IsFiniteSet(below(j))
      BY <1>2
    <3> QED
      BY <2>1, <3>1, FS_Subset
  <2> QED
    BY <1>2, <2>2
<1>6. \A x : RankIn(F, f, x) = Cardinality(below(x))
  BY DEF RankIn
<1> QED
  BY <1>2, <1>4, <1>5, <1>6

\* The temporary positions begin above the stored ones.
LEMMA StartsAbove ==
    ASSUME NEW places \in [Item -> Nat \cup {None}]
    PROVE  /\ IsFiniteSet(Filled(places)) /\ Cardinality(Filled(places)) \in Nat
           /\ TemporaryStart(places) \in Nat /\ Cardinality(Filled(places)) <= TemporaryStart(places)
           /\ \A i \in Filled(places) : places[i] \in Nat /\ places[i] < TemporaryStart(places)
           /\ Highest(places) + 1 \in Nat
<1> DEFINE F == Filled(places)
           T == Taken(places)
<1>1. F \in SUBSET Item /\ IsFiniteSet(Item)
  BY PositionsAssumption DEF Filled
<1>2. IsFiniteSet(F) /\ Cardinality(F) \in Nat
  BY <1>1, FS_Subset, FS_CardinalityType
<1>3. \A i \in F : places[i] \in Nat
  BY DEF Filled
<1>4. T = {places[i] : i \in F}
  BY DEF Taken
<1> HIDE DEF F, T
<1>5. IsFiniteSet(T)
  <2> DEFINE f == [i \in F |-> places[i]]
  <2>1. f \in Surjection(F, T)
    BY <1>4 DEF Surjection
  <2> HIDE DEF f
  <2> QED
    BY <1>2, <2>1, FS_Surjection
<1> DEFINE S == T \cup {-1}
<1>6. IsFiniteSet(S)
  BY <1>5, FS_AddElement
<1>7. S # {} /\ S \subseteq Int
  BY <1>3, <1>4
<1>8. Max(S) \in S /\ \A y \in S : y =< Max(S)
  <2> HIDE DEF S
  <2> QED
    BY <1>6, <1>7, MaxIn
<1>9. Max(S) \in Int /\ Max(S) >= -1 /\ \A i \in F : places[i] <= Max(S)
  BY <1>3, <1>4, <1>7, <1>8
<1>10. TemporaryStart(places) = Max(S) + Cardinality(F) + 1 /\ Highest(places) = Max(S)
  BY DEF TemporaryStart, Highest, F, T
<1> HIDE DEF S
<1> QED
  BY <1>2, <1>3, <1>9, <1>10 DEF F

\* Items rank as their positions do.
LEMMA RankType ==
    ASSUME NEW places \in [Item -> Nat \cup {None}], NEW i \in Filled(places)
    PROVE  /\ Rank(places, i) \in Nat
           /\ \A j \in Filled(places) : places[i] < places[j] => Rank(places, i) < Rank(places, j)
<1>1. IsFiniteSet(Filled(places)) /\ \A j \in Filled(places) : places[j] \in Int
  BY StartsAbove
<1> QED
  BY <1>1, Ranked DEF Rank

\* The temporary positions are positions, above the stored ones and apart.
LEMMA ShiftedAbove ==
    ASSUME NEW places \in [Item -> Nat \cup {None}]
    PROVE  /\ Shifted(places) \in [Item -> Nat \cup {None}]
           /\ Filled(Shifted(places)) = Filled(places)
           /\ \A i, j \in Filled(places) : places[j] < Shifted(places)[i]
           /\ \A i \in Filled(places) : Shifted(places)[i] >= TemporaryStart(places)
           /\ Apart(places) => Apart(Shifted(places))
<1> DEFINE F == Filled(places)
           s == Shifted(places)
           start == TemporaryStart(places)
<1>1. /\ start \in Nat /\ None \notin Nat /\ F \subseteq Item
      /\ \A i \in F : places[i] \in Nat /\ places[i] < start
  BY StartsAbove, PositionsAssumption DEF Filled
<1>2. \A i \in F : /\ Rank(places, i) \in Nat
                   /\ \A j \in F : places[i] < places[j] => Rank(places, i) < Rank(places, j)
  BY RankType
<1>3. \A i \in Item : s[i] = IF i \in F THEN start + Rank(places, i) ELSE None
  BY DEF Shifted, Filled
<1>4. s \in [Item -> Nat \cup {None}]
  <2>1. \A i \in Item : s[i] \in Nat \cup {None}
    BY <1>1, <1>2, <1>3
  <2> QED
    BY <2>1 DEF Shifted
<1>5. Filled(s) = F
  <2>1. \A i \in Item : s[i] # None <=> i \in F
    BY <1>1, <1>2, <1>3
  <2> QED
    BY <1>1, <2>1 DEF Filled
<1> HIDE DEF F, s, start
<1>6. \A i \in F : s[i] = start + Rank(places, i) /\ s[i] \in Nat /\ s[i] >= start
  BY <1>1, <1>2, <1>3
<1>7. \A i, j \in F : places[j] < s[i]
  BY <1>1, <1>6
<1>8. ASSUME Apart(places) PROVE Apart(s)
  <2> SUFFICES ASSUME NEW i \in F, NEW j \in F, i # j PROVE s[i] # s[j]
    BY <1>5 DEF Apart
  <2>1. places[i] < places[j] \/ places[j] < places[i]
    BY <1>1, <1>8 DEF Apart, F
  <2> QED
    BY <1>1, <1>2, <1>6, <2>1
<1> QED
  BY <1>4, <1>5, <1>6, <1>7, <1>8 DEF F, s, start

\* In a list whose positions are apart the temporary ones meet none.
LEMMA TemporaryFree ==
    ASSUME NEW places \in [Item -> Nat \cup {None}], Apart(places)
    PROVE  ~Meets(places, Shifted(places))
<1> DEFINE s == Shifted(places)
<1>1. /\ s \in [Item -> Nat \cup {None}] /\ Filled(s) = Filled(places)
      /\ \A i, j \in Filled(places) : places[j] < s[i]
      /\ Apart(s)
  BY ShiftedAbove
<1> HIDE DEF s
<1>2. ASSUME NEW i \in Filled(s), NEW j \in Item \ {i} PROVE s[i] # places[j] /\ s[i] # s[j]
  <2>1. s[i] \in Nat /\ s[i] # None
    BY <1>1 DEF Filled
  <2>2. CASE j \in Filled(places)
    <3>1. places[j] < s[i] /\ places[j] \in Nat
      BY <1>1, <2>2 DEF Filled
    <3>2. s[i] # s[j]
      BY <1>1, <1>2, <2>2 DEF Apart
    <3> QED
      BY <2>1, <3>1, <3>2
  <2>3. CASE j \notin Filled(places)
    BY <1>1, <1>2, <2>1, <2>3 DEF Filled
  <2> QED
    BY <2>2, <2>3
<1> QED
  BY <1>2 DEF Meets, s

\* The final positions are apart, and below any temporary one.
LEMMA FinalFree ==
    ASSUME PositionsTypeOK, NEW p \in Request, PlacingFair(placing[p]),
           placing[p].step = "temporary", placing[p].alone, Apart(position)
    PROVE  ~Meets(Found(p), Final(p))
<1> DEFINE a == placing[p]
           order == a.order
           temp == a.flushed
           S == Range(order)
           F == Filled(position)
           rest == Filled(temp) \ S
           to == Final(p)
           n == Cardinality(S)
           at(i) == CHOOSE k \in DOMAIN order : order[k] = i
<1>1. position \in [Item -> Nat \cup {None}] /\ F \subseteq Item /\ None \notin Nat
  BY PositionsAssumption DEF PositionsTypeOK, Filled
<1>2. S \subseteq F /\ order \in Bijection(1 .. n, S) /\ temp = Shifted(position)
  BY DEF PlacingFair
<1>3. /\ temp \in [Item -> Nat \cup {None}] /\ Filled(temp) = F
      /\ \A i, j \in F : position[j] < temp[i]
      /\ \A i \in F : temp[i] >= TemporaryStart(position) /\ temp[i] \in Nat
      /\ Apart(temp)
  <2>1. /\ temp \in [Item -> Nat \cup {None}] /\ Filled(temp) = F
        /\ \A i, j \in F : position[j] < temp[i]
        /\ \A i \in F : temp[i] >= TemporaryStart(position)
        /\ Apart(temp)
    BY <1>1, <1>2, ShiftedAbove
  <2> QED
    BY <2>1 DEF Filled
<1>4. /\ IsFiniteSet(F) /\ Cardinality(F) \in Nat
      /\ TemporaryStart(position) \in Nat /\ Cardinality(F) <= TemporaryStart(position)
      /\ \A i \in F : position[i] \in Nat
  BY <1>1, StartsAbove
<1>5. IsFiniteSet(S) /\ IsFiniteSet(rest) /\ n \in Nat /\ Cardinality(rest) \in Nat
  <2>1. S \in SUBSET F /\ rest \in SUBSET F
    BY <1>2, <1>3
  <2> HIDE DEF S, rest
  <2> QED
    BY <1>4, <2>1, FS_Subset, FS_CardinalityType
<1>6. n + Cardinality(rest) = Cardinality(F)
  <2>1. rest = F \ S /\ F \cap S = S
    BY <1>2, <1>3
  <2>2. Cardinality(F \ S) = Cardinality(F) - Cardinality(F \cap S)
    <3> HIDE DEF F, S
    <3> QED
      BY <1>4, FS_Difference
  <2>3. Cardinality(rest) = Cardinality(F) - n
    BY <2>1, <2>2
  <2> HIDE DEF F, S, rest, n
  <2> QED
    BY <1>4, <1>5, <2>3
<1>7. ASSUME NEW i \in S
      PROVE  at(i) \in 1 .. n /\ order[at(i)] = i
  <2>1. DOMAIN order = 1 .. n
    BY <1>2 DEF Bijection, Injection
  <2>2. \E k \in DOMAIN order : order[k] = i
    BY <1>7 DEF Range
  <2> HIDE DEF n, S
  <2> QED
    BY <2>1, <2>2
<1>8. ASSUME NEW i \in rest
      PROVE  /\ RankIn(rest, temp, i) \in Nat /\ RankIn(rest, temp, i) < Cardinality(rest)
             /\ \A j \in rest : temp[i] < temp[j] => RankIn(rest, temp, i) < RankIn(rest, temp, j)
  <2>1. \A j \in rest : temp[j] \in Int
    BY <1>3
  <2> HIDE DEF rest
  <2> QED
    BY <1>5, <1>8, <2>1, Ranked
<1>9. \A i \in Item : /\ i \in S => to[i] = at(i) - 1
                      /\ i \in rest => to[i] = n + RankIn(rest, temp, i)
                      /\ i \notin S \cup rest => to[i] = None
  <2>1. Len(order) = n
    BY <1>2, <1>5 DEF Bijection, Injection
  <2> QED
    BY <2>1 DEF Final, RankIn
<1>10. F = S \cup rest
  BY <1>2, <1>3
<1> HIDE DEF S, F, rest, to, at, temp, n
<1>11. ASSUME NEW i \in S PROVE to[i] = at(i) - 1 /\ to[i] \in 0 .. n - 1
  <2>1. i \in Item /\ at(i) \in 1 .. n
    BY <1>1, <1>7, <1>10, <1>11
  <2>2. to[i] = at(i) - 1
    BY <1>9, <1>11, <2>1
  <2> QED
    BY <1>5, <2>1, <2>2
<1>12. ASSUME NEW i \in rest PROVE to[i] = n + RankIn(rest, temp, i) /\ to[i] \in n .. Cardinality(F) - 1
  <2>1. i \notin S
    BY <1>12 DEF rest
  <2>2. to[i] = n + RankIn(rest, temp, i)
    BY <1>1, <1>9, <1>10, <1>12, <2>1
  <2> QED
    BY <1>4, <1>5, <1>6, <1>8, <1>12, <2>2
<1>13. \A i \in Item \ F : to[i] = None
  BY <1>9, <1>10
<1>14. \A i \in F : to[i] \in Nat /\ to[i] < Cardinality(F)
  <2>1. \A i \in S : to[i] \in Nat /\ to[i] < Cardinality(F)
    BY <1>4, <1>5, <1>6, <1>11
  <2>2. \A i \in rest : to[i] \in Nat /\ to[i] < Cardinality(F)
    BY <1>4, <1>5, <1>12
  <2> QED
    BY <1>10, <2>1, <2>2
<1>15. ASSUME NEW i \in F, NEW j \in F, i # j PROVE to[i] # to[j]
  <2>1. CASE i \in S /\ j \in S
    BY <1>5, <1>7, <1>11, <1>15, <2>1
  <2>2. CASE i \in rest /\ j \in rest
    <3>1. temp[i] < temp[j] \/ temp[j] < temp[i]
      BY <1>3, <1>15 DEF Apart
    <3> QED
      BY <1>5, <1>8, <1>12, <2>2, <3>1
  <2>3. ASSUME NEW x \in S, NEW y \in rest PROVE to[x] < to[y]
    BY <1>5, <1>11, <1>12
  <2>4. \A x \in F : to[x] \in Nat
    BY <1>14
  <2> QED
    BY <1>10, <1>15, <2>1, <2>2, <2>3, <2>4
<1>16. ASSUME NEW i \in Filled(to), NEW j \in Item \ {i} PROVE to[i] \notin {Found(p)[j], to[j]}
  <2>1. i \in F /\ to[i] \in Nat
    BY <1>13, <1>14 DEF Filled
  <2>2. CASE j \in F
    <3>1. Found(p)[j] = temp[j]
      BY <1>3, <2>2 DEF Found, Flushed, temp
    <3>2. to[i] < temp[j] /\ temp[j] \in Nat
      BY <1>3, <1>4, <1>14, <2>1, <2>2
    <3> QED
      BY <1>15, <1>16, <2>1, <2>2, <3>1, <3>2
  <2>3. CASE j \notin F
    <3>1. to[j] = None /\ Found(p)[j] = position[j] /\ position[j] = None
      BY <1>3, <1>13, <2>3 DEF Found, Flushed, temp, F, Filled
    <3> QED
      BY <1>1, <2>1, <3>1
  <2> QED
    BY <2>2, <2>3
<1> QED
  BY <1>16 DEF Meets, to

\* A request that does nothing is well typed.
LEMMA NotPlacingType == None \notin Nat /\ NotPlacing \in Placings
<1>1. Nowhere \in [Item -> Nat \cup {None}] /\ <<>> \in Seq(Item)
  BY DEF Nowhere
<1>2. None \notin Nat
  BY PositionsAssumption
<1> QED
  BY <1>1, <1>2 DEF NotPlacing, Placings

\* Who goes on only learns whether it was disturbed.
GoesOn(from, to, disturbs) ==
    /\ to \in Placings
    /\ to.step = from.step /\ to.item = from.item /\ to.at = from.at /\ to.order = from.order
    /\ to.seen = from.seen /\ to.flushed = from.flushed
    /\ to.alone => from.alone /\ (from.step # "none" => ~disturbs)

\* A request that is disturbed, or not, goes on.
LEMMA Disturbed ==
    ASSUME NEW a \in Placings, NEW disturbs \in BOOLEAN
    PROVE  /\ GoesOn(a, [a EXCEPT !.alone = @ /\ ~disturbs], disturbs)
           /\ GoesOn(a, [a EXCEPT !.alone = FALSE], TRUE)
           /\ a = NotPlacing => GoesOn(a, a, disturbs)
<1>1. ASSUME NEW b \in BOOLEAN PROVE [a EXCEPT !.alone = b] \in Placings
  BY <1>1 DEF Placings
<1>2. a.alone \in BOOLEAN
  BY DEF Placings
<1>3. ASSUME NEW b \in BOOLEAN, NEW d \in BOOLEAN, b => a.alone /\ ~d
      PROVE  GoesOn(a, [a EXCEPT !.alone = b], d)
  BY <1>1, <1>3 DEF GoesOn, Placings
<1>4. GoesOn(a, [a EXCEPT !.alone = a.alone /\ ~disturbs], disturbs)
  <2>1. (a.alone /\ ~disturbs) \in BOOLEAN
    OBVIOUS
  <2> QED
    BY <1>3, <2>1
<1>5. GoesOn(a, [a EXCEPT !.alone = FALSE], TRUE)
  BY <1>3
<1>6. a = NotPlacing => GoesOn(a, a, disturbs)
  BY DEF GoesOn, NotPlacing
<1> QED
  BY <1>4, <1>5, <1>6

\* What the end of a request does to the requests.
LEMMA EndPlacingFrame ==
    ASSUME placing \in [Request -> Placings], NEW p \in Request, NEW disturbs \in BOOLEAN,
           EndPlacing(p, disturbs)
    PROVE  /\ placing' \in [Request -> Placings] /\ placing'[p] = NotPlacing
           /\ \A q \in Request \ {p} : GoesOn(placing[q], placing'[q], disturbs)
<1>1. placing' = [q \in Request |-> IF q = p THEN NotPlacing
                                  ELSE IF placing[q] = NotPlacing THEN NotPlacing
                                  ELSE [placing[q] EXCEPT !.alone = @ /\ ~disturbs]]
  BY DEF EndPlacing
<1>2. placing'[p] = NotPlacing
  BY <1>1
<1>3. ASSUME NEW q \in Request \ {p} PROVE GoesOn(placing[q], placing'[q], disturbs)
  BY <1>1, Disturbed
<1>4. \A q \in Request : placing'[q] \in Placings
  BY <1>2, <1>3, NotPlacingType DEF GoesOn
<1>5. DOMAIN placing' = Request /\ placing' = [q \in Request |-> placing'[q]]
  BY <1>1
<1> QED
  BY <1>2, <1>3, <1>4, <1>5

\* What a change nobody prepared does to them.
LEMMA DisturbFrame ==
    ASSUME placing \in [Request -> Placings], Disturb
    PROVE  /\ placing' \in [Request -> Placings]
           /\ \A q \in Request : GoesOn(placing[q], placing'[q], TRUE)
<1>1. placing' = [q \in Request |-> IF placing[q] = NotPlacing THEN NotPlacing
                                    ELSE [placing[q] EXCEPT !.alone = FALSE]]
  BY DEF Disturb
<1>2. ASSUME NEW q \in Request PROVE GoesOn(placing[q], placing'[q], TRUE)
  BY <1>1, Disturbed
<1>3. \A q \in Request : placing'[q] \in Placings
  BY <1>2 DEF GoesOn
<1>4. DOMAIN placing' = Request /\ placing' = [q \in Request |-> placing'[q]]
  BY <1>1
<1> QED
  BY <1>2, <1>3, <1>4

\* What is fair stays fair where positions stay, ...
LEMMA StaysFair ==
    ASSUME NEW a, PlacingFair(a), NEW b, NEW disturbs, GoesOn(a, b, disturbs),
           UNCHANGED <<list, position>>, doubled \subseteq doubled'
    PROVE  PlacingFair(b)'
BY DEF PlacingFair, GoesOn

\* ... and where they change, and who goes on learns it.
LEMMA DisturbedFair ==
    ASSUME NEW a, PlacingFair(a), NEW b, GoesOn(a, b, TRUE), UNCHANGED <<list, doubled>>,
           list = "checklist" => Filled(position) \subseteq Filled(position'),
           list = "attachments" /\ a.step = "add" => a.at \notin Taken(position') \/ a.at \in doubled
    PROVE  PlacingFair(b)'
BY DEF PlacingFair, GoesOn

\* A request that does nothing is fair.
LEMMA IdleFair == PlacingFair(NotPlacing)'
BY DEF PlacingFair, NotPlacing

\* Adding an item.
LEMMA AddItemKeeps ==
    ASSUME PositionsInv, NEW p \in Request, NEW i \in Item, NEW at \in Nat, AddItem(p, i, at)
    PROVE  PositionsInv'
<1> DEFINE a == [NotPlacing EXCEPT !.step = "add", !.item = i, !.at = at]
<1>1. /\ placing \in [Request -> Placings] /\ placing[p] = NotPlacing
      /\ placing' = [placing EXCEPT ![p] = a]
      /\ UNCHANGED <<list, position, active, refused>> /\ at \notin Taken(position)
      /\ doubled' = IF \E q \in Request : placing[q].step = "add" /\ placing[q].at = at
                    THEN doubled \cup {at} ELSE doubled
  BY DEF AddItem, TakePlace, PositionsInv, PositionsTypeOK
<1>2. a \in Placings /\ a.step = "add" /\ a.item = i /\ a.at = at /\ NotPlacing.step = "none"
  BY NotPlacingType DEF Placings, NotPlacing
<1> HIDE DEF a
<1>3. placing'[p] = a /\ \A q \in Request \ {p} : placing'[q] = placing[q]
  BY <1>1
<1>4. PositionsTypeOK'
  BY <1>1, <1>2 DEF PositionsInv, PositionsTypeOK
<1>5. PlacingFair(a)'
  BY <1>1, <1>2 DEF PlacingFair
<1>6. ASSUME NEW q \in Request \ {p} PROVE PlacingFair(placing[q])'
  BY <1>1, <1>3, <1>6 DEF PositionsInv, PlacingFair
<1>7. ASSUME NEW q \in Request, NEW r \in Request, q # r, placing'[q].step = "add",
             placing'[r].step = "add", placing'[q].at = placing'[r].at
      PROVE  placing'[q].at \in doubled'
  BY <1>1, <1>2, <1>3, <1>7 DEF PositionsInv
<1>8. PositionsApart'
  BY <1>1 DEF PositionsInv, PositionsApart
<1>9. \A q \in Request : PlacingFair(placing[q])'
  BY <1>3, <1>5, <1>6
<1> QED
  BY <1>1, <1>4, <1>7, <1>8, <1>9 DEF PositionsInv

\* Asking for another order.
LEMMA ReorderItemsKeeps ==
    ASSUME PositionsInv, NEW p \in Request,
           NEW order \in Bijection(1 .. Cardinality({i \in Item : active[i]}), {i \in Item : active[i]}),
           ReorderItems(p, order)
    PROVE  PositionsInv'
<1> DEFINE seen == [i \in Item |-> IF active[i] THEN position[i] ELSE None]
           a == [NotPlacing EXCEPT !.step = "reorder", !.order = order, !.seen = seen]
           S == {i \in Item : active[i]}
<1>1. /\ placing \in [Request -> Placings] /\ placing[p] = NotPlacing
      /\ placing' = [placing EXCEPT ![p] = a] /\ list = "checklist" /\ Range(order) = S
      /\ UNCHANGED <<list, position, active, refused, doubled>>
  BY DEF ReorderItems, TakePlace, PositionsInv, PositionsTypeOK
<1>2. order \in Seq(Item)
  <2>1. IsFiniteSet(S)
    BY PositionsAssumption, FS_Subset
  <2>2. Cardinality(S) \in Nat
    BY <2>1, FS_CardinalityType
  <2>3. order \in [1 .. Cardinality(S) -> Item]
    BY DEF Bijection, Injection
  <2> HIDE DEF S
  <2> QED
    BY <2>2, <2>3
<1>3. seen \in [Item -> Nat \cup {None}] /\ \A i \in Item : seen[i] \in {None, position[i]}
  BY DEF PositionsInv, PositionsTypeOK
<1> HIDE DEF seen
<1>4. PICK b \in Placings : /\ placing' = [placing EXCEPT ![p] = b]
                           /\ b.step = "reorder" /\ b.order = order /\ b.seen = seen
  <2>1. a \in Placings /\ a.step = "reorder" /\ a.order = order /\ a.seen = seen
    BY <1>2, <1>3, NotPlacingType DEF Placings, NotPlacing
  <2> HIDE DEF a
  <2> QED
    BY <1>1, <2>1
<1>5. S \subseteq Filled(position)
  BY DEF PositionsInv, Filled
<1> HIDE DEF a
<1>6. placing'[p] = b /\ \A q \in Request \ {p} : placing'[q] = placing[q]
  BY <1>1, <1>4
<1>7. PositionsTypeOK'
  BY <1>1, <1>4 DEF PositionsInv, PositionsTypeOK
<1>8. PlacingFair(b)'
  <2>1. Range(b.order) = S /\ b.order \in Bijection(1 .. Cardinality(S), S)
    BY <1>1, <1>4
  <2> HIDE DEF S, seen
  <2> QED
    BY <1>1, <1>3, <1>4, <1>5, <2>1 DEF PlacingFair
<1>9. ASSUME NEW q \in Request \ {p} PROVE PlacingFair(placing[q])'
  BY <1>1, <1>6, <1>9 DEF PositionsInv, PlacingFair
<1>10. \A q \in Request : PlacingFair(placing[q])'
  BY <1>6, <1>8, <1>9
<1>11. PositionsApart'
  BY <1>1 DEF PositionsInv, PositionsApart
<1>12. ASSUME NEW q \in Request, NEW r \in Request, q # r, placing'[q].step = "add",
             placing'[r].step = "add", placing'[q].at = placing'[r].at
      PROVE  placing'[q].at \in doubled'
  BY <1>1, <1>4, <1>6, <1>12 DEF PositionsInv
<1> QED
  BY <1>1, <1>7, <1>10, <1>11, <1>12 DEF PositionsInv

\* A request ends and changes nothing.
LEMMA EndsKeeping ==
    ASSUME PositionsInv, NEW p \in Request, NEW disturbs \in BOOLEAN, EndPlacing(p, disturbs),
           UNCHANGED <<list, position, active, doubled, refused>>
    PROVE  PositionsInv'
<1>1. /\ placing' \in [Request -> Placings] /\ placing'[p] = NotPlacing
      /\ \A q \in Request \ {p} : GoesOn(placing[q], placing'[q], disturbs)
  BY EndPlacingFrame DEF PositionsInv, PositionsTypeOK
<1>2. PositionsTypeOK' /\ PositionsApart'
  BY <1>1 DEF PositionsInv, PositionsTypeOK, PositionsApart
<1>3. ASSUME NEW q \in Request \ {p} PROVE PlacingFair(placing[q])'
  BY <1>1, StaysFair DEF PositionsInv
<1>4. \A q \in Request : PlacingFair(placing[q])'
  BY <1>1, <1>3, IdleFair
<1>5. NotPlacing.step = "none"
  BY DEF NotPlacing
<1>6. ASSUME NEW q \in Request, NEW r \in Request, q # r, placing'[q].step = "add",
             placing'[r].step = "add", placing'[q].at = placing'[r].at
      PROVE  placing'[q].at \in doubled'
  BY <1>1, <1>5, <1>6 DEF PositionsInv, GoesOn
<1> QED
  BY <1>2, <1>4, <1>6 DEF PositionsInv

\* Nobody whom nobody disturbed is refused.
LEMMA RefusedDisturbed ==
    ASSUME PositionsInv, NEW p \in Request, RefuseAdd(p) \/ RefuseReorder(p)
    PROVE  PositionsInv'
<1> DEFINE a == placing[p]
<1>1. a \in Placings /\ PlacingFair(a) /\ position \in [Item -> Nat \cup {None}] /\ ~refused
      /\ (list = "checklist" => Apart(position)) /\ refused \in BOOLEAN
  BY DEF PositionsInv, PositionsTypeOK, PositionsApart, Apart
<1>2. a.alone = FALSE
  <2> SUFFICES ASSUME a.alone PROVE FALSE
    BY <1>1 DEF Placings
  <2>1. CASE RefuseAdd(p)
    BY <1>1, <2>1 DEF RefuseAdd, PositionFree, PlacingFair
  <2>2. CASE RefuseReorder(p)
    <3>1. list = "checklist" /\ Apart(position)
      BY <1>1, <2>2 DEF RefuseReorder, PlacingFair
    <3>2. CASE a.step = "reorder"
      <4>1. [i \in Item |-> IF a.seen[i] # None THEN a.seen[i] ELSE position[i]] = position
        BY <1>1, <3>2 DEF PlacingFair
      <4>2. Temporary(p) = Shifted(position)
        BY <4>1 DEF Temporary, Shifted, Rank, RankIn
      <4> QED
        BY <1>1, <2>2, <3>1, <3>2, <4>2, TemporaryFree DEF RefuseReorder
    <3>3. CASE a.step = "temporary"
      <4>1. ~Meets(Found(p), Final(p))
        BY <1>1, <3>1, <3>3, FinalFree DEF PositionsInv
      <4> QED
        BY <2>2, <3>3, <4>1 DEF RefuseReorder
    <3> QED
      BY <2>2, <3>2, <3>3 DEF RefuseReorder
  <2> QED
    BY <2>1, <2>2
<1>3. UNCHANGED <<list, position, active, doubled, refused>> /\ EndPlacing(p, FALSE)
  BY <1>1, <1>2 DEF RefuseAdd, RefuseReorder
<1> QED
  BY <1>3, EndsKeeping

\* An item is added.
LEMMA CommitAddKeeps ==
    ASSUME PositionsInv, NEW p \in Request, CommitAdd(p)
    PROVE  PositionsInv'
<1> DEFINE a == placing[p]
<1>1. /\ a \in Placings /\ a.step = "add" /\ PlacingFair(a) /\ PositionFree(a.at)
      /\ position' = [position EXCEPT ![a.item] = a.at]
      /\ active' = [active EXCEPT ![a.item] = TRUE]
      /\ UNCHANGED <<list, doubled, refused>> /\ EndPlacing(p, TRUE)
  BY DEF CommitAdd, PositionsInv, PositionsTypeOK
<1>2. /\ placing' \in [Request -> Placings] /\ placing'[p] = NotPlacing
      /\ \A q \in Request \ {p} : GoesOn(placing[q], placing'[q], TRUE)
  BY <1>1, EndPlacingFrame DEF PositionsInv, PositionsTypeOK
<1>3. /\ position \in [Item -> Nat \cup {None}] /\ active \in [Item -> BOOLEAN] /\ None \notin Nat
      /\ list \in {"checklist", "attachments"} /\ doubled \subseteq Nat /\ refused = FALSE
      /\ \A i \in Item : active[i] => position[i] # None
  BY PositionsAssumption DEF PositionsInv, PositionsTypeOK, PositionsApart
<1>4. a.item \in Item /\ a.at \in Nat /\ a.at # None
  BY <1>1, <1>3 DEF PlacingFair, Placings
<1>5. position' \in [Item -> Nat \cup {None}] /\ active' \in [Item -> BOOLEAN]
  BY <1>1, <1>3, <1>4
<1>6. Filled(position') = Filled(position) \cup {a.item} /\ Taken(position') \subseteq Taken(position) \cup {a.at}
  BY <1>1, <1>3, <1>4 DEF Filled, Taken
<1>7. PositionsTypeOK'
  BY <1>1, <1>2, <1>3, <1>5 DEF PositionsTypeOK
<1>8. a.at \notin Taken(position) \/ (list = "attachments" /\ a.at \in doubled)
  BY <1>1, <1>3 DEF PositionFree, PlacingFair
<1>9. PositionsApart'
  <2> SUFFICES ASSUME NEW i \in Filled(position'), NEW j \in Filled(position'), i # j,
                      position'[i] = position'[j]
               PROVE  list = "attachments" /\ position'[i] \in doubled
    BY <1>1, <1>3 DEF PositionsApart
  <2>1. i \in Item /\ j \in Item
    BY DEF Filled
  <2>2. CASE i # a.item /\ j # a.item
    BY <1>1, <1>3, <1>6, <2>1, <2>2 DEF PositionsInv, PositionsApart
  <2>3. CASE i = a.item \/ j = a.item
    <3>1. position'[i] = a.at /\ a.at \in Taken(position)
      BY <1>1, <1>3, <1>4, <1>6, <2>1, <2>3 DEF Taken
    <3> QED
      BY <1>8, <3>1
  <2> QED
    BY <2>2, <2>3
<1>10. ASSUME NEW q \in Request \ {p} PROVE PlacingFair(placing[q])'
  <2>1. PlacingFair(placing[q]) /\ GoesOn(placing[q], placing'[q], TRUE)
    BY <1>2 DEF PositionsInv
  <2>2. ASSUME list = "attachments", placing[q].step = "add"
        PROVE  placing[q].at \notin Taken(position') \/ placing[q].at \in doubled
    BY <1>1, <1>6, <2>1, <2>2 DEF PositionsInv, PlacingFair
  <2> QED
    BY <1>1, <1>6, <2>1, <2>2, DisturbedFair
<1>11. \A q \in Request : PlacingFair(placing[q])'
  BY <1>2, <1>10, IdleFair
<1>12. NotPlacing.step = "none"
  BY DEF NotPlacing
<1>13. ASSUME NEW q \in Request, NEW r \in Request, q # r, placing'[q].step = "add",
              placing'[r].step = "add", placing'[q].at = placing'[r].at
       PROVE  placing'[q].at \in doubled'
  BY <1>1, <1>2, <1>12, <1>13 DEF PositionsInv, GoesOn
<1>14. \A i \in Item : active'[i] => position'[i] # None
  BY <1>1, <1>3, <1>4
<1> QED
  BY <1>7, <1>9, <1>11, <1>13, <1>14 DEF PositionsInv

\* The temporary positions are written.
LEMMA FlushTemporaryKeeps ==
    ASSUME PositionsInv, NEW p \in Request, FlushTemporary(p)
    PROVE  PositionsInv'
<1> DEFINE a == placing[p]
           places == [i \in Item |-> IF a.seen[i] # None THEN a.seen[i] ELSE position[i]]
<1>1. /\ placing \in [Request -> Placings] /\ a \in Placings /\ PlacingFair(a) /\ a.step = "reorder"
      /\ placing' = [placing EXCEPT ![p].step = "temporary", ![p].flushed = Temporary(p)]
      /\ UNCHANGED <<list, position, active, doubled, refused>>
      /\ position \in [Item -> Nat \cup {None}] /\ a.seen \in [Item -> Nat \cup {None}]
  BY DEF FlushTemporary, PositionsInv, PositionsTypeOK, Placings
<1>2. Temporary(p) = [i \in Item |-> IF position[i] = None THEN None
                                     ELSE TemporaryStart(places) + Rank(position, i)]
  BY DEF Temporary, Rank, RankIn
<1>3. places \in [Item -> Nat \cup {None}]
  BY <1>1
<1>4. a.alone => places = position
  BY <1>1 DEF PlacingFair
<1> HIDE DEF places
<1>5. Temporary(p) \in [Item -> Nat \cup {None}]
  <2>1. TemporaryStart(places) \in Nat
    BY <1>3, StartsAbove
  <2>2. \A i \in Filled(position) : Rank(position, i) \in Nat
    BY <1>1, RankType
  <2>3. \A i \in Filled(position) : TemporaryStart(places) + Rank(position, i) \in Nat
    BY <2>1, <2>2
  <2> QED
    BY <1>2, <2>3 DEF Filled
<1>6. a.alone => Temporary(p) = Shifted(position)
  BY <1>2, <1>4 DEF Shifted
<1>7. PICK b \in Placings :
        /\ placing' = [placing EXCEPT ![p] = b] /\ b.step = "temporary" /\ b.flushed = Temporary(p)
        /\ b.order = a.order /\ b.alone = a.alone
  <2> DEFINE c == [a EXCEPT !.step = "temporary", !.flushed = Temporary(p)]
  <2>1. /\ c \in Placings /\ c.step = "temporary" /\ c.flushed = Temporary(p)
        /\ c.order = a.order /\ c.alone = a.alone
    BY <1>1, <1>5 DEF Placings
  <2>2. placing' = [placing EXCEPT ![p] = c]
    BY <1>1
  <2> HIDE DEF c
  <2> QED
    BY <2>1, <2>2
<1>8. placing'[p] = b /\ \A q \in Request \ {p} : placing'[q] = placing[q]
  BY <1>1, <1>7
<1>9. PositionsTypeOK' /\ PositionsApart'
  BY <1>1, <1>7 DEF PositionsInv, PositionsTypeOK, PositionsApart
<1>10. PlacingFair(b)'
  <2>1. b.alone => b.flushed = Shifted(position)
    BY <1>6, <1>7
  <2>2. Shifted(position)' = Shifted(position)
    BY <1>1 DEF Shifted, TemporaryStart, Rank, RankIn
  <2> QED
    BY <1>1, <1>7, <2>1, <2>2 DEF PlacingFair
<1>11. ASSUME NEW q \in Request \ {p} PROVE PlacingFair(placing[q])'
  BY <1>1, <1>8, <1>11 DEF PositionsInv, PlacingFair
<1>12. \A q \in Request : PlacingFair(placing[q])'
  BY <1>8, <1>10, <1>11
<1>13. ASSUME NEW q \in Request, NEW r \in Request, q # r, placing'[q].step = "add",
              placing'[r].step = "add", placing'[q].at = placing'[r].at
       PROVE  placing'[q].at \in doubled'
  BY <1>1, <1>7, <1>8, <1>13 DEF PositionsInv
<1> QED
  BY <1>1, <1>9, <1>12, <1>13 DEF PositionsInv

\* The final positions are written.
LEMMA CommitReorderKeeps ==
    ASSUME PositionsInv, NEW p \in Request, CommitReorder(p)
    PROVE  PositionsInv'
<1> DEFINE a == placing[p]
           to == Final(p)
           order == a.order
           temp == a.flushed
           rest == Filled(temp) \ Range(order)
<1>1. /\ a \in Placings /\ a.step = "temporary" /\ PlacingFair(a) /\ ~Meets(Found(p), to)
      /\ position' = [i \in Item |-> IF to[i] # None THEN to[i] ELSE position[i]]
      /\ UNCHANGED <<list, active, doubled, refused>> /\ EndPlacing(p, TRUE)
  BY DEF CommitReorder, PositionsInv, PositionsTypeOK
<1>2. /\ placing' \in [Request -> Placings] /\ placing'[p] = NotPlacing
      /\ \A q \in Request \ {p} : GoesOn(placing[q], placing'[q], TRUE)
  BY <1>1, EndPlacingFrame DEF PositionsInv, PositionsTypeOK
<1>3. /\ position \in [Item -> Nat \cup {None}] /\ active \in [Item -> BOOLEAN] /\ None \notin Nat
      /\ list = "checklist" /\ doubled \subseteq Nat /\ refused = FALSE
      /\ \A i \in Item : active[i] => position[i] # None
  BY <1>1, PositionsAssumption DEF PositionsInv, PositionsTypeOK, PositionsApart, PlacingFair
<1>4. /\ order \in Seq(Item) /\ temp \in [Item -> Nat \cup {None}]
      /\ IsFiniteSet(Item) /\ Len(order) \in Nat
  BY <1>1, PositionsAssumption DEF Placings
<1>5. ASSUME NEW i \in Item
      PROVE  /\ to[i] \in Nat \cup {None}
             /\ to[i] = None => temp[i] = None
  <2>1. CASE i \in Range(order)
    <3>1. \E k \in DOMAIN order : order[k] = i
      BY <2>1 DEF Range
    <3>2. (CHOOSE k \in DOMAIN order : order[k] = i) \in 1 .. Len(order)
      BY <1>4, <3>1
    <3>3. to[i] = (CHOOSE k \in DOMAIN order : order[k] = i) - 1
      BY <2>1 DEF Final
    <3> QED
      BY <1>3, <1>4, <3>2, <3>3
  <2>2. CASE i \in rest
    <3>1. rest \in SUBSET Item
      BY DEF Filled
    <3>2. IsFiniteSet(rest)
      BY <1>4, <3>1, FS_Subset
    <3>3. \A j \in rest : temp[j] \in Int
      BY <1>4 DEF Filled
    <3>4. RankIn(rest, temp, i) \in Nat
      <4> HIDE DEF rest
      <4> QED
        BY <2>2, <3>2, <3>3, Ranked
    <3>5. to[i] = Len(order) + RankIn(rest, temp, i)
      BY <2>2 DEF Final, RankIn
    <3> QED
      BY <1>3, <1>4, <3>4, <3>5
  <2>3. CASE i \notin Range(order) \cup rest
    BY <2>3 DEF Final, Filled
  <2> QED
    BY <2>1, <2>2, <2>3
<1> HIDE DEF to, rest
<1>6. position' \in [Item -> Nat \cup {None}]
  BY <1>1, <1>3, <1>5
<1>7. PositionsTypeOK'
  BY <1>1, <1>2, <1>3, <1>6 DEF PositionsTypeOK
<1>8. Filled(position) \subseteq Filled(position')
  BY <1>1, <1>3, <1>5 DEF Filled
<1>9. PositionsApart'
  <2> SUFFICES ASSUME NEW i \in Filled(position'), NEW j \in Filled(position'), i # j
               PROVE  position'[i] # position'[j]
    BY <1>1, <1>3 DEF PositionsApart
  <2>1. i \in Item /\ j \in Item
    BY DEF Filled
  <2>2. ASSUME NEW x \in Item, NEW y \in Item, x # y, to[x] # None PROVE position'[x] # position'[y]
    <3>1. to[x] \notin {Found(p)[y], to[y]}
      BY <1>1, <2>2 DEF Meets, Filled
    <3>2. to[y] = None => Found(p)[y] = position[y]
      BY <1>5 DEF Found, Flushed, Filled
    <3> QED
      BY <1>1, <2>2, <3>1, <3>2
  <2>3. CASE to[i] = None /\ to[j] = None
    <3>1. position'[i] = position[i] /\ position'[j] = position[j]
      BY <1>1, <2>1, <2>3
    <3> QED
      BY <1>3, <2>1, <3>1 DEF PositionsInv, PositionsApart, Filled
  <2> QED
    BY <2>1, <2>2, <2>3
<1>10. ASSUME NEW q \in Request \ {p} PROVE PlacingFair(placing[q])'
  <2>1. PlacingFair(placing[q]) /\ GoesOn(placing[q], placing'[q], TRUE)
    BY <1>2 DEF PositionsInv
  <2> QED
    BY <1>1, <1>3, <1>8, <2>1, DisturbedFair
<1>11. \A q \in Request : PlacingFair(placing[q])'
  BY <1>2, <1>10, IdleFair
<1>12. NotPlacing.step = "none"
  BY DEF NotPlacing
<1>13. ASSUME NEW q \in Request, NEW r \in Request, q # r, placing'[q].step = "add",
              placing'[r].step = "add", placing'[q].at = placing'[r].at
       PROVE  placing'[q].at \in doubled'
  BY <1>1, <1>2, <1>12, <1>13 DEF PositionsInv, GoesOn
<1>14. \A i \in Item : active'[i] => position'[i] # None
  BY <1>1, <1>3, <1>5
<1> QED
  BY <1>7, <1>9, <1>11, <1>13, <1>14 DEF PositionsInv

\* Items are hidden and shown, or removed.
LEMMA DisturbKeeps ==
    ASSUME PositionsInv, NEW i \in Item, (\E to \in BOOLEAN : SetActive(i, to)) \/ RemoveAttachment(i)
    PROVE  PositionsInv'
<1>1. /\ position \in [Item -> Nat \cup {None}] /\ active \in [Item -> BOOLEAN] /\ None \notin Nat
      /\ list \in {"checklist", "attachments"} /\ doubled \subseteq Nat /\ refused = FALSE
      /\ \A j \in Item : active[j] => position[j] # None
      /\ placing \in [Request -> Placings]
  BY PositionsAssumption DEF PositionsInv, PositionsTypeOK, PositionsApart
<1>2. /\ UNCHANGED <<list, doubled, refused>> /\ Disturb
      /\ position' \in [Item -> Nat \cup {None}] /\ active' \in [Item -> BOOLEAN]
      /\ list = "checklist" => position' = position
      /\ \A j \in Item : position'[j] \in {None, position[j]}
      /\ \A j \in Item : active'[j] => position'[j] # None
  <2>1. ASSUME NEW to \in BOOLEAN, SetActive(i, to)
        PROVE  /\ UNCHANGED <<list, position, doubled, refused>> /\ Disturb
               /\ active' = [active EXCEPT ![i] = to] /\ position[i] # None
    BY <2>1 DEF SetActive
  <2>2. CASE \E to \in BOOLEAN : SetActive(i, to)
    BY <1>1, <2>1, <2>2
  <2>3. CASE RemoveAttachment(i)
    BY <1>1, <2>3 DEF RemoveAttachment
  <2> QED
    BY <2>2, <2>3
<1>3. /\ placing' \in [Request -> Placings]
      /\ \A q \in Request : GoesOn(placing[q], placing'[q], TRUE)
  BY <1>1, <1>2, DisturbFrame
<1>4. Filled(position') \subseteq Filled(position) /\ Taken(position') \subseteq Taken(position)
  <2>1. \A j \in Filled(position') : j \in Filled(position) /\ position'[j] = position[j]
    BY <1>1, <1>2 DEF Filled
  <2> QED
    BY <2>1 DEF Taken
<1>5. PositionsTypeOK'
  BY <1>1, <1>2, <1>3 DEF PositionsTypeOK
<1>6. PositionsApart'
  <2>1. \A j \in Filled(position') : j \in Filled(position) /\ position'[j] = position[j]
    BY <1>1, <1>2 DEF Filled
  <2> QED
    BY <1>1, <1>2, <2>1 DEF PositionsInv, PositionsApart
<1>7. ASSUME NEW q \in Request PROVE PlacingFair(placing[q])'
  <2>1. PlacingFair(placing[q]) /\ GoesOn(placing[q], placing'[q], TRUE)
    BY <1>3 DEF PositionsInv
  <2>2. list = "checklist" => Filled(position) \subseteq Filled(position')
    BY <1>2
  <2>3. list = "attachments" /\ placing[q].step = "add" =>
           placing[q].at \notin Taken(position') \/ placing[q].at \in doubled
    BY <1>4, <2>1 DEF PlacingFair
  <2> QED
    BY <1>2, <2>1, <2>2, <2>3, DisturbedFair
<1>8. ASSUME NEW q \in Request, NEW r \in Request, q # r, placing'[q].step = "add",
             placing'[r].step = "add", placing'[q].at = placing'[r].at
      PROVE  placing'[q].at \in doubled'
  BY <1>2, <1>3, <1>8 DEF PositionsInv, GoesOn
<1> QED
  BY <1>2, <1>5, <1>6, <1>7, <1>8 DEF PositionsInv

\* Every step keeps the positions apart.
LEMMA PositionsNextKeeps == ASSUME PositionsInv, [PositionsNext]_positionsVars PROVE PositionsInv'
<1>1. CASE UNCHANGED positionsVars
  <2>1. UNCHANGED <<list, position, active, placing, doubled, refused>>
    BY <1>1 DEF positionsVars
  <2>2. PositionsTypeOK' /\ PositionsApart' /\ \A p \in Request : PlacingFair(placing[p])'
    <3>1. ASSUME NEW p \in Request PROVE PlacingFair(placing[p])'
      BY <2>1 DEF PositionsInv, PlacingFair
    <3> QED
      BY <2>1, <3>1 DEF PositionsInv, PositionsTypeOK, PositionsApart
  <2> QED
    BY <2>1, <2>2 DEF PositionsInv
<1>2. NextFree \in Nat /\ 0 .. MaxPosition \subseteq Nat
  <2>1. position \in [Item -> Nat \cup {None}]
    BY DEF PositionsInv, PositionsTypeOK
  <2>2. Highest(position) + 1 \in Nat
    BY <2>1, StartsAbove
  <2> QED
    BY <2>2 DEF NextFree
<1>3. ASSUME NEW p \in Request, NEW i \in Item, NEW at \in 0 .. MaxPosition \cup {NextFree}, AddItem(p, i, at)
      PROVE  PositionsInv'
  BY <1>2, <1>3, AddItemKeeps
<1>4. ASSUME NEW p \in Request, AbandonPlacing(p) PROVE PositionsInv'
  BY <1>4, EndsKeeping DEF AbandonPlacing
<1> QED
  BY <1>1, <1>3, <1>4, ReorderItemsKeeps, RefusedDisturbed, CommitAddKeeps, FlushTemporaryKeeps,
     CommitReorderKeeps, DisturbKeeps DEF PositionsNext

LEMMA PositionsAtFirst == PositionsInit => PositionsInv
<1> SUFFICES ASSUME PositionsInit PROVE PositionsInv
  OBVIOUS
<1>1. PositionsTypeOK
  BY NotPlacingType DEF PositionsInit, PositionsTypeOK, Nowhere
<1>2. Filled(position) = {}
  BY DEF PositionsInit, Nowhere, Filled
<1>3. \A p \in Request : placing[p].step = "none"
  BY DEF PositionsInit, NotPlacing
<1> QED
  BY <1>1, <1>2, <1>3 DEF PositionsInit, PositionsInv, PositionsApart, PlacingFair

\* However many requests add items and reorder the list, no two items of a checklist have
\* the same position, no two attachments but those added at once, and no reorder meets a
\* position of its own making (work_order_checklist_service.py, create_item, reorder_items;
\* work_order_note_service.py).
THEOREM PositionsStayApart == PositionsSpec => []PositionsApart
<1>1. PositionsInv /\ [PositionsNext]_positionsVars => PositionsInv'
  BY PositionsNextKeeps
<1>2. PositionsInv => PositionsApart
  BY DEF PositionsInv
<1> QED
  BY <1>1, <1>2, PositionsAtFirst, PTL DEF PositionsSpec

\* For any items, attachments and requests: the positions of the items and what every reorder
\* is to write keep their types (work_order_checklist_service.py, work_order_note_service.py).
THEOREM PositionsTyped == PositionsSpec => []PositionsTypeOK
<1>1. PositionsInv /\ [PositionsNext]_positionsVars => PositionsInv'
  BY PositionsNextKeeps
<1>2. PositionsInv => PositionsTypeOK
  BY DEF PositionsInv
<1> QED
  BY <1>1, <1>2, PositionsAtFirst, PTL DEF PositionsSpec
=============================================================================
