# Novera backend: verification

TLA+ models of the Novera backend (`src/backend/app`), the TLC runs that check them on small
instances, and proofs of their most important invariants for every instance.

The backend is a FastAPI service over PostgreSQL for organizations that sell, schedule and invoice
field work, buy and stock material, and send documents by email. A request is handled by a
*service* (`services/`), which reads and writes rows through *repositories* (`repositories/`) in
one SQLAlchemy session. A separate process, the email worker (`workers/`), sends what the requests
queue. What is hard here is what happens *between* rows: several requests and workers run at once,
at the isolation level READ COMMITTED, on rows that some operations lock and others do not.

## How a request is modelled

Every request is a database transaction of a few steps:

1. **unlocked reads**, whose answers may be out of date when they are used;
2. **locking reads** (`SELECT ... FOR UPDATE`), which wait for the holder and see the committed row,
   unless the row is already loaded in the session: the session keeps its copy
   (`expire_on_commit=False`, `database/session.py:30`), and only queries with `populate_existing`
   refresh it;
3. the **commit**, which makes all writes visible at once and releases the locks, or the rollback.

One property of the code base shapes several modules. `BaseRepository.create`
(`repositories/base.py:66`) commits the session it is given. The audit log, notifications and
work-order activities are created through it, so *recording an audit event in the middle of an
operation commits the operation so far and gives up its locks*, although
`AuditLogService.record_event` says that by default it does not commit. The modules model the
commit where the code does it.

## Components

The state each part keeps, how it interacts, what is hard about it, and what makes it correct.
`PROJECT.json` names the source files of each.

| Part | State | Interacts with | Hard | Correct when | Module |
|---|---|---|---|---|---|
| Email dispatcher, worker | `email_outbox` rows: status, attempts, next attempt | providers; rivals through row locks with SKIP LOCKED | crashes after the provider accepted, stale claims, batches whose locks are lost by an audit commit | each attempt granted once, copies bounded and accounted for, every message settles | `EmailOutbox` |
| Email operator endpoints, document delivery | the same rows, `document_deliveries` | the worker, without locks | blind writes over a claimed row | a delivery mirrors its message unless writes crossed, and always while it is being sent | `EmailOutbox` |
| Inventory | balances, movements, reservations, active flags of locations and items | work orders, goods receipts, returns | concurrent postings, insertion of missing balances, lock order, expiry | ledger explains stock, reserved is on hand and is what the reservations hold | `Inventory`, `StockLedger` |
| Goods receipts, purchase orders | receipts and their lines, order status, received quantities | requisitions, inventory, bills | a commit inside the loop, stale rows, retries | the order claims what went into stock; cancelled only when nothing came | `GoodsReceipts` |
| Invoices and payments | invoice totals, lines, payments | expenses, closeouts, quotes | totals recomputed without any lock | paid is what the payments say, issued totals fixed, expense invoiced once | `Invoices` |
| Requisitions, drafting of orders | status, lines, totals, the order made of each | materials, purchase orders | one operation that takes no lock | approved and converted as submitted, once | `Requisitions` |
| Supplier bills, payments, debit notes | bills, matches, allocations, settlements | orders, receipts, returns | sums read while others post | nothing spent twice, matched is received | `SupplierAccounts`, `Settlements` |
| Supplier returns | returns and their lines, what was dispatched | receipts, inventory | the receipt is not locked | no more returned than received, reserved stock left | `SupplierReturns` |
| Quotes | status, lines, discount, expiry, activities, work order | work orders | answers against expiry, conversion | kept as sent, answered once, converted once | `Quotes` |
| Work orders, checklists, closeouts | status, checklist items, closeout | expenses, invoices, materials | decisions on what was loaded without a lock | completed with its checklist; approved as reported | `WorkOrders` |
| Order of checklists and note attachments | positions | - | unique key under a reorder | positions apart | `Positions` |
| Scheduling | assignments and times | workforce, assets | check and book in two steps | nobody booked twice by two checked bookings | `Scheduling` |
| Materials, shortage allowances | requirements, stock that covers them, allowances | inventory, requisitions | two rows per operation, two shortages | decided on as submitted | `Materials` |
| Expenses | status, quantity, cost | invoices | edits that cross a review | reviewed as submitted | `Expenses` |
| Memberships, roles | role of each member | access control | sole-owner check without a lock | the organization keeps an owner | `Memberships` |
| Customers, sites, assets, workforce, suppliers, locations, items | what an entry is known by, active, available | read by all | look up, then take | entries known apart | `Directory` |
| Procurement documents | documents, versions, evidence | approvals | a verification compares with what it first saw | numbered as they come, evidence sound | `Documents` |
| Procurement alerts, notifications | preferences, deliveries, notifications | all of procurement | overlapping and repeated dispatches | notified once | `Alerts` |
| Authentication, rate limit, users, organizations, reports, PDFs, routers, configuration, migrations | - | - | - | - | not modelled, see the end |

## Modules

* **`EmailOutbox`** - the outbox under several workers and operators. Per message a row (`status`,
  `attempts`, `next`, `delivery`), its lock, and what the provider took (`accepted`, external). Per
  worker the rows it loaded and what is left of its batch. Actions follow
  `email_dispatcher_service.py` in order: recovery of stale claims (one commit per
  message because of its audit record, with which the locks of the whole batch go: so a turn of the loop is two steps,
  `ReadDelivery` and `RecoverOne`, and after the first turn a slow worker may record its success between them), the claim query with its commit, dispatch, the provider's
  answer, recording success or failure; `email_outbox_service.py` gives `MarkSent`, `MarkFailed`
  and `Retry`. A worker may crash at any step.
* **`StockLedger`** - what the inventory promises: indivisible postings on a stock on hand of which
  a part is reserved.
* **`Inventory`** - `inventory_service.py` as concurrent requests: `Begin...` are the unlocked reads,
  `LockReservation` and `LockBalance` the locking reads (`LockBalance` also inserts a missing
  balance, for the operations that may), and one action per operation is its checks, writes and
  commit. `seen` holds the balances as the request locked them: postings are computed from that copy,
  never from the current row. `DeactivateLocation` and its like change what `Begin...` read. `Lapse`
  is the passing of `expires_at`: nothing releases an expired reservation by itself.
* **`GoodsReceipts`** - `goods_receipt_service.py` with the life cycle of the purchase order. A posting
  locks the receipt and the order, loads both with their lines (`post` is that copy) and works line by
  line. `MoveLine` is a line that goes into stock, and ends with the commit hidden in its audit
  record; `PostLine` is one that does not, and stays in the open transaction (`dirty`).
  `FailPosting` rolls back the open transaction only. Stock itself is `moved`, the sum of the receipt's
  movements; `Inventory` has the balance behind it.
* **`Invoices`** - the invoices of one work order under requests of `invoice_service.py`. Nothing is locked
  here: a request loads the invoice and checks it (`CreateInvoice` ... `VoidInvoice`), changes a line or a payment and
  recalculates the row from what it sees (`Recalculate`, `Issue`, `Void`), and commits. `req` holds
  the copy it loaded (`was`) and what it makes of it (`row`); `Commit` writes only the columns that
  differ (`Flushed`), as the session does, so two requests can leave a row that neither computed. A new
  invoice is seen by nobody before it commits and is written in one step. `RowFree` is what the
  database refuses or makes wait. Taxes, the subtotal column, positions and texts are left out, and an
  update that changes nothing.
* **`Requests`** - what the modules below share: the requests, `Changed` (the columns a session writes) and
  `Overwritten` (what they make of the row as it is by then).
* **`Requisitions`** - `purchase_requisition_service.py` and the drafting half of `purchase_order_service.py`.
  Every operation locks its requisition, decides on it with its lines and commits, in two steps; the
  request for missing materials of `work_order_material_service.py` alone loads it without the lock and
  replaces the lines it generated before.
* **`SupplierAccounts`** - bills with their match, supplier payments, debit notes and their settlements, for
  one supplier and one order. What a bill or a note has left is stored nowhere: `SpendStep` locks the
  rows, sums the posted payments and writes, in three steps.
* **`Settlements`** - what `SupplierAccounts` promises: every debt has a balance, and a payment settles its debts whole and at
  once. `ProcurementProofs` maps the accounts to it (`Accounts`): what is owed is the total of a bill while it is approved
  and of a debit note while it is acknowledged, its balance the sum over the posted payments.
* **`SupplierReturns`** - returns out of one posted receipt. `Dispatch` sums what went out before and locks
  the balance, but nothing of the receipt.
* **`Quotes`** - `quote_service.py`: each operation locks its quote and commits in a second step; `DayPasses`
  may fall between the two.
* **`WorkOrders`** - `work_order_service.py`, `work_order_closeout_service.py` and the checklist: operations
  load, decide and commit columns, without a lock but that of the closeout.
* **`Scheduling`** - the conflict check and the booking that commits after it, and every other way in which a
  crew or a time changes. What writes a status (`DispatchJob`, `ChangeJobStatus`, `ScheduleJob` if asked to) decides on
  the status it loaded, and so may open a job again that was completed or cancelled meanwhile (`Planned`).
* **`Materials`** - requirements, what covers them, the two computations of a shortage, and the allowances,
  which lock themselves and their requirement.
* **`Expenses`**, **`Memberships`**, **`Positions`**, **`Directory`**, **`Documents`**, **`Alerts`** - one
  service each (a directory has one per kind of entry, which share no rows), read, checked and committed
  as their header comments say.
* **`BackOffice`** puts the fourteen parts from `GoodsReceipts` on side by side: `OfficeSpec` lets every one of them
  step whenever it likes; `BackOfficeSpec` has the behaviours in which one part moves and the others rest.
* **`MCEmailOutbox`, `MCInventory`, `MCGoodsReceipts`, `MCInvoices`, `MCBackOffice`** give TLC symmetry and instances.

**How the parts meet.** A part sees another one only as far as its code reads it, as steps of its own
environment: `SupplierAccounts` has `ReceiptPosted` and `OrderCancelled` of what `GoodsReceipts` has in full,
`SupplierReturns` and `Materials` have the reservations and issues of the one item they read
(`Inventory`), `Invoices` the expenses of `Expenses`, `GoodsReceipts` the movements of `Inventory`. These steps are
more liberal than the part they stand for.

Most of the code promises nothing to requests that cross without a lock. **History variables** record that they did,
and the properties say what holds otherwise:

| Variable | Set when |
|---|---|
| `excused` (`EmailOutbox`) | a claim went stale under its worker, or the provider reported an error for what it had taken |
| `crossed` (`EmailOutbox`) | the last write of a message took its delivery for what it no longer was |
| `overlapped` (`GoodsReceipts`) | two postings were under way at once, or a receipt was edited while one was |
| `missed`, `crossed` (`Invoices`) | what rivals committed since a request read it; what was written over it |
| `overtaken` (`Requisitions`) | a request for missing materials crossed an operation on the requisition |
| `rivalled` (`SupplierReturns`) | two dispatches overlapped |
| `crossed` (`WorkOrders`) | two operations on the work order crossed, not both of them on its closeout |
| `vetted` (`Scheduling`) | bookings found free of conflicts, and not changed since, nor another booking between the check and the commit |
| `overtakenExpenses` (`Expenses`) | two operations on the expense overlapped |
| `contested` (`Memberships`) | two requests that change or remove memberships overlapped |
| `doubled`, `refused` (`Positions`) | attachments were added at once; a position was found taken by a request nobody disturbed |
| `shared` (`Directory`) | customers looked up one e-mail, or requests on one entry overlapped |
| `verified` (`Documents`) | a verification of the version overlapped with another one or with evidence |

They gate no step: what the code may do does not depend on them. All but `vetted`, `missed` and the `crossed` of `EmailOutbox` only grow.

Data that no property tells apart is left out: currencies, taxes, names and texts, payload details,
timestamps other than the order of "before" and "after" a deadline, and rejected and damaged
quantities of a receipt line.

## Runs

| Run | Question | Bounds |
|---|---|---|
| `outbox_workers` | Can two workers claim one attempt, or send more copies than attempts, or a second copy without a reason? Does a delivery differ from its message where no write crossed another? | 2 messages, 2 workers, batches of 2, 2 attempts, 1 crash |
| `outbox_operators` | The same of the delivery when workers and an operator write over one another. | 1 message, 2 workers, 1 operator, 1 crash |
| `outbox_settles` | Does every message end sent or out of attempts? | 1 message, 2 workers, 2 crashes, fair |
| `outbox_stranded` (violation) | With batches, can recovery put a message back that nobody will claim? Yes. | 2 messages, 2 workers, batches of 2 |
| `outbox_permanent_failure` (violation) | Is a permanent failure left alone? No: it is due at once. | 1 message, 2 workers |
| `inventory_ledger` | Do concurrent requests implement the ledger, explain it by movements and never deadlock? | 2 locations, 2 requests, 1 reservation, quantity 1, 2 movements per balance |
| `inventory_reservations` | Does the reserved quantity stay what the reservations hold, with partial consumption, expiry, release? | 1 location, 2 requests, 2 reservations, quantities to 2, 3 movements |
| `receipts_partial` (violation) | Does a failed posting leave nothing behind? No. | 2 lines, 1 request |
| `receipts_lost_update` (violation) | Do concurrent postings keep the order in step with stock? No. | 2 lines, 2 requests |
| `invoices_requests` | Do an invoice's amounts follow its lines and payments, is nothing charged twice, does what was issued stay? | 2 invoices, one of them worked on (`Busy`), 2 requests, 2 payments, 1 expense, 1 manual line, amounts to 1, 1 row or charge written over (`MaxCrossed`) |
| `back_office` | Do fourteen parts keep what they promise under two concurrent requests? | below |
| `allowance_shortage` (violation) | Is the shortage of an allowance the one the job's materials show? No. | 1 requirement, quantities to 2, 1 request |

Two requests are enough for every conflict between a check and a write, and for a circle of two
waits; three movements let a balance be filled, emptied and filled again, or a reservation be
consumed in two parts. Two attempts make the difference between a claim, a retry and the last one.
Unbounded counters are bounded by guards named in
the constants (`MaxMovements`, `MaxMoved`, `MaxCrashes`, `MaxAttempts`, `Asked`, `MaxAmount`,
`MaxCrossed`, `Busy`, `MaxQuantity`, `MaxPrice`, `MaxCost`, `MaxStock`, `MaxQuoted`, `LastDay`, `MaxRequired`,
`MaxSupply`, `MaxSpent`, `MaxPosition`, `MaxVersions`, `LastAlert`). In `invoices_requests` the second invoice is created
and then left alone: it is the rival for the expense and the closeout. With amounts of 1 an expense, a manual
line and the closeout line already make totals of up to 3, of which two payments pay a part or, after a line
is removed, all.

**`back_office`.** The parts share no variable, so an invariant of one is checked when that part moves and
the others rest as they began: a behaviour chooses its part (`Rest`), which makes the state space the sum of
the parts' and not their product. `VIEW Moving` keeps what distinguishes such states: the part and its
variables. It loses nothing, since the variables of the other parts have one initial value each, and `MovesAreOffice` proves
that what a part does there it does in `OfficeSpec`. Requests and the
rows called `Twin`, of which a kind has two, are interchangeable. The instance has

* two receipts of two stock lines, ordered 1 each, and a line put into stock up to twice;
* two bills, two payments, a debit note; quantities and prices of 1; two returns of a receipt line of 2 pieces of each kind,
  out of a stock of up to 3;
* one requisition with two lines and two orders it might become; one quote with two lines and two work
  orders it might become, over two days (so that it expires);
* one work order with one checklist item; two jobs for one technician at one time;
* one requirement of up to 3 with a supply of up to 3; three users, of whom one founded the organization;
  one expense; two list items and positions to 2; two entries with one identifier; one document with two
  versions; two alerts.

Each is the least at which its hazard occurs: two rows where two must not collide, one where the
conflict is between requests on it. All of it together is about 1.6 million states.

Deadlock checking is off where the parts really stop: once the orders are closed and the receipts posted
or cancelled, the invoices paid or void, the quote converted, nothing is left to do. `Inventory` and
`EmailOutbox` run with it.

**Fairness** is assumed only in `outbox_settles`: the worker loop runs forever
(`email_outbox_worker.py`, `run_forever`), so each step of a live worker that stays possible is
taken, back-off and stale time-outs elapse, and crashes are finitely many. Nothing is assumed of the
provider: it may fail every attempt. API requests are not fair: nobody has to call again, so nothing else must
eventually happen.

### What the violations show

* **Recovery strands a message.** Recording a recovered message commits, so the rest of the batch is
  unlocked while the loop still holds its old copies; a rival that recovers and claims one of them for
  its last attempt is overwritten with `queued`, and no claim query selects it again. With batches of one
  it cannot happen: `QueuedIsClaimable` proves it.
* **A permanent failure is retried at once.** It clears `next_attempt_at`, which the claim query
  reads as "due".
* **Posting a receipt is not one transaction.** A failure after the first stock line leaves that line in
  stock and the receipt a draft; posting it again continues from there only if the order allows it.
* **Concurrent postings lose updates.** After its first line a posting holds no lock and works with
  the order lines it loaded, because the query that locks a line does not refresh it.
* **The shortage of an allowance is not the one of the job.** It looks the reservations of the job up by the
  inventory item, where they are keyed by the requirement, and leaves consumption out, so it takes a job that has
  reserved its material for one that has not; the comment at
  `work_order_material_shortage_allowance_service.py:209` says that it mirrors the readiness calculation.

What the passing runs leave to the history variables is as much a result: two payments of one invoice balance that are checked
at the same time are both recorded while the row counts one; a void that commits over a payment it missed leaves a void
invoice with an active payment, and the other order brings the void invoice back; two owners may step down
together; two dispatches may return the same goods twice; two bookings may take the same technician; a work order may be
completed while a required item is reopened; a dispatch may open a work order again that was completed or cancelled meanwhile; a recovery
may leave a message queued whose delivery is sent, until it is claimed again; a submitted expense may be edited by a request that loaded the
draft. No text of the repository claims otherwise, so no run contradicts one. What holds however requests cross, without
a flag: the amounts of supplier bills and debit notes (`NothingOverspent`), matches, the conversion of requisitions and of quotes,
approved closeouts, allowances, notifications, and that an order never claims more than went into stock and that a cancelled one
got nothing (`NoPhantomReceipt`). These are the operations that lock.

## Proofs

All proofs are checked by TLAPS from nothing; they assume the named assumptions on constants
(`...Assumption` in each module: bounds are numbers, `None` is nothing else, and the sets of rows a sum runs over
are finite, as those of a table are) and what a theorem names in its own ASSUME.

**`SumTheorems`** - what the totals of the model need. `SumFunction` adds the values of a function over a finite set
in an order it chooses, and there is no induction over data here. So a fact about all sums is proved by
contradiction at a smallest subset for which it would fail, which exists because strict inclusion is well founded on finite
sets (`SmallestPart`): that the recursion behind the sum has a solution (`PartialSumsExist`), that any element may be
taken out first (`SumStep`), and from it that sums grow with their terms (`SumMono`), contain each term
(`SumAtLeast`), and change with one term by as much as the term does (`SumMoves`), which is the shape of every commit. `MaxIn` is the same for
the greatest position in a list, and `MinIn` for the alert a dispatch looks at next.

**`InventoryProofs`.** `Invariant` proves the inductive invariant `IInv`. `LedgerExplainsStock` alone is not
inductive, because a posting is computed from a copy: one needs that the copy is still the row
(`BalancesAsLocked`, `ReservationsAsLocked`), hence that a request about to post holds the locks
(`PostingHoldsBalances`), hence that its request is well formed for its phase (`RequestsFormed`). That an
open reservation points at a balance whose reserved stock covers it (`ReservationsFormed`) is carried
along. From `IInv` follow `TypeCorrect`, `LedgerExplains`, `ReservedStays`, and `Refines`: every step
of the locking requests is a posting of `StockLedger` or changes nothing of it. The lemmas
named `...Posts`, one per kind of operation, each say which posting its commit is. `OpeningsAreFirst`
follows from how a commit may extend the movements of a balance (`Grown`). `NoDeadlock` needs
`LocksInOrder` (who waits for a balance holds only balances of earlier locations) and that in a circle somebody would wait for
the location with the greatest identifier: the theorem assumes that identifiers are bounded by some n, as
those of the database are. `ReservedIsAccounted` and `ConsumptionIsAccounted` rest on `Accounted`: a commit
changes what its own reservation holds, and what was issued against it, by what it writes to the balance and to the
ledger, a release gives back all that is left (`ReleasesAll`), and a reservation that was never made consumed nothing (`UnmadeUntouched`).

**`EmailOutboxProofs`.** `TypeCorrect`; `DeliveryMirrors`, for batches of any size and with operators: a row differs from its delivery only while `crossed`
says that its last write took the delivery for what it was no more, and never while the message is being sent. Its strengthening
(`MirrorInv`) says of the copies that workers and operators hold what status they loaded, always another one than they
write: so the status is written whatever happened in between, and the delivery is what may be left behind.
TLC checks it with batches of two without operators (`outbox_workers`) and with an operator on one message
(`outbox_operators`); both at once rest on the theorem, as that instance is too large to run. The others are for any number of workers, messages and crashes but without operators
(`Operator = {}`: an operator's blind write may set a counter back). `AttemptsGrantedOnce` relates the attempts granted to
the counter in the row and says that a worker that is claiming holds the lock and the current counter.
`CopiesStayBounded` and `DuplicatesExcused` rest on `CopiesInv`: a claim that is still current was counted, those that
are not yet spent are counted (`CopiesCounted`, with the cardinality of `Unspent`), and a message with
none of its copies excused has one claim (`OneCopy`). `QueuedIsClaimable` is for batches of one, where a recovery
writes the row it has locked (`RecoversAsLocked`).

**`InvoicesProofs`.** `ExpensesChargedOnce` and `IssuedForGood`, for any number of requests, invoices and lines. Since nothing
is locked, nothing a request checked need still hold when it commits; the invariant says how little it
writes over. Who creates an invoice is alone on it, and who works on one writes the status it
loaded or one that is not a draft's (`RequestsFormed`), so a commit cannot turn the row back into a draft
whatever happened in between. What a request is about to charge nobody else charges unless that
is in `missed` (`NobodyElseCharges`), which is what the commit needs for `ChargedOnce`. The
amounts do not enter: `Shaped` types only what these arguments use. With the amounts, `TypeCorrect` says that none is ever negative;
a payment is refused beyond the balance the request read, and what the row is recalculated to comes from the rows it sees. `TotalsAgree` and `TermsStay` rest on
`Agreeing`: a request that missed nothing of its invoice holds the row as it is, and what it will write fits the
lines and payments it sees (`ReadsStand`); those it sees are the ones it finds when it commits, because the commit of another
request on another invoice changes neither (`PaymentsHeld`, `CommitLeavesSeen`); and only a draft has its lines
or its discount changed (`Allowed`).

**`ProcurementProofs`.** `RequisitionsInv` (who changes a status holds the lock until it commits, and writes the terms it found once they are decided) gives `RequisitionsConvertOnce` and `RequisitionTermsStay`. `BillsInv` gives
`MatchedStaysReceived`: a match is only set by the comparison, and deliveries that come later only add to what was received.
`DocumentsInv` gives `DocumentsStand`. `SpendInv` gives `BillsNeverOverspent`: what a bill or note has left is a sum over the posted payments,
stored nowhere, so the invariant has to say that what a request summed is still so when it writes (`StillHolds`). It is because
the request keeps the rows locked, a payment adds to locked rows only, and one that is reversed can only free something; a
request also has a payment row of its own (`PaymentsApart`). A settlement locks its bills and its note the same way. The same invariant
gives `AccountsImplementSettlements`: of the three steps of a request only the last does anything to the settlements,
and it pays there what was left (`PostPays`), takes back what was paid (`ReverseTakesBack`), or changes what is owed of a debt of which nothing is
settled (`BillMoves`, `NoteMoves`). No run checks this refinement; what it says of a state, `NothingOverspent`, is one of `back_office`. `ReturnsInv` gives
`ReturnsWithinReceipt`: unless two dispatches overlapped there is one at most, so the quantities it found remaining still remain (`Unrivalled`, `LinesFit`);
what is reserved needs no such condition, as the balance is locked.

**Goods receipts** (at the end of `ProcurementProofs`). `NeverOverReceived` is the type invariant, of which the point is that no line receives more than
was ordered although postings write copies (`TypeInv`: no copy holds more). `CancelledForNothing`: a cancelled order
received and moved nothing. The lock that would forbid it is lost with the first commit; `CancelInv` says that by
then something is received, for good, so that the cancellation, which wants nothing received, is refused. `OrderClaimsNoPhantoms` adds that
no line of the order claims more than went into stock: neither does a copy a posting works on (`PhantomInv`), for what was moved never shrinks, and a line is
added to the copy as it is moved. `SerialPostingsComplete`: until postings overlap (`SerialInv`) the one that is under way holds the rows as they are, but for the
lines it has not committed (`Faithful`), so each of its commits moves what it adds to the order, and a posting that failed half-way takes up where it left.

**`WorkProofs`.** `MaterialsInv`, `ExpensesInv`, `SchedulingInv`, `WorkOrdersInv` with `CompletionInv` each say why the row a
request decided on is the one it writes: it is locked, or nobody else was there, or nothing changed it since the check.
From them `AllowancesKeepTerms`, `ExpensesKeepTerms`, `VettedDisjoint`, `ApprovalsStand`, `CompletionsHold`. `PositionsInv` gives
`PositionsStayApart`: the first pass of a reorder moves every item beyond the greatest position there is (`MaxIn`), one after the other, and the
second counts them off, so neither meets a position of the other pass; a request that adds holds a position that is
free or, if another one computed the same, `doubled`.

**`OfficeProofs`.** `MembershipsInv` gives `OwnersStay`: as long as nobody contested, a pending change was checked against the
roles as they are. `AlertsInv` gives `AlertsNotifiedOnce`: the unique key keeps two dispatches apart, and a commit makes
delivery and notification together. `DirectoryInv` gives `EntriesApart`. `QuotesInv`: a request holds the lock of its quote from the read to the commit, so its copy is the row, and
what it is to write continues the life of the quote; the work order a conversion takes is nobody else's. From it
`SentQuotesStay` and `ActivitiesTell`.

**Types.** The type invariant of every part is a theorem (`QuotesTyped`, `RequisitionsTyped`, and so on, each after the other
theorems of its part). For some it is inductive as it stands (quotes, requisitions); the others need what their part's invariant knows. Most of the
work is that a request does not write a row but the columns it changed, over whatever the row has become: that the
outcome is a row again is a lemma of its own wherever it happens (`MergedTyped` for the request for missing materials, `RowMixed` for work orders and checklists,
`WrittenOver`, `ExpenseWrites`, `BookingWrites`, `OverwrittenRow`). `DocumentsTyped` needs that a version that is filed is numbered within the bound until it commits
(`NumbersKept`), `AlertsTyped` that a dispatch about to insert has something left to insert.

**`BackOfficeProofs`.** `PartsStep`: a step in which one part moves is one of that part and a stutter of the others; so `MovesAreOffice`, every behaviour
of `BackOfficeSpec` is one of `OfficeSpec`. `OfficeTyped`, `OfficeInOrder` and `OfficeKeepsTerms` put the theorems of the parts together for
`OfficeSpec`, however the parts interleave, and `BackOfficeTyped` and `BackOfficeInOrder` carry all twenty properties of the run `back_office` over to
the specification it checks, for any values of the constants.

Only model-checked is liveness (`EveryMessageSettles`): fairness and ENABLED are beyond the prover.
The properties of the runs that expect a violation do not hold.

## Known and not covered

Behaviours of the code seen on the way that no property is about:

* from the second turn of a batch on, a recovery reads and writes a delivery without a lock, and writes only what differs from
  what it read: a success recorded in between leaves the message `queued` with its delivery `sent`
  (`email_dispatcher_service.py:119`, `:140`; the model contains it);
* who writes a message and its delivery writes the delivery first, where a claim or a recovery has locked the message
  already: a writer without a lock and they can wait for each other, and the database fails one of them, which is a crash of the model;
* `SupplierReturnService` and `ProcurementDocumentService` give identifiers as they are to the JSON `details` of their audit
  records (for instance `supplier_return_service.py:406`, `:623`, `:803`, passed on at `:134`; `procurement_document_service.py:283`,
  `:442`, `:532`), where `GoodsReceiptService`, `PurchaseOrderService` and `PurchaseRequisitionService` convert them first (`_json_safe`).
  Neither the session nor the column (`models/audit_log.py:154`, JSONB) serializes a `UUID`, so inserting such a record raises
  and the operation rolls back. This is read from the code, not run. `SupplierReturns`, `SupplierAccounts` (its debit notes) and
  `Documents` let these operations commit: they are the operations as meant, and contain every behaviour of the code;
* `NoLockCycle` is about the locks on reservations and balances. A goods receipt locks the row of an item and then a balance
  (`goods_receipt_service.py:935`, `:959`), which is in no model;
* a location or an item is read without a lock when a posting begins, so stock can arrive in one deactivated meanwhile
  (the model contains it);
* an allowance is created with the requirement locked first and edited with the allowance locked first: two requests can
  wait for each other, and the database fails one of them;
* the end of a posting updates the order before the receipt, and the posting locked them the other way round: likewise;
* the next position of an unlocked request for materials is computed with `int(highest or -1) + 1`, which is
  0 again when the highest is 0 (the model does the same; the unique key refuses it);
* the weighted average cost is rounded at every receipt, so the value of stock drifts from what was paid for it;
* the expiry of a reservation may be checked before its lock is granted (the model contains it);
* the activity of a work-order operation is a commit of its own: a crash between the two loses it;
* `mark_failed` counts an attempt on a row it read without a lock (the model contains it).

## Not modelled, and why

* **Authentication, tokens, permission checks, rate limit, users** - who may call; every request of a module is one that
  was let in.
* **Organizations and document settings** - single rows edited in one step, which nothing reads over several.
* **Reports, dashboards, analytics** only read. **PDFs, attachments, schemas, routers** are formatting and
  input checks; a failure to build an attachment is a failed attempt of `EmailOutbox`. **Notes** are texts on which nothing
  depends (the order of their attachments is in `Positions`).
* **The audit log and activities** themselves: rows nothing reads back. What matters of them, that writing one commits, is
  part of the steps of `EmailOutbox` and `GoodsReceipts`.
* **Configuration, migrations, seeds and scripts** run before the system does.
* Isolation below READ COMMITTED, connection pools and the database's own deadlock detection are the
  database's; a statement that fails is a rollback (`Abandon...`, `RollBack`, `FailPosting`).
