----------------------------- MODULE Inventory -----------------------------
(***************************************************************************)
(* Stock balances, their movement ledger and the reservations of work      *)
(* orders, changed by concurrent requests.                                 *)
(*                                                                         *)
(* A request reads the item and the locations without locking them, locks  *)
(* the reservation it works on, locks the balances it changes in location  *)
(* order, and posts everything in one commit.  What it posts is computed   *)
(* from the rows as they were when it locked them.                         *)
(*                                                                         *)
(* Deactivating a location (or an item) locks its row, checks that nothing *)
(* is left there and commits.  The foreign keys of movements, balances and *)
(* reservations make an insert wait for that lock, so no posting comes     *)
(* between the check and the commit: it is one step here.                  *)
(***************************************************************************)
EXTENDS Integers, Sequences, FiniteSets, FiniteSetsExt

CONSTANTS
    Item,
    Location,      \* numbers, ordered as the locations' identifiers are
    Reservation,   \* the reservations that may ever be made
    Request,       \* concurrent requests
    Asked,         \* bound: the kinds of request that arrive
    MaxQuantity,   \* bound: quantities are 1 .. MaxQuantity
    MaxMovements,  \* bound: movements per balance
    None

ASSUME InventoryAssumption ==
    /\ Location \subseteq Nat
    /\ MaxQuantity \in Nat \ {0}
    /\ MaxMovements \in Nat
    /\ Asked \subseteq {"receipt", "opening_balance", "return", "adjustment_in", "issue",
                    "adjustment_out", "transfer", "reserve", "consume", "release"}
    /\ None \notin Request \cup Reservation \cup (Item \X Location)
    /\ IsFiniteSet(Item) /\ IsFiniteSet(Location) /\ IsFiniteSet(Reservation)

VARIABLES
    itemActive, locationActive,  \* is_active of the rows
    balance,          \* inventory_balances: one row per item and location
    ledger,           \* inventory_movements of each balance, oldest first
    reservation,      \* inventory_reservations
    lapsed,           \* the reservations whose expires_at has passed
    balanceLock,      \* the request whose transaction holds the row
    reservationLock,
    req,              \* per request: what it does and how far it is
    seen,             \* per request: the balances as it locked them
    seenReservation   \* per request: the reservation as it locked it

rows  == <<itemActive, locationActive, balance, ledger, reservation, lapsed>>
locks == <<balanceLock, reservationLock>>
vars  == <<rows, locks, req, seen, seenReservation>>

Slot     == Item \X Location
Quantity == 1 .. MaxQuantity

Increases == {"receipt", "opening_balance", "return", "adjustment_in"}
Decreases == {"issue", "adjustment_out"}
OnReservations == {"consume", "release"}
Kinds  == Increases \cup Decreases \cup {"transfer", "reserve"} \cup OnReservations

Balances     == [exists : BOOLEAN, onHand : Nat, reserved : Nat]
EntryKinds   == Increases \cup Decreases \cup {"transfer_out", "transfer_in"}
Entries      == [kind : EntryKinds, before : Nat, after : Nat, reservation : Reservation \cup {None}]
Reservations == [status : {"none", "active", "partially_consumed", "consumed", "released"},
                 slot : Slot \cup {None}, quantity : Nat, consumed : Nat]
Requests     == [kind : Kinds \cup {"none"}, phase : {"idle", "reservation", "locking", "posting"},
                 slot : Slot \cup {None}, dest : Slot \cup {None}, quantity : Nat,
                 target : Reservation \cup {None}, lapsed : BOOLEAN]

NoBalance     == [exists |-> FALSE, onHand |-> 0, reserved |-> 0]
NothingSeen   == [s \in Slot |-> NoBalance]
NoReservation == [status |-> "none", slot |-> None, quantity |-> 0, consumed |-> 0]
NoRequest     == [kind |-> "none", phase |-> "idle", slot |-> None, dest |-> None,
                  quantity |-> 0, target |-> None, lapsed |-> FALSE]

StockRequest(k, s, q) ==
    [kind |-> k, phase |-> "locking", slot |-> s, dest |-> None,
     quantity |-> q, target |-> None, lapsed |-> FALSE]
TransferRequest(s, d, q) ==
    [kind |-> "transfer", phase |-> "locking", slot |-> s, dest |-> d,
     quantity |-> q, target |-> None, lapsed |-> FALSE]
ReservationRequest(k, r, q, late) ==
    [kind |-> k, phase |-> "reservation", slot |-> None, dest |-> None,
     quantity |-> q, target |-> r, lapsed |-> late]

TypeOK ==
    /\ itemActive \in [Item -> BOOLEAN]
    /\ locationActive \in [Location -> BOOLEAN]
    /\ balance \in [Slot -> Balances]
    /\ ledger \in [Slot -> Seq(Entries)]
    /\ reservation \in [Reservation -> Reservations]
    /\ lapsed \subseteq Reservation
    /\ balanceLock \in [Slot -> Request \cup {None}]
    /\ reservationLock \in [Reservation -> Request \cup {None}]
    /\ req \in [Request -> Requests]
    /\ seen \in [Request -> [Slot -> Balances]]
    /\ seenReservation \in [Request -> Reservations]

Init ==
    /\ itemActive = [i \in Item |-> TRUE]
    /\ locationActive = [l \in Location |-> TRUE]
    /\ balance = [s \in Slot |-> NoBalance]
    /\ ledger = [s \in Slot |-> <<>>]
    /\ reservation = [r \in Reservation |-> NoReservation]
    /\ lapsed = {}
    /\ balanceLock = [s \in Slot |-> None]
    /\ reservationLock = [r \in Reservation |-> None]
    /\ req = [p \in Request |-> NoRequest]
    /\ seen = [p \in Request |-> NothingSeen]
    /\ seenReservation = [p \in Request |-> NoReservation]

-----------------------------------------------------------------------------
(* Reservations.                                                           *)

Open(r) == reservation[r].status \in {"active", "partially_consumed"}

Left(row) == row.quantity - row.consumed

Available(b) == b.onHand - b.reserved

-----------------------------------------------------------------------------
(* Beginning a request: the unlocked reads.                                *)

Usable(s) == itemActive[s[1]] /\ locationActive[s[2]]

BeginStock(p, k, s, q) ==
    /\ req[p].phase = "idle"
    /\ Usable(s)
    /\ req' = [req EXCEPT ![p] = StockRequest(k, s, q)]
    /\ UNCHANGED <<rows, locks, seen, seenReservation>>

BeginTransfer(p, s, d, q) ==
    /\ req[p].phase = "idle"
    /\ s[1] = d[1] /\ s[2] # d[2]
    /\ Usable(s) /\ Usable(d)
    /\ req' = [req EXCEPT ![p] = TransferRequest(s, d, q)]
    /\ UNCHANGED <<rows, locks, seen, seenReservation>>

\* The time an expiry is compared with is taken here, before the lock is
\* waited for.  A quantity of 0 stands for all that is left.
BeginOnReservation(p, k, r, q) ==
    /\ req[p].phase = "idle"
    /\ reservation[r].status # "none"
    /\ req' = [req EXCEPT ![p] = ReservationRequest(k, r, q, r \in lapsed)]
    /\ UNCHANGED <<rows, locks, seen, seenReservation>>

-----------------------------------------------------------------------------
(* Locking.                                                                *)

\* Mutated form: SELECT without FOR UPDATE.
ReservationUnlocked(p, r) == TRUE

ReservationFree(p, r) == reservationLock[r] = None

LockReservation(p) ==
    LET r == req[p].target
        left == Left(reservation[r])
        q == IF req[p].quantity = 0 \/ req[p].kind = "release" THEN left ELSE req[p].quantity
    IN /\ req[p].phase = "reservation"
       /\ ReservationFree(p, r)
       /\ Open(r)
       /\ req[p].kind = "consume" => ~req[p].lapsed
       /\ q \in 1 .. left
       /\ reservationLock' = [reservationLock EXCEPT ![r] = p]
       /\ seenReservation' = [seenReservation EXCEPT ![p] = reservation[r]]
       /\ req' = [req EXCEPT ![p].phase = "locking", ![p].slot = reservation[r].slot,
                             ![p].quantity = q]
       /\ UNCHANGED <<rows, balanceLock, seen>>

Missing(p) == {s \in {req[p].slot, req[p].dest} \ {None} : balanceLock[s] # p}

\* Mutated form: a transfer locks its source before its destination.
SourceFirst(p) == IF req[p].slot \in Missing(p) THEN req[p].slot ELSE req[p].dest

\* Balances are locked in the order of their locations.
NextToLock(p) == CHOOSE s \in Missing(p) : \A t \in Missing(p) : s[2] <= t[2]

Creates(p, s) ==
    \/ req[p].kind \in Increases
    \/ req[p].kind = "transfer" /\ s = req[p].dest

\* Mutated form: SELECT without FOR UPDATE.
BalanceUnlocked(p, s) == TRUE

\* A balance that does not exist yet is held by the request inserting it: the
\* unique key makes a second insert wait, then lock the row.
BalanceFree(p, s) == balanceLock[s] = None

LockBalance(p) ==
    LET s == NextToLock(p)
    IN /\ req[p].phase = "locking" /\ Missing(p) # {}
       /\ BalanceFree(p, s)
       /\ balance[s].exists \/ Creates(p, s)
       /\ balanceLock' = [balanceLock EXCEPT ![s] = p]
       /\ seen' = [seen EXCEPT ![p][s] = balance[s]]
       /\ req' = [req EXCEPT ![p].phase = IF Missing(p) = {s} THEN "posting" ELSE "locking"]
       /\ UNCHANGED <<rows, reservationLock, seenReservation>>

\* The end of a transaction: its locks go with it.
Finish(p) ==
    /\ balanceLock' = [s \in Slot |-> IF balanceLock[s] = p THEN None ELSE balanceLock[s]]
    /\ reservationLock' = [r \in Reservation |->
                             IF reservationLock[r] = p THEN None ELSE reservationLock[r]]
    /\ req' = [req EXCEPT ![p] = NoRequest]
    /\ seen' = [seen EXCEPT ![p] = NothingSeen]
    /\ seenReservation' = [seenReservation EXCEPT ![p] = NoReservation]

\* A check fails, the database reports an error or the process dies.
RollBack(p) ==
    /\ req[p].phase # "idle"
    /\ Finish(p)
    /\ UNCHANGED rows

-----------------------------------------------------------------------------
(* Posting.                                                                *)

Room(s) == Len(ledger[s]) < MaxMovements

OnHand(b, s, after)    == [b EXCEPT ![s] = [exists |-> TRUE, onHand |-> after, reserved |-> @.reserved]]
Reserving(b, s, after) == [b EXCEPT ![s] = [exists |-> TRUE, onHand |-> @.onHand, reserved |-> after]]
Entry(kind, before, after, r) ==
    [kind |-> kind, before |-> before, after |-> after, reservation |-> r]
Entered(l, s, e) == [l EXCEPT ![s] = Append(@, e)]

\* One movement of the request's balance, and the commit.
Post(p, after, r) ==
    LET s == req[p].slot
    IN /\ req[p].phase = "posting" /\ Room(s)
       /\ balance' = OnHand(balance, s, after)
       /\ ledger' = Entered(ledger, s, Entry(req[p].kind, seen[p][s].onHand, after, r))
       /\ Finish(p)
       /\ UNCHANGED <<itemActive, locationActive, reservation, lapsed>>

Before(p) == seen[p][req[p].slot]

ReceiveStock(p) == req[p].kind = "receipt" /\ Post(p, Before(p).onHand + req[p].quantity, None)
ReturnStock(p)  == req[p].kind = "return" /\ Post(p, Before(p).onHand + req[p].quantity, None)
AdjustIn(p)     == req[p].kind = "adjustment_in" /\ Post(p, Before(p).onHand + req[p].quantity, None)

\* Mutated form: an opening balance looks only at what is reserved.
NothingReserved(p) == Before(p).reserved = 0

NeverMoved(p) == ledger[req[p].slot] = <<>> /\ Before(p).onHand = 0 /\ Before(p).reserved = 0

OpeningBalance(p) ==
    /\ req[p].kind = "opening_balance"
    /\ NeverMoved(p)
    /\ Post(p, Before(p).onHand + req[p].quantity, None)

\* Mutated form: reserved stock counts as available.
SufficientOnHand(p) == req[p].quantity <= Before(p).onHand

\* Mutated form: the quantity is not checked.
Unchecked(p) == TRUE

Sufficient(p) == req[p].quantity <= Available(Before(p))

IssueStock(p) ==
    /\ req[p].kind = "issue" /\ Sufficient(p)
    /\ Post(p, Before(p).onHand - req[p].quantity, None)

AdjustOut(p) ==
    /\ req[p].kind = "adjustment_out" /\ Sufficient(p)
    /\ Post(p, Before(p).onHand - req[p].quantity, None)

\* Mutated form: the destination is computed from the source's stock.
TransferredFromSource(p) == Before(p).onHand + req[p].quantity

Transferred(p) == seen[p][req[p].dest].onHand + req[p].quantity

TransferStock(p) ==
    LET s == req[p].slot
        d == req[p].dest
        left == Before(p).onHand - req[p].quantity
    IN /\ req[p].phase = "posting" /\ req[p].kind = "transfer"
       /\ Sufficient(p) /\ Room(s) /\ Room(d)
       /\ balance' = OnHand(OnHand(balance, s, left), d, Transferred(p))
       /\ ledger' = Entered(Entered(ledger, s, Entry("transfer_out", Before(p).onHand, left, None)),
                            d, Entry("transfer_in", seen[p][d].onHand, Transferred(p), None))
       /\ Finish(p)
       /\ UNCHANGED <<itemActive, locationActive, reservation, lapsed>>

CreateReservation(p, r) ==
    LET s == req[p].slot
    IN /\ req[p].phase = "posting" /\ req[p].kind = "reserve"
       /\ Sufficient(p)
       /\ reservation[r].status = "none"
       /\ balance' = Reserving(balance, s, Before(p).reserved + req[p].quantity)
       /\ reservation' = [reservation EXCEPT ![r] =
              [status |-> "active", slot |-> s, quantity |-> req[p].quantity, consumed |-> 0]]
       /\ Finish(p)
       /\ UNCHANGED <<itemActive, locationActive, ledger, lapsed>>

\* Mutated form: the reservation is closed by its first consumption.
ConsumedAtOnce(row, q) ==
    [status |-> "consumed", slot |-> row.slot, quantity |-> row.quantity,
     consumed |-> row.consumed + q]

Consumed(row, q) ==
    [status |-> IF row.consumed + q = row.quantity THEN "consumed" ELSE "partially_consumed",
     slot |-> row.slot, quantity |-> row.quantity, consumed |-> row.consumed + q]

ConsumeReservation(p) ==
    LET s == req[p].slot
        r == req[p].target
        q == req[p].quantity
    IN /\ req[p].phase = "posting" /\ req[p].kind = "consume" /\ Room(s)
       /\ q <= Before(p).reserved /\ q <= Before(p).onHand
       /\ balance' = Reserving(OnHand(balance, s, Before(p).onHand - q), s, Before(p).reserved - q)
       /\ reservation' = [reservation EXCEPT ![r] =
              Consumed(seenReservation[p], q)]
       /\ ledger' = Entered(ledger, s, Entry("issue", Before(p).onHand, Before(p).onHand - q, r))
       /\ Finish(p)
       /\ UNCHANGED <<itemActive, locationActive, lapsed>>

Released(row) ==
    [status |-> "released", slot |-> row.slot, quantity |-> row.quantity, consumed |-> row.consumed]

ReleaseReservation(p) ==
    LET s == req[p].slot
        r == req[p].target
        q == req[p].quantity
    IN /\ req[p].phase = "posting" /\ req[p].kind = "release"
       /\ q <= Before(p).reserved
       /\ balance' = Reserving(balance, s, Before(p).reserved - q)
       /\ reservation' = [reservation EXCEPT ![r] = Released(@)]
       /\ Finish(p)
       /\ UNCHANGED <<itemActive, locationActive, ledger, lapsed>>

-----------------------------------------------------------------------------
(* Time, and the places stock is kept in.                                  *)

Lapse(r) ==
    /\ Open(r) /\ r \notin lapsed
    /\ lapsed' = lapsed \cup {r}
    /\ UNCHANGED <<itemActive, locationActive, balance, ledger, reservation, locks,
                   req, seen, seenReservation>>

Vacant(s) ==
    /\ balance[s].onHand = 0 /\ balance[s].reserved = 0
    /\ \A r \in Reservation : Open(r) => reservation[r].slot # s

DeactivateLocation(l) ==
    /\ locationActive[l]
    /\ \A s \in Slot : s[2] = l => Vacant(s)
    /\ locationActive' = [locationActive EXCEPT ![l] = FALSE]
    /\ UNCHANGED <<itemActive, balance, ledger, reservation, lapsed, locks, req, seen, seenReservation>>

ReactivateLocation(l) ==
    /\ ~locationActive[l]
    /\ locationActive' = [locationActive EXCEPT ![l] = TRUE]
    /\ UNCHANGED <<itemActive, balance, ledger, reservation, lapsed, locks,
                   req, seen, seenReservation>>

DeactivateItem(i) ==
    /\ itemActive[i]
    /\ \A s \in Slot : s[1] = i => Vacant(s)
    /\ itemActive' = [itemActive EXCEPT ![i] = FALSE]
    /\ UNCHANGED <<locationActive, balance, ledger, reservation, lapsed, locks, req, seen, seenReservation>>

ReactivateItem(i) ==
    /\ ~itemActive[i]
    /\ itemActive' = [itemActive EXCEPT ![i] = TRUE]
    /\ UNCHANGED <<locationActive, balance, ledger, reservation, lapsed, locks,
                   req, seen, seenReservation>>

-----------------------------------------------------------------------------
Begin(p) ==
    \E q \in Quantity :
        \/ \E k \in Asked \ ({"transfer"} \cup OnReservations), s \in Slot : BeginStock(p, k, s, q)
        \/ "transfer" \in Asked /\ \E s, d \in Slot : BeginTransfer(p, s, d, q)
        \/ \E k \in Asked \cap OnReservations, r \in Reservation :
               BeginOnReservation(p, k, r, q) \/ BeginOnReservation(p, k, r, 0)

Commit(p) ==
    \/ ReceiveStock(p) \/ ReturnStock(p) \/ AdjustIn(p) \/ OpeningBalance(p)
    \/ IssueStock(p) \/ AdjustOut(p) \/ TransferStock(p)
    \/ \E r \in Reservation : CreateReservation(p, r)
    \/ ConsumeReservation(p) \/ ReleaseReservation(p)

Step(p) == Begin(p) \/ LockReservation(p) \/ LockBalance(p) \/ Commit(p) \/ RollBack(p)

Next ==
    \/ \E p \in Request : Step(p)
    \/ \E r \in Reservation : Lapse(r)
    \/ \E l \in Location : DeactivateLocation(l) \/ ReactivateLocation(l)
    \/ \E i \in Item : DeactivateItem(i) \/ ReactivateItem(i)

Spec == Init /\ [][Next]_vars

-----------------------------------------------------------------------------
(* Properties.                                                             *)

\* The service implements the stock ledger: each commit is one posting of it.
StockOnHand   == [s \in Slot |-> balance[s].onHand]
StockReserved == [s \in Slot |-> balance[s].reserved]
Ledger == INSTANCE StockLedger WITH onHand <- StockOnHand, reserved <- StockReserved

ImplementsLedger == Ledger!LedgerSpec

\* Reserved stock is on hand, so a reservation can always be consumed.
ReservedIsOnHand == Ledger!ReservedIsOnHand

\* A balance's reserved quantity is what its open reservations still hold: the two
\* tables agree whatever requests interleave or fail.
ReservedByReservations ==
    \A s \in Slot :
        balance[s].reserved =
            SumFunction([r \in {o \in Reservation : Open(o) /\ reservation[o].slot = s} |->
                            Left(reservation[r])])

\* The movement ledger explains the stock on hand: each movement starts where the
\* one before ended, and the last ends at the balance.
Explains(l, onHand) ==
    /\ \A i \in 1 .. Len(l) : l[i].before = IF i = 1 THEN 0 ELSE l[i - 1].after
    /\ onHand = IF l = <<>> THEN 0 ELSE l[Len(l)].after

LedgerExplainsStock == \A s \in Slot : Explains(ledger[s], balance[s].onHand)

\* What was issued against a reservation is what the reservation says was consumed.
Issues(r) ==
    {x \in Slot \X (1 .. MaxMovements) :
        x[2] <= Len(ledger[x[1]]) /\ ledger[x[1]][x[2]].reservation = r}
IssuesMatchConsumption ==
    \A r \in Reservation :
        reservation[r].consumed =
            SumFunction([x \in Issues(r) |->
                            ledger[x[1]][x[2]].before - ledger[x[1]][x[2]].after])

\* An opening balance is the first movement of its balance.
OpeningIsFirst ==
    \A s \in Slot : \A i \in 2 .. Len(ledger[s]) : ledger[s][i].kind # "opening_balance"

\* Requests never wait for each other in a circle: a reservation is locked before
\* a balance, and balances in the order of their locations.
WaitsOn(p) ==
    CASE req[p].phase = "reservation" -> reservationLock[req[p].target]
      [] req[p].phase = "locking" -> balanceLock[NextToLock(p)]
      [] OTHER -> None
NoLockCycle == \A S \in (SUBSET Request) \ {{}} : \E p \in S : WaitsOn(p) \notin S
=============================================================================
