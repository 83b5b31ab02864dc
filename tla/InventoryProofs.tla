-------------------------- MODULE InventoryProofs --------------------------
(***************************************************************************)
(* Proofs about Inventory, for any items, locations, reservations and any  *)
(* number of concurrent requests.                                          *)
(*                                                                         *)
(* What a request posts is computed from the rows as it locked them.  The  *)
(* argument is that those copies still equal the rows when it posts:       *)
(* nobody else writes a row another request holds (BalancesAsLocked,       *)
(* ReservationsAsLocked), and a request that posts holds all it needs      *)
(* (PostingHoldsBalances, RequestsFormed).                                 *)
(*                                                                         *)
(* That no circle of requests waits for each other is a second argument:   *)
(* balances are locked in the order of their locations (LocksInOrder), so  *)
(* in a circle of waiting requests the one that waits for the greatest     *)
(* location would wait for somebody who is not waiting.                    *)
(*                                                                         *)
(* The third is about sums: what the open reservations hold of a balance,  *)
(* and what the ledger issued against a reservation, change by one element *)
(* of the sum at a commit, by as much as the commit writes to the row      *)
(* (Accounted).                                                            *)
(***************************************************************************)
EXTENDS Inventory, TLAPS, WellFoundedInduction, SumTheorems

\* A request past its reads knows what it is to post; one on a reservation holds
\* it and asks for no more than is left of it.
RequestsFormed ==
    \A p \in Request :
        /\ req[p].phase \in {"locking", "posting"} =>
              /\ req[p].slot \in Slot /\ req[p].quantity \in Quantity
              /\ req[p].kind = "transfer" => (req[p].dest \in Slot /\ req[p].dest # req[p].slot)
              /\ req[p].kind # "transfer" => req[p].dest = None
              /\ req[p].kind \in OnReservations =>
                    /\ req[p].target \in Reservation
                    /\ reservationLock[req[p].target] = p
                    /\ req[p].slot = reservation[req[p].target].slot
                    /\ req[p].quantity <= Left(reservation[req[p].target])
        /\ req[p].phase = "reservation" =>
              /\ req[p].target \in Reservation
              /\ req[p].kind \in OnReservations
              /\ req[p].dest = None

\* Who posts holds the balances it changes.
PostingHoldsBalances ==
    \A p \in Request : req[p].phase = "posting" =>
        /\ balanceLock[req[p].slot] = p
        /\ req[p].kind = "transfer" => balanceLock[req[p].dest] = p

\* A balance stays as its holder locked it.
BalancesAsLocked ==
    \A p \in Request, s \in Slot : balanceLock[s] = p => seen[p][s] = balance[s]

\* A reservation is held by the request that works on it, and stays open and as
\* its holder locked it.
ReservationsAsLocked ==
    \A p \in Request, r \in Reservation : reservationLock[r] = p =>
        /\ Open(r) /\ seenReservation[p] = reservation[r]
        /\ req[p].phase \in {"locking", "posting"}

\* A reservation that was made is for some stock, and not overdrawn.
ReservationsFormed ==
    \A r \in Reservation : reservation[r].status # "none" =>
        /\ reservation[r].slot \in Slot
        /\ reservation[r].quantity \in Quantity
        /\ reservation[r].consumed <= reservation[r].quantity

IInv ==
    /\ TypeOK
    /\ RequestsFormed
    /\ PostingHoldsBalances
    /\ BalancesAsLocked
    /\ ReservationsAsLocked
    /\ ReservationsFormed
    /\ ReservedIsOnHand
    /\ LedgerExplainsStock

-----------------------------------------------------------------------------
(* The operators of the model.                                             *)

\* OnHand sets the stock of one balance and leaves its reserved part.
LEMMA OnHandFacts ==
    ASSUME NEW b \in [Slot -> Balances], NEW s \in Slot, NEW n \in Nat
    PROVE  /\ OnHand(b, s, n) \in [Slot -> Balances]
           /\ OnHand(b, s, n)[s].onHand = n
           /\ OnHand(b, s, n)[s].reserved = b[s].reserved
           /\ \A t \in Slot \ {s} : OnHand(b, s, n)[t] = b[t]
BY DEF OnHand, Balances

\* Reserving sets the reserved part of one balance and leaves its stock.
LEMMA ReservingFacts ==
    ASSUME NEW b \in [Slot -> Balances], NEW s \in Slot, NEW n \in Nat
    PROVE  /\ Reserving(b, s, n) \in [Slot -> Balances]
           /\ Reserving(b, s, n)[s].onHand = b[s].onHand
           /\ Reserving(b, s, n)[s].reserved = n
           /\ \A t \in Slot \ {s} : Reserving(b, s, n)[t] = b[t]
BY DEF Reserving, Balances

\* Entered appends to the movements of one balance.
LEMMA EnteredFacts ==
    ASSUME NEW l \in [Slot -> Seq(Entries)], NEW s \in Slot, NEW e \in Entries
    PROVE  /\ Entered(l, s, e) \in [Slot -> Seq(Entries)]
           /\ Entered(l, s, e)[s] = Append(l[s], e)
           /\ \A t \in Slot \ {s} : Entered(l, s, e)[t] = l[t]
BY DEF Entered

\* The entry of a movement.
LEMMA EntryFacts ==
    ASSUME NEW k \in EntryKinds, NEW n \in Nat, NEW m \in Nat, NEW r \in Reservation \cup {None}
    PROVE  /\ Entry(k, n, m, r) \in Entries
           /\ Entry(k, n, m, r).before = n
           /\ Entry(k, n, m, r).after = m
BY DEF Entry, Entries

\* A movement that starts at the stock on hand extends the explanation of it.
LEMMA ExplanationGrows ==
    ASSUME NEW l \in Seq(Entries), NEW n \in Nat, NEW e \in Entries,
           Explains(l, n), e.before = n
    PROVE  Explains(Append(l, e), e.after)
<1> DEFINE k == Append(l, e)
<1>1. Len(k) = Len(l) + 1 /\ k # <<>> /\ k[Len(k)] = e
  OBVIOUS
<1>2. ASSUME NEW i \in 1 .. Len(k)
      PROVE  k[i].before = IF i = 1 THEN 0 ELSE k[i - 1].after
  <2>1. CASE i = Len(k)
    <3>1. CASE l = <<>>
      BY <1>1, <2>1, <3>1 DEF Explains
    <3>2. CASE l # <<>>
      <4>1. Len(l) \in Nat /\ Len(l) # 0 /\ k[Len(l)] = l[Len(l)]
        BY <3>2
      <4>2. e.before = l[Len(l)].after
        BY <3>2 DEF Explains
      <4> QED  BY <1>1, <2>1, <4>1, <4>2
    <3> QED  BY <3>1, <3>2
  <2>2. CASE i # Len(k)
    <3>1. i \in 1 .. Len(l) /\ k[i] = l[i] /\ (i # 1 => k[i - 1] = l[i - 1])
      BY <1>1, <2>2
    <3> QED  BY <3>1 DEF Explains
  <2> QED  BY <2>1, <2>2
<1> QED  BY <1>1, <1>2 DEF Explains

-----------------------------------------------------------------------------
(* What every commit does.                                                 *)

\* The kinds of request and the facts about them that typing gives.
LEMMA RequestType ==
    ASSUME TypeOK, NEW p \in Request
    PROVE  /\ req[p] \in Requests
           /\ seen[p] \in [Slot -> Balances]
           /\ seenReservation[p] \in Reservations
BY DEF TypeOK

\* ReservedIsOnHand in terms of the rows.
LEMMA ReservedRows ==
    /\ ReservedIsOnHand <=> \A s \in Slot : /\ 0 <= balance[s].reserved
                                            /\ balance[s].reserved <= balance[s].onHand
    /\ ReservedIsOnHand' <=> \A s \in Slot : /\ 0 <= balance'[s].reserved
                                             /\ balance'[s].reserved <= balance'[s].onHand
BY DEF ReservedIsOnHand, Ledger!ReservedIsOnHand, StockOnHand, StockReserved

\* The end of p's transaction: p wrote only rows that p held (and a reservation
\* that nobody held, which it made), and the rows are consistent.
Ended(p) ==
    /\ balance' \in [Slot -> Balances]
    /\ ledger' \in [Slot -> Seq(Entries)]
    /\ reservation' \in [Reservation -> Reservations]
    /\ UNCHANGED <<itemActive, locationActive, lapsed>>
    /\ \A s \in Slot : balanceLock[s] # p => balance'[s] = balance[s]
    /\ \A r \in Reservation :
          reservationLock[r] \notin {p, None} => reservation'[r] = reservation[r]
    /\ ReservationsFormed'
    /\ ReservedIsOnHand'
    /\ LedgerExplainsStock'
    /\ Finish(p)

\* A commit is, besides, one posting of the ledger.
Posting(p) == Ended(p) /\ Ledger!LedgerNext

\* One movement of the balance p holds, within what the ledger allows.
LEMMA PostPosts ==
    ASSUME IInv, NEW p \in Request, NEW after \in Nat,
           req[p].kind \in Increases \cup Decreases,
           Post(p, after, None),
           \/ after = Before(p).onHand + req[p].quantity
           \/ after = Before(p).onHand - req[p].quantity /\ Sufficient(p)
    PROVE  Posting(p)
<1> DEFINE s == req[p].slot
           q == req[p].quantity
           e == Entry(req[p].kind, seen[p][s].onHand, after, None)
<1>1. s \in Slot /\ q \in Quantity /\ q \in Nat /\ balanceLock[s] = p /\ seen[p][s] = balance[s]
  BY DEF IInv, Post, RequestsFormed, PostingHoldsBalances, BalancesAsLocked, Quantity
<1>2. balance \in [Slot -> Balances] /\ ledger \in [Slot -> Seq(Entries)]
  BY DEF IInv, TypeOK
<1>3. balance[s].onHand \in Nat /\ balance[s].reserved \in Nat /\ Before(p) = balance[s]
  BY <1>1, <1>2 DEF Balances, Before
<1>4. balance' = OnHand(balance, s, after) /\ ledger' = Entered(ledger, s, e)
  BY DEF Post
<1>5. e \in Entries /\ e.before = balance[s].onHand /\ e.after = after
  <2>1. req[p].kind \in EntryKinds
    BY DEF EntryKinds
  <2> QED  BY <2>1, <1>1, <1>3, EntryFacts
<1> HIDE DEF s, q, e
<1>6. /\ balance' \in [Slot -> Balances]
      /\ balance'[s].onHand = after /\ balance'[s].reserved = balance[s].reserved
      /\ \A t \in Slot \ {s} : balance'[t] = balance[t]
  BY <1>1, <1>2, <1>4, OnHandFacts
<1>7. /\ ledger' \in [Slot -> Seq(Entries)]
      /\ ledger'[s] = Append(ledger[s], e)
      /\ \A t \in Slot \ {s} : ledger'[t] = ledger[t]
  BY <1>1, <1>2, <1>4, <1>5, EnteredFacts
<1>8. LedgerExplainsStock'
  <2> SUFFICES ASSUME NEW t \in Slot PROVE Explains(ledger'[t], balance'[t].onHand)
    BY DEF LedgerExplainsStock
  <2>1. Explains(ledger[t], balance[t].onHand) /\ ledger[t] \in Seq(Entries)
    BY <1>2 DEF IInv, LedgerExplainsStock
  <2>2. CASE t = s
    BY <2>1, <2>2, <1>3, <1>5, <1>6, <1>7, ExplanationGrows
  <2>3. CASE t # s
    BY <2>1, <2>3, <1>6, <1>7
  <2> QED  BY <2>2, <2>3
<1>9. \/ after = balance[s].onHand + q
      \/ after = balance[s].onHand - q /\ q <= balance[s].onHand - balance[s].reserved
  BY <1>3 DEF Sufficient, Available, q
<1>10. ReservedIsOnHand'
  BY <1>1, <1>3, <1>6, <1>9, ReservedRows DEF IInv
<1>11. Ledger!LedgerNext
  <2>1. StockReserved' = StockReserved
    BY <1>6 DEF StockReserved
  <2>2. StockOnHand' = [StockOnHand EXCEPT ![s] = after]
    BY <1>6 DEF StockOnHand
  <2>3. StockOnHand[s] = balance[s].onHand /\ StockReserved[s] = balance[s].reserved
    BY <1>1 DEF StockOnHand, StockReserved
  <2>4. Ledger!Receive(s, q) \/ Ledger!Take(s, q)
    BY <1>9, <2>1, <2>2, <2>3 DEF Ledger!Receive, Ledger!Take, Ledger!Free
  <2> QED  BY <1>1, <2>4 DEF Ledger!LedgerNext
<1>12. reservation' = reservation /\ UNCHANGED <<itemActive, locationActive, lapsed>> /\ Finish(p)
  BY DEF Post
<1>13. ReservationsFormed' /\ reservation' \in [Reservation -> Reservations]
  BY <1>12 DEF IInv, TypeOK, ReservationsFormed
<1> QED  BY <1>1, <1>6, <1>7, <1>8, <1>10, <1>11, <1>12, <1>13 DEF Posting, Ended

\* The commit of transfer_stock: two movements, in one ledger each, and the two balances they explain.
LEMMA TransferPosts ==
    ASSUME IInv, NEW p \in Request, TransferStock(p)
    PROVE  Posting(p)
<1> DEFINE s == req[p].slot
           d == req[p].dest
           q == req[p].quantity
           left == balance[s].onHand - q
           more == balance[d].onHand + q
           out == Entry("transfer_out", balance[s].onHand, left, None)
           in == Entry("transfer_in", balance[d].onHand, more, None)
           b == OnHand(balance, s, left)
           l == Entered(ledger, s, out)
<1>1. /\ s \in Slot /\ d \in Slot /\ s # d /\ q \in Quantity /\ q \in Nat
      /\ balanceLock[s] = p /\ balanceLock[d] = p
      /\ seen[p][s] = balance[s] /\ seen[p][d] = balance[d]
  BY DEF IInv, TransferStock, RequestsFormed, PostingHoldsBalances, BalancesAsLocked, Quantity
<1>2. balance \in [Slot -> Balances] /\ ledger \in [Slot -> Seq(Entries)]
  BY DEF IInv, TypeOK
<1>3. /\ balance[s].onHand \in Nat /\ balance[s].reserved \in Nat
      /\ balance[d].onHand \in Nat /\ balance[d].reserved \in Nat
  BY <1>1, <1>2 DEF Balances
<1>4. balance' = OnHand(b, d, more) /\ ledger' = Entered(l, d, in)
  BY <1>1 DEF TransferStock, Before, Transferred
<1>5. q <= balance[s].onHand - balance[s].reserved
  BY <1>1 DEF TransferStock, Sufficient, Before, Available
<1>6. left \in Nat /\ more \in Nat
  BY <1>1, <1>3, <1>5
<1>7. /\ out \in Entries /\ out.before = balance[s].onHand /\ out.after = left
      /\ in \in Entries /\ in.before = balance[d].onHand /\ in.after = more
  <2>1. "transfer_out" \in EntryKinds /\ "transfer_in" \in EntryKinds
    BY DEF EntryKinds
  <2> QED  BY <2>1, <1>3, <1>6, EntryFacts
<1>8. /\ b \in [Slot -> Balances] /\ b[s].onHand = left /\ b[s].reserved = balance[s].reserved
      /\ \A t \in Slot \ {s} : b[t] = balance[t]
  BY <1>1, <1>2, <1>6, OnHandFacts
<1>9. /\ l \in [Slot -> Seq(Entries)] /\ l[s] = Append(ledger[s], out)
      /\ \A t \in Slot \ {s} : l[t] = ledger[t]
  BY <1>1, <1>2, <1>7, EnteredFacts
<1> HIDE DEF s, d, q, out, in, b, l
<1>10. /\ balance' \in [Slot -> Balances]
       /\ balance'[s].onHand = left /\ balance'[s].reserved = balance[s].reserved
       /\ balance'[d].onHand = more /\ balance'[d].reserved = balance[d].reserved
       /\ \A t \in Slot \ {s, d} : balance'[t] = balance[t]
  <2>1. /\ OnHand(b, d, more) \in [Slot -> Balances]
        /\ OnHand(b, d, more)[d].onHand = more
        /\ OnHand(b, d, more)[d].reserved = b[d].reserved
        /\ \A t \in Slot \ {d} : OnHand(b, d, more)[t] = b[t]
    BY <1>1, <1>6, <1>8, OnHandFacts
  <2> QED  BY <2>1, <1>1, <1>4, <1>8
<1>11. /\ ledger' \in [Slot -> Seq(Entries)]
       /\ ledger'[s] = Append(ledger[s], out) /\ ledger'[d] = Append(ledger[d], in)
       /\ \A t \in Slot \ {s, d} : ledger'[t] = ledger[t]
  <2>1. /\ Entered(l, d, in) \in [Slot -> Seq(Entries)]
        /\ Entered(l, d, in)[d] = Append(l[d], in)
        /\ \A t \in Slot \ {d} : Entered(l, d, in)[t] = l[t]
    BY <1>1, <1>7, <1>9, EnteredFacts
  <2> QED  BY <2>1, <1>1, <1>4, <1>9
<1>12. LedgerExplainsStock'
  <2> SUFFICES ASSUME NEW t \in Slot PROVE Explains(ledger'[t], balance'[t].onHand)
    BY DEF LedgerExplainsStock
  <2>1. Explains(ledger[t], balance[t].onHand) /\ ledger[t] \in Seq(Entries)
    BY <1>2 DEF IInv, LedgerExplainsStock
  <2>2. CASE t = s
    BY <2>1, <2>2, <1>3, <1>7, <1>10, <1>11, ExplanationGrows
  <2>3. CASE t = d
    BY <2>1, <2>3, <1>3, <1>7, <1>10, <1>11, ExplanationGrows
  <2>4. CASE t \notin {s, d}
    BY <2>1, <2>4, <1>10, <1>11
  <2> QED  BY <2>2, <2>3, <2>4
<1>13. ReservedIsOnHand'
  <2>1. \A t \in Slot : 0 <= balance[t].reserved /\ balance[t].reserved <= balance[t].onHand
    BY ReservedRows DEF IInv
  <2> SUFFICES ASSUME NEW t \in Slot
               PROVE 0 <= balance'[t].reserved /\ balance'[t].reserved <= balance'[t].onHand
    BY ReservedRows
  <2>2. CASE t = s
    BY <2>1, <2>2, <1>1, <1>3, <1>5, <1>10
  <2>3. CASE t = d
    BY <2>1, <2>3, <1>1, <1>3, <1>10
  <2>4. CASE t \notin {s, d}
    BY <2>1, <2>4, <1>10
  <2> QED  BY <2>2, <2>3, <2>4
<1>14. Ledger!LedgerNext
  <2>1. StockReserved' = StockReserved
    BY <1>10 DEF StockReserved
  <2>2. StockOnHand' = [StockOnHand EXCEPT ![s] = left, ![d] = more]
    BY <1>10 DEF StockOnHand
  <2>3. /\ StockOnHand[s] = balance[s].onHand /\ StockReserved[s] = balance[s].reserved
        /\ StockOnHand[d] = balance[d].onHand
    BY <1>1 DEF StockOnHand, StockReserved
  <2>4. StockOnHand' = [StockOnHand EXCEPT ![s] = @ - q, ![d] = @ + q]
    BY <2>2, <2>3, <1>1
  <2>5. Ledger!Move(s, d, q)
    BY <1>1, <1>5, <2>1, <2>3, <2>4 DEF Ledger!Move, Ledger!Free
  <2> QED  BY <1>1, <2>5 DEF Ledger!LedgerNext
<1>15. reservation' = reservation /\ UNCHANGED <<itemActive, locationActive, lapsed>> /\ Finish(p)
  BY DEF TransferStock
<1>16. ReservationsFormed' /\ reservation' \in [Reservation -> Reservations]
  BY <1>15 DEF IInv, TypeOK, ReservationsFormed
<1> QED  BY <1>1, <1>10, <1>11, <1>12, <1>13, <1>14, <1>15, <1>16 DEF Posting, Ended

\* The rows a commit writes to a reservation.
LEMMA ReservationRowFacts ==
    ASSUME NEW row \in Reservations, NEW q \in Nat
    PROVE  /\ Consumed(row, q) \in Reservations
           /\ Consumed(row, q).consumed = row.consumed + q
           /\ Consumed(row, q).quantity = row.quantity
           /\ Consumed(row, q).slot = row.slot
           /\ Released(row) \in Reservations
           /\ Released(row).consumed = row.consumed
           /\ Released(row).quantity = row.quantity
           /\ Released(row).slot = row.slot
BY DEF Consumed, Released, Reservations

\* The commit of create_reservation: stock that was available becomes reserved.
LEMMA ReservePosts ==
    ASSUME IInv, NEW p \in Request, NEW r \in Reservation, CreateReservation(p, r)
    PROVE  Posting(p)
<1> DEFINE s == req[p].slot
           q == req[p].quantity
           row == [status |-> "active", slot |-> s, quantity |-> q, consumed |-> 0]
           n == balance[s].reserved + q
<1>1. s \in Slot /\ q \in Quantity /\ q \in Nat /\ balanceLock[s] = p /\ seen[p][s] = balance[s]
  BY DEF IInv, CreateReservation, RequestsFormed, PostingHoldsBalances, BalancesAsLocked, Quantity
<1>2. balance \in [Slot -> Balances] /\ reservation \in [Reservation -> Reservations]
  BY DEF IInv, TypeOK
<1>3. balance[s].onHand \in Nat /\ balance[s].reserved \in Nat /\ n \in Nat
  BY <1>1, <1>2 DEF Balances
<1>4. balance' = Reserving(balance, s, n) /\ q <= balance[s].onHand - balance[s].reserved
  BY <1>1 DEF CreateReservation, Sufficient, Before, Available
<1>5. reservation' = [reservation EXCEPT ![r] = row] /\ reservation[r].status = "none"
  BY DEF CreateReservation
<1>6. row \in Reservations
  BY <1>1 DEF Reservations
<1>7. reservation' \in [Reservation -> Reservations] /\ ReservationsFormed'
  <2>1. ReservationsFormed
    BY DEF IInv
  <2> QED  BY <1>1, <1>2, <1>5, <1>6, <2>1 DEF ReservationsFormed
<1>8. \A x \in Reservation : reservationLock[x] \notin {p, None} => reservation'[x] = reservation[x]
  <2>1. \A x \in Reservation : reservationLock[x] # None => reservation[x].status # "none"
    <3> SUFFICES ASSUME NEW x \in Reservation, reservationLock[x] # None
                 PROVE  reservation[x].status # "none"
      OBVIOUS
    <3>1. reservationLock[x] \in Request
      BY DEF IInv, TypeOK
    <3> QED  BY <3>1 DEF IInv, ReservationsAsLocked, Open
  <2> QED  BY <2>1, <1>2, <1>5
<1> HIDE DEF s, q, row
<1>9. /\ balance' \in [Slot -> Balances]
      /\ balance'[s].reserved = n /\ balance'[s].onHand = balance[s].onHand
      /\ \A t \in Slot \ {s} : balance'[t] = balance[t]
  BY <1>1, <1>2, <1>3, <1>4, ReservingFacts
<1>10. ledger' = ledger /\ UNCHANGED <<itemActive, locationActive, lapsed>> /\ Finish(p)
  BY DEF CreateReservation
<1>11. LedgerExplainsStock' /\ ledger' \in [Slot -> Seq(Entries)]
  <2>1. LedgerExplainsStock /\ ledger \in [Slot -> Seq(Entries)]
    BY DEF IInv, TypeOK
  <2> QED  BY <2>1, <1>9, <1>10 DEF LedgerExplainsStock
<1>12. ReservedIsOnHand'
  <2>1. ReservedIsOnHand
    BY DEF IInv
  <2> QED  BY <2>1, <1>1, <1>3, <1>4, <1>9, ReservedRows
<1>13. Ledger!LedgerNext
  <2>1. StockOnHand' = StockOnHand
    BY <1>9 DEF StockOnHand
  <2>2. StockReserved' = [StockReserved EXCEPT ![s] = n]
    BY <1>9 DEF StockReserved
  <2>3. StockOnHand[s] = balance[s].onHand /\ StockReserved[s] = balance[s].reserved
    BY <1>1 DEF StockOnHand, StockReserved
  <2>4. Ledger!Reserve(s, q)
    BY <1>4, <2>1, <2>2, <2>3 DEF Ledger!Reserve, Ledger!Free
  <2> QED  BY <1>1, <2>4 DEF Ledger!LedgerNext
<1> QED  BY <1>1, <1>7, <1>8, <1>9, <1>10, <1>11, <1>12, <1>13 DEF Posting, Ended

\* The commit of consume_reservation: reserved stock leaves with its reservation.
LEMMA ConsumePosts ==
    ASSUME IInv, NEW p \in Request, ConsumeReservation(p)
    PROVE  Posting(p)
<1> DEFINE s == req[p].slot
           r == req[p].target
           q == req[p].quantity
           row == Consumed(reservation[r], q)
           left == balance[s].onHand - q
           n == balance[s].reserved - q
           e == Entry("issue", balance[s].onHand, left, r)
           b == OnHand(balance, s, left)
<1>1. /\ s \in Slot /\ q \in Quantity /\ q \in Nat /\ balanceLock[s] = p
      /\ seen[p][s] = balance[s]
  BY DEF IInv, ConsumeReservation, RequestsFormed, PostingHoldsBalances, BalancesAsLocked, Quantity
<1>2. /\ r \in Reservation /\ reservationLock[r] = p /\ q <= Left(reservation[r])
      /\ seenReservation[p] = reservation[r] /\ Open(r)
  BY DEF IInv, ConsumeReservation, RequestsFormed, ReservationsAsLocked, OnReservations
<1>3. /\ balance \in [Slot -> Balances] /\ ledger \in [Slot -> Seq(Entries)]
      /\ reservation \in [Reservation -> Reservations]
  BY DEF IInv, TypeOK
<1>4. balance[s].onHand \in Nat /\ balance[s].reserved \in Nat
  BY <1>1, <1>3 DEF Balances
<1>5. /\ balance' = Reserving(b, s, n) /\ ledger' = Entered(ledger, s, e)
      /\ reservation' = [reservation EXCEPT ![r] = row]
      /\ q <= balance[s].reserved /\ q <= balance[s].onHand
  BY <1>1, <1>2 DEF ConsumeReservation, Before
<1>6. left \in Nat /\ n \in Nat
  BY <1>1, <1>4, <1>5
<1>7. e \in Entries /\ e.before = balance[s].onHand /\ e.after = left
  <2>1. "issue" \in EntryKinds
    BY DEF EntryKinds, Decreases
  <2> QED  BY <2>1, <1>2, <1>4, <1>6, EntryFacts
<1>8. /\ row \in Reservations /\ row.slot = reservation[r].slot
      /\ row.quantity = reservation[r].quantity /\ row.consumed = reservation[r].consumed + q
  BY <1>1, <1>2, <1>3, ReservationRowFacts
<1>9. reservation' \in [Reservation -> Reservations] /\ ReservationsFormed'
  <2>1. /\ reservation[r].slot \in Slot /\ reservation[r].quantity \in Quantity
        /\ row.consumed <= row.quantity
    <3>1. reservation[r].quantity \in Nat /\ reservation[r].consumed \in Nat
      BY <1>2, <1>3 DEF Reservations
    <3> QED  BY <3>1, <1>1, <1>2, <1>8 DEF IInv, ReservationsFormed, Open, Left
  <2>2. ReservationsFormed
    BY DEF IInv
  <2> HIDE DEF row
  <2>3. reservation' \in [Reservation -> Reservations]
    BY <1>2, <1>3, <1>5, <1>8
  <2>4. \A x \in Reservation : reservation'[x] = IF x = r THEN row ELSE reservation[x]
    BY <1>3, <1>5
  <2> QED  BY <1>8, <2>1, <2>2, <2>3, <2>4 DEF ReservationsFormed
<1>10. \A x \in Reservation : reservationLock[x] \notin {p, None} => reservation'[x] = reservation[x]
  BY <1>2, <1>3, <1>5
<1> HIDE DEF s, q, r, e, row
<1>11. /\ balance' \in [Slot -> Balances]
       /\ balance'[s].onHand = left /\ balance'[s].reserved = n
       /\ \A t \in Slot \ {s} : balance'[t] = balance[t]
  <2>1. /\ b \in [Slot -> Balances] /\ b[s].onHand = left
        /\ \A t \in Slot \ {s} : b[t] = balance[t]
    BY <1>1, <1>3, <1>6, OnHandFacts
  <2> HIDE DEF b
  <2>2. /\ Reserving(b, s, n) \in [Slot -> Balances]
        /\ Reserving(b, s, n)[s].onHand = b[s].onHand
        /\ Reserving(b, s, n)[s].reserved = n
        /\ \A t \in Slot \ {s} : Reserving(b, s, n)[t] = b[t]
    BY <1>1, <1>6, <2>1, ReservingFacts
  <2> QED  BY <2>1, <2>2, <1>5
<1>12. /\ ledger' \in [Slot -> Seq(Entries)]
       /\ ledger'[s] = Append(ledger[s], e)
       /\ \A t \in Slot \ {s} : ledger'[t] = ledger[t]
  <2>1. ledger \in [Slot -> Seq(Entries)] /\ s \in Slot /\ e \in Entries
    BY <1>1, <1>3, <1>7
  <2>2. /\ Entered(ledger, s, e) \in [Slot -> Seq(Entries)]
        /\ Entered(ledger, s, e)[s] = Append(ledger[s], e)
        /\ \A t \in Slot \ {s} : Entered(ledger, s, e)[t] = ledger[t]
    BY <2>1, EnteredFacts, ZenonT(30)
  <2> QED  BY <1>5, <2>2
<1>13. LedgerExplainsStock'
  <2> SUFFICES ASSUME NEW t \in Slot PROVE Explains(ledger'[t], balance'[t].onHand)
    BY DEF LedgerExplainsStock
  <2>1. Explains(ledger[t], balance[t].onHand) /\ ledger[t] \in Seq(Entries)
    BY <1>3 DEF IInv, LedgerExplainsStock
  <2>2. CASE t = s
    BY <2>1, <2>2, <1>4, <1>7, <1>11, <1>12, ExplanationGrows
  <2>3. CASE t # s
    BY <2>1, <2>3, <1>11, <1>12
  <2> QED  BY <2>2, <2>3
<1>14. ReservedIsOnHand'
  <2>1. ReservedIsOnHand
    BY DEF IInv
  <2> QED  BY <2>1, <1>1, <1>4, <1>5, <1>11, ReservedRows
<1>15. Ledger!LedgerNext
  <2>1. StockOnHand' = [StockOnHand EXCEPT ![s] = left]
    BY <1>11 DEF StockOnHand
  <2>2. StockReserved' = [StockReserved EXCEPT ![s] = n]
    BY <1>11 DEF StockReserved
  <2>3. StockOnHand[s] = balance[s].onHand /\ StockReserved[s] = balance[s].reserved
    BY <1>1 DEF StockOnHand, StockReserved
  <2>4. Ledger!Consume(s, q)
    BY <1>5, <2>1, <2>2, <2>3 DEF Ledger!Consume
  <2> QED  BY <1>1, <2>4 DEF Ledger!LedgerNext
<1>16. UNCHANGED <<itemActive, locationActive, lapsed>> /\ Finish(p)
  BY DEF ConsumeReservation
<1> QED  BY <1>1, <1>9, <1>10, <1>11, <1>12, <1>13, <1>14, <1>15, <1>16 DEF Posting, Ended

\* The commit of release_reservation: the remaining stock becomes available again.
LEMMA ReleasePosts ==
    ASSUME IInv, NEW p \in Request, ReleaseReservation(p)
    PROVE  Posting(p)
<1> DEFINE s == req[p].slot
           r == req[p].target
           q == req[p].quantity
           row == Released(reservation[r])
           n == balance[s].reserved - q
<1>1. /\ s \in Slot /\ q \in Quantity /\ q \in Nat /\ balanceLock[s] = p
      /\ seen[p][s] = balance[s]
  BY DEF IInv, ReleaseReservation, RequestsFormed, PostingHoldsBalances, BalancesAsLocked, Quantity
<1>2. r \in Reservation /\ reservationLock[r] = p /\ Open(r)
  BY DEF IInv, ReleaseReservation, RequestsFormed, ReservationsAsLocked, OnReservations
<1>3. /\ balance \in [Slot -> Balances] /\ reservation \in [Reservation -> Reservations]
  BY DEF IInv, TypeOK
<1>4. balance[s].onHand \in Nat /\ balance[s].reserved \in Nat
  BY <1>1, <1>3 DEF Balances
<1>5. /\ balance' = Reserving(balance, s, n) /\ reservation' = [reservation EXCEPT ![r] = row]
      /\ q <= balance[s].reserved
  BY <1>1, <1>3 DEF ReleaseReservation, Before
<1>6. n \in Nat
  BY <1>1, <1>4, <1>5
<1>7. /\ row \in Reservations /\ row.slot = reservation[r].slot
      /\ row.quantity = reservation[r].quantity /\ row.consumed = reservation[r].consumed
  BY <1>1, <1>2, <1>3, ReservationRowFacts
<1> HIDE DEF s, q, r, row
<1>8. reservation' \in [Reservation -> Reservations] /\ ReservationsFormed'
  <2>1. ReservationsFormed
    BY DEF IInv
  <2>2. reservation' \in [Reservation -> Reservations]
    BY <1>2, <1>3, <1>5, <1>7
  <2>3. \A x \in Reservation : reservation'[x] = IF x = r THEN row ELSE reservation[x]
    BY <1>3, <1>5
  <2> QED  BY <1>2, <1>7, <2>1, <2>2, <2>3 DEF ReservationsFormed, Open
<1>9. \A x \in Reservation : reservationLock[x] \notin {p, None} => reservation'[x] = reservation[x]
  BY <1>2, <1>3, <1>5
<1>10. /\ balance' \in [Slot -> Balances]
       /\ balance'[s].onHand = balance[s].onHand /\ balance'[s].reserved = n
       /\ \A t \in Slot \ {s} : balance'[t] = balance[t]
  BY <1>1, <1>3, <1>5, <1>6, ReservingFacts
<1>11. ledger' = ledger /\ UNCHANGED <<itemActive, locationActive, lapsed>> /\ Finish(p)
  BY DEF ReleaseReservation
<1>12. LedgerExplainsStock' /\ ledger' \in [Slot -> Seq(Entries)]
  <2>1. LedgerExplainsStock /\ ledger \in [Slot -> Seq(Entries)]
    BY DEF IInv, TypeOK
  <2> QED  BY <2>1, <1>10, <1>11 DEF LedgerExplainsStock
<1>13. ReservedIsOnHand'
  <2>1. ReservedIsOnHand
    BY DEF IInv
  <2> QED  BY <2>1, <1>1, <1>4, <1>5, <1>10, ReservedRows
<1>14. Ledger!LedgerNext
  <2>1. StockOnHand' = StockOnHand
    BY <1>10 DEF StockOnHand
  <2>2. StockReserved' = [StockReserved EXCEPT ![s] = n]
    BY <1>10 DEF StockReserved
  <2>3. StockReserved[s] = balance[s].reserved
    BY <1>1 DEF StockReserved
  <2>4. Ledger!Release(s, q)
    BY <1>5, <2>1, <2>2, <2>3 DEF Ledger!Release
  <2> QED  BY <1>1, <2>4 DEF Ledger!LedgerNext
<1> QED  BY <1>1, <1>8, <1>9, <1>10, <1>11, <1>12, <1>13, <1>14 DEF Posting, Ended

\* Every commit is a posting.
LEMMA CommitPosts ==
    ASSUME IInv, NEW p \in Request, Commit(p)
    PROVE  Posting(p)
<1>1. ASSUME req[p].phase = "posting"
      PROVE  /\ Before(p).onHand \in Nat /\ Before(p).reserved \in Nat /\ req[p].quantity \in Nat
  <2>1. req[p].slot \in Slot /\ req[p].quantity \in Nat
    BY <1>1 DEF IInv, RequestsFormed, Quantity
  <2>2. seen[p] \in [Slot -> Balances]
    BY DEF IInv, TypeOK
  <2> QED  BY <2>1, <2>2 DEF Before, Balances
<1>2. CASE ReceiveStock(p) \/ ReturnStock(p) \/ AdjustIn(p) \/ OpeningBalance(p)
  <2> DEFINE after == Before(p).onHand + req[p].quantity
  <2>1. Post(p, after, None) /\ req[p].kind \in Increases \cup Decreases
    BY <1>2 DEF ReceiveStock, ReturnStock, AdjustIn, OpeningBalance, Increases
  <2>2. after \in Nat
    BY <1>1, <2>1 DEF Post
  <2> QED  BY <2>1, <2>2, PostPosts
<1>3. CASE IssueStock(p) \/ AdjustOut(p)
  <2> DEFINE after == Before(p).onHand - req[p].quantity
  <2>1. Post(p, after, None) /\ req[p].kind \in Increases \cup Decreases /\ Sufficient(p)
    BY <1>3 DEF IssueStock, AdjustOut, Decreases
  <2>2. after \in Nat
    BY <1>1, <2>1 DEF Post, Sufficient, Available
  <2> QED  BY <2>1, <2>2, PostPosts
<1>4. CASE TransferStock(p)
  BY <1>4, TransferPosts
<1>5. CASE \E r \in Reservation : CreateReservation(p, r)
  BY <1>5, ReservePosts
<1>6. CASE ConsumeReservation(p)
  BY <1>6, ConsumePosts
<1>7. CASE ReleaseReservation(p)
  BY <1>7, ReleasePosts
<1> QED  BY <1>2, <1>3, <1>4, <1>5, <1>6, <1>7 DEF Commit

-----------------------------------------------------------------------------
(* The steps preserve the invariant.                                       *)

\* None is no request.
LEMMA NoneApart == None \notin Request
BY InventoryAssumption

\* The values of a request that is idle are well typed.
LEMMA NothingTypes ==
    /\ NoRequest \in Requests /\ NothingSeen \in [Slot -> Balances]
    /\ NoReservation \in Reservations
    /\ NoRequest.phase = "idle"
BY DEF NoRequest, Requests, NothingSeen, NoBalance, Balances, NoReservation, Reservations

\* The end of a transaction keeps every part of the invariant that the rows do not decide.
LEMMA EndPreserves ==
    ASSUME IInv, NEW p \in Request, Ended(p)
    PROVE  IInv'
<1>1. /\ balanceLock \in [Slot -> Request \cup {None}]
      /\ reservationLock \in [Reservation -> Request \cup {None}]
      /\ req \in [Request -> Requests]
      /\ seen \in [Request -> [Slot -> Balances]]
      /\ seenReservation \in [Request -> Reservations]
  BY DEF IInv, TypeOK
<1>2. /\ balanceLock' \in [Slot -> Request \cup {None}]
      /\ reservationLock' \in [Reservation -> Request \cup {None}]
      /\ \A s \in Slot : balanceLock'[s] = IF balanceLock[s] = p THEN None ELSE balanceLock[s]
      /\ \A r \in Reservation :
            reservationLock'[r] = IF reservationLock[r] = p THEN None ELSE reservationLock[r]
  BY <1>1 DEF Ended, Finish
<1>3. /\ req' \in [Request -> Requests] /\ seen' \in [Request -> [Slot -> Balances]]
      /\ seenReservation' \in [Request -> Reservations]
      /\ req'[p].phase = "idle"
      /\ \A x \in Request \ {p} : /\ req'[x] = req[x] /\ seen'[x] = seen[x]
                                   /\ seenReservation'[x] = seenReservation[x]
  BY <1>1, NothingTypes DEF Ended, Finish
<1>4. TypeOK'
  BY <1>2, <1>3 DEF Ended, IInv, TypeOK
<1>5. RequestsFormed'
  <2> SUFFICES ASSUME NEW x \in Request \ {p}
               PROVE /\ req[x].phase \in {"locking", "posting"} =>
                          /\ req[x].slot \in Slot /\ req[x].quantity \in Quantity
                          /\ req[x].kind = "transfer" => (req[x].dest \in Slot /\ req[x].dest # req[x].slot)
                          /\ req[x].kind # "transfer" => req[x].dest = None
                          /\ req[x].kind \in OnReservations =>
                                /\ req[x].target \in Reservation
                                /\ reservationLock'[req[x].target] = x
                                /\ req[x].slot = reservation'[req[x].target].slot
                                /\ req[x].quantity <= Left(reservation'[req[x].target])
                     /\ req[x].phase = "reservation" =>
                          /\ req[x].target \in Reservation
                          /\ req[x].kind \in OnReservations
                          /\ req[x].dest = None
    BY <1>3 DEF RequestsFormed, Left
  <2>1. RequestsFormed
    BY DEF IInv
  <2>2. \A r \in Reservation : reservationLock[r] = x =>
            reservationLock'[r] = x /\ reservation'[r] = reservation[r]
    BY <1>2, NoneApart DEF Ended
  <2> QED  BY <2>1, <2>2 DEF RequestsFormed
<1>6. PostingHoldsBalances'
  <2> SUFFICES ASSUME NEW x \in Request \ {p}, req[x].phase = "posting"
               PROVE  /\ balanceLock'[req[x].slot] = x
                      /\ req[x].kind = "transfer" => balanceLock'[req[x].dest] = x
    BY <1>3 DEF PostingHoldsBalances
  <2>1. /\ balanceLock[req[x].slot] = x /\ req[x].slot \in Slot
        /\ req[x].kind = "transfer" => balanceLock[req[x].dest] = x /\ req[x].dest \in Slot
    BY DEF IInv, PostingHoldsBalances, RequestsFormed
  <2> QED  BY <2>1, <1>2
<1>7. BalancesAsLocked'
  <2> SUFFICES ASSUME NEW x \in Request, NEW s \in Slot, balanceLock'[s] = x
               PROVE  seen'[x][s] = balance'[s]
    BY DEF BalancesAsLocked
  <2>1. balanceLock[s] = x /\ x # p
    BY <1>2, NoneApart
  <2> QED  BY <2>1, <1>3 DEF IInv, BalancesAsLocked, Ended
<1>8. ReservationsAsLocked'
  <2> SUFFICES ASSUME NEW x \in Request, NEW r \in Reservation, reservationLock'[r] = x
               PROVE  /\ reservation'[r].status \in {"active", "partially_consumed"}
                      /\ seenReservation'[x] = reservation'[r]
                      /\ req'[x].phase \in {"locking", "posting"}
    BY DEF ReservationsAsLocked, Open
  <2>1. reservationLock[r] = x /\ x # p
    BY <1>2, NoneApart
  <2>2. /\ reservation'[r] = reservation[r] /\ seenReservation'[x] = seenReservation[x]
        /\ req'[x] = req[x]
    BY <2>1, <1>3, NoneApart DEF Ended
  <2> QED  BY <2>1, <2>2 DEF IInv, ReservationsAsLocked, Open
<1> QED  BY <1>4, <1>5, <1>6, <1>7, <1>8 DEF IInv, Ended

\* A rollback only ends the transaction.
LEMMA RollBackEnds ==
    ASSUME IInv, NEW p \in Request, RollBack(p)
    PROVE  Ended(p)
<1>1. UNCHANGED rows /\ Finish(p)
  BY DEF RollBack
<1>2. ReservationsFormed' /\ LedgerExplainsStock'
  BY <1>1 DEF IInv, ReservationsFormed, LedgerExplainsStock, rows
<1>3. ReservedIsOnHand'
  BY <1>1, ReservedRows DEF IInv, rows
<1> QED  BY <1>1, <1>2, <1>3 DEF Ended, IInv, TypeOK, rows

LEMMA AskedAreKinds == Asked \subseteq Kinds
BY InventoryAssumption DEF Kinds, Increases, Decreases, OnReservations

\* A request that began holds nothing yet.
LEMMA BeginPreserves ==
    ASSUME IInv, NEW p \in Request, Begin(p)
    PROVE  IInv' /\ UNCHANGED rows
<1>1. PICK new \in Requests :
         /\ req' = [req EXCEPT ![p] = new]
         /\ new.phase \in {"locking", "reservation"}
         /\ new.phase = "locking" =>
               /\ new.slot \in Slot /\ new.quantity \in Quantity
               /\ new.kind = "transfer" => (new.dest \in Slot /\ new.dest # new.slot)
               /\ new.kind # "transfer" => new.dest = None
               /\ new.kind \notin OnReservations
         /\ new.phase = "reservation" =>
               /\ new.target \in Reservation /\ new.kind \in OnReservations
               /\ new.dest = None
         /\ UNCHANGED <<rows, locks, seen, seenReservation>>
  <2>1. ASSUME NEW q \in Quantity, NEW k \in Asked \ ({"transfer"} \cup OnReservations),
               NEW s \in Slot, BeginStock(p, k, s, q)
        PROVE  /\ StockRequest(k, s, q) \in Requests
               /\ req' = [req EXCEPT ![p] = StockRequest(k, s, q)]
               /\ UNCHANGED <<rows, locks, seen, seenReservation>>
    BY <2>1, AskedAreKinds DEF BeginStock, StockRequest, Requests, Quantity
  <2>2. ASSUME NEW q \in Quantity, NEW s \in Slot, NEW d \in Slot, BeginTransfer(p, s, d, q)
        PROVE  /\ TransferRequest(s, d, q) \in Requests
               /\ s # d
               /\ req' = [req EXCEPT ![p] = TransferRequest(s, d, q)]
               /\ UNCHANGED <<rows, locks, seen, seenReservation>>
    BY <2>2 DEF BeginTransfer, TransferRequest, Requests, Kinds, Quantity
  <2>3. ASSUME NEW q \in Quantity \cup {0}, NEW k \in Asked \cap OnReservations,
               NEW r \in Reservation, BeginOnReservation(p, k, r, q)
        PROVE  /\ ReservationRequest(k, r, q, r \in lapsed) \in Requests
               /\ req' = [req EXCEPT ![p] = ReservationRequest(k, r, q, r \in lapsed)]
               /\ UNCHANGED <<rows, locks, seen, seenReservation>>
    BY <2>3 DEF BeginOnReservation, ReservationRequest, Requests, Kinds, Quantity
  <2>4. CASE \E q \in Quantity, k \in Asked \ ({"transfer"} \cup OnReservations), s \in Slot :
                BeginStock(p, k, s, q)
    <3>1. PICK q \in Quantity, k \in Asked \ ({"transfer"} \cup OnReservations), s \in Slot :
                BeginStock(p, k, s, q)
      BY <2>4
    <3> QED  BY <2>1, <3>1 DEF StockRequest
  <2>5. CASE \E q \in Quantity, s \in Slot, d \in Slot : BeginTransfer(p, s, d, q)
    <3>1. PICK q \in Quantity, s \in Slot, d \in Slot : BeginTransfer(p, s, d, q)
      BY <2>5
    <3> QED  BY <2>2, <3>1 DEF TransferRequest, OnReservations
  <2>6. CASE \E q \in Quantity \cup {0}, k \in Asked \cap OnReservations, r \in Reservation :
                BeginOnReservation(p, k, r, q)
    <3>1. PICK q \in Quantity \cup {0}, k \in Asked \cap OnReservations, r \in Reservation :
                BeginOnReservation(p, k, r, q)
      BY <2>6
    <3> QED  BY <2>3, <3>1 DEF ReservationRequest
  <2> QED  BY <2>4, <2>5, <2>6 DEF Begin
<1>2. req' \in [Request -> Requests] /\ req'[p] = new /\ \A x \in Request \ {p} : req'[x] = req[x]
  BY <1>1 DEF IInv, TypeOK
<1>3. UNCHANGED rows /\ UNCHANGED <<balanceLock, reservationLock, seen, seenReservation>>
  BY <1>1 DEF locks
<1>4. TypeOK'
  BY <1>2, <1>3 DEF IInv, TypeOK, rows
<1>5. RequestsFormed'
  BY <1>1, <1>2, <1>3 DEF IInv, RequestsFormed, rows, Left
<1>6. PostingHoldsBalances'
  BY <1>1, <1>2, <1>3 DEF IInv, PostingHoldsBalances
<1>7. BalancesAsLocked' /\ ReservationsFormed' /\ LedgerExplainsStock'
  BY <1>3 DEF IInv, BalancesAsLocked, ReservationsFormed, LedgerExplainsStock, rows
<1>9. ReservationsAsLocked'
  <2>1. req[p].phase = "idle"
    BY DEF Begin, BeginStock, BeginTransfer, BeginOnReservation
  <2> QED  BY <2>1, <1>2, <1>3 DEF IInv, ReservationsAsLocked, Open, rows
<1>8. ReservedIsOnHand'
  BY <1>3, ReservedRows DEF IInv, rows
<1> QED  BY <1>3, <1>4, <1>5, <1>6, <1>7, <1>8, <1>9 DEF IInv

\* A reservation is locked as it is, for no more than is left of it.
LEMMA LockReservationPreserves ==
    ASSUME IInv, NEW p \in Request, LockReservation(p)
    PROVE  IInv' /\ UNCHANGED rows
<1> DEFINE r == req[p].target
<1>1. r \in Reservation /\ req[p].kind \in OnReservations /\ req[p].phase = "reservation"
  BY DEF IInv, RequestsFormed, LockReservation
<1>0. req[p].kind # "transfer" /\ req[p].dest = None
  BY <1>1 DEF IInv, RequestsFormed, OnReservations
<1>2. PICK q \in 1 .. Left(reservation[r]) :
         /\ req' = [req EXCEPT ![p].phase = "locking", ![p].slot = reservation[r].slot,
                               ![p].quantity = q]
  BY DEF LockReservation
<1>3. /\ reservationLock[r] = None /\ Open(r)
      /\ reservationLock' = [reservationLock EXCEPT ![r] = p]
      /\ seenReservation' = [seenReservation EXCEPT ![p] = reservation[r]]
      /\ UNCHANGED rows /\ UNCHANGED <<balanceLock, seen>>
  BY DEF LockReservation, ReservationFree
<1>4. /\ reservation[r] \in Reservations /\ reservation[r].slot \in Slot
      /\ reservation[r].quantity \in Quantity
  BY <1>1, <1>3 DEF IInv, TypeOK, ReservationsFormed, Open
<1>5. q \in Quantity /\ q \in Nat
  BY <1>4, InventoryAssumption DEF Left, Quantity, Reservations
<1>6. req \in [Request -> Requests]
  BY DEF IInv, TypeOK
<1>7. /\ req' \in [Request -> Requests]
      /\ req'[p].phase = "locking" /\ req'[p].slot = reservation[r].slot /\ req'[p].quantity = q
      /\ req'[p].kind = req[p].kind /\ req'[p].target = r /\ req'[p].dest = req[p].dest
      /\ \A x \in Request \ {p} : req'[x] = req[x]
  BY <1>2, <1>4, <1>5, <1>6, ZenonT(60) DEF Requests
<1> HIDE DEF r
<1>8. /\ reservationLock' \in [Reservation -> Request \cup {None}]
      /\ reservationLock'[r] = p
      /\ \A x \in Reservation \ {r} : reservationLock'[x] = reservationLock[x]
      /\ seenReservation' \in [Request -> Reservations]
      /\ seenReservation'[p] = reservation[r]
      /\ \A x \in Request \ {p} : seenReservation'[x] = seenReservation[x]
  BY <1>1, <1>3, <1>4 DEF IInv, TypeOK
<1>9. TypeOK'
  BY <1>3, <1>7, <1>8 DEF IInv, TypeOK, rows
<1>10. RequestsFormed'
  <2> SUFFICES ASSUME NEW x \in Request
               PROVE  /\ req'[x].phase \in {"locking", "posting"} =>
                          /\ req'[x].slot \in Slot /\ req'[x].quantity \in Quantity
                          /\ req'[x].kind = "transfer" =>
                                (req'[x].dest \in Slot /\ req'[x].dest # req'[x].slot)
                          /\ req'[x].kind # "transfer" => req'[x].dest = None
                          /\ req'[x].kind \in OnReservations =>
                                /\ req'[x].target \in Reservation
                                /\ reservationLock'[req'[x].target] = x
                                /\ req'[x].slot = reservation[req'[x].target].slot
                                /\ req'[x].quantity <= Left(reservation[req'[x].target])
                      /\ req'[x].phase = "reservation" =>
                          /\ req'[x].target \in Reservation
                          /\ req'[x].kind \in OnReservations
                          /\ req'[x].dest = None
    BY <1>3 DEF RequestsFormed, Left, rows
  <2>1. CASE x = p
    BY <2>1, <1>0, <1>1, <1>2, <1>4, <1>5, <1>7, <1>8
  <2>2. CASE x # p
    <3>1. \A y \in Reservation : reservationLock[y] = x => reservationLock'[y] = x
      BY <1>3, <1>8, NoneApart
    <3> QED  BY <2>2, <3>1, <1>7 DEF IInv, RequestsFormed
  <2> QED  BY <2>1, <2>2
<1>11. PostingHoldsBalances'
  BY <1>3, <1>7 DEF IInv, PostingHoldsBalances
<1>12. ReservationsAsLocked'
  <2> SUFFICES ASSUME NEW x \in Request, NEW y \in Reservation, reservationLock'[y] = x
               PROVE  /\ Open(y) /\ seenReservation'[x] = reservation[y]
                      /\ req'[x].phase \in {"locking", "posting"}
    BY <1>3 DEF ReservationsAsLocked, Open, rows
  <2>1. CASE y = r
    BY <2>1, <1>3, <1>7, <1>8
  <2>2. CASE y # r
    <3>1. reservationLock[y] = x
      BY <2>2, <1>8
    <3>2. x # p
      BY <3>1, <1>1 DEF IInv, ReservationsAsLocked
    <3> QED  BY <3>1, <3>2, <1>7, <1>8 DEF IInv, ReservationsAsLocked
  <2> QED  BY <2>1, <2>2
<1>13. BalancesAsLocked' /\ ReservationsFormed' /\ LedgerExplainsStock'
  BY <1>3 DEF IInv, BalancesAsLocked, ReservationsFormed, LedgerExplainsStock, rows
<1>14. ReservedIsOnHand'
  BY <1>3, ReservedRows DEF IInv, rows
<1> QED  BY <1>3, <1>9, <1>10, <1>11, <1>12, <1>13, <1>14 DEF IInv

\* A transfer locks the missing balance of the lower location.
LEMMA NextIsMissing ==
    ASSUME IInv, NEW p \in Request, req[p].phase = "locking", Missing(p) # {}
    PROVE  /\ NextToLock(p) \in Missing(p) /\ NextToLock(p) \in Slot
           /\ Missing(p) \subseteq Slot
<1>1. Missing(p) \subseteq {req[p].slot, req[p].dest} /\ Missing(p) \subseteq Slot
  BY DEF Missing, IInv, RequestsFormed
<1>2. \A s \in Missing(p) : s[2] \in Nat
  BY <1>1, InventoryAssumption DEF Slot
<1>3. \E s \in Missing(p) : \A t \in Missing(p) : s[2] <= t[2]
  <2>1. PICK s \in Missing(p) : TRUE
    OBVIOUS
  <2>2. CASE \A t \in Missing(p) : s[2] <= t[2]
    BY <2>1, <2>2
  <2>3. CASE ~ \A t \in Missing(p) : s[2] <= t[2]
    <3>1. PICK t \in Missing(p) : ~ (s[2] <= t[2])
      BY <2>3
    <3>2. t[2] <= s[2] /\ t[2] <= t[2] /\ Missing(p) \subseteq {s, t}
      BY <1>1, <1>2, <3>1
    <3> QED  BY <3>2
  <2> QED  BY <2>2, <2>3
<1> QED  BY <1>1, <1>3 DEF NextToLock

\* A balance is locked as it is; who has locked the last one it needs may post.
LEMMA LockBalancePreserves ==
    ASSUME IInv, NEW p \in Request, LockBalance(p)
    PROVE  IInv' /\ UNCHANGED rows
<1> DEFINE s == NextToLock(p)
           phase == IF Missing(p) = {s} THEN "posting" ELSE "locking"
<1>1. /\ req[p].phase = "locking" /\ Missing(p) # {} /\ balanceLock[s] = None
      /\ balanceLock' = [balanceLock EXCEPT ![s] = p]
      /\ seen' = [seen EXCEPT ![p][s] = balance[s]]
      /\ req' = [req EXCEPT ![p].phase = phase]
      /\ UNCHANGED rows /\ UNCHANGED <<reservationLock, seenReservation>>
  BY DEF LockBalance, BalanceFree
<1>2. s \in Missing(p) /\ s \in Slot /\ Missing(p) \subseteq Slot
  BY <1>1, NextIsMissing
<1> HIDE DEF s
<1>3. /\ balanceLock \in [Slot -> Request \cup {None}] /\ req \in [Request -> Requests]
      /\ seen \in [Request -> [Slot -> Balances]] /\ balance \in [Slot -> Balances]
  BY DEF IInv, TypeOK
<1>4. /\ balanceLock' \in [Slot -> Request \cup {None}] /\ balanceLock'[s] = p
      /\ \A t \in Slot \ {s} : balanceLock'[t] = balanceLock[t]
  BY <1>1, <1>2, <1>3
<1>5. /\ seen' \in [Request -> [Slot -> Balances]] /\ seen'[p][s] = balance[s]
      /\ \A t \in Slot \ {s} : seen'[p][t] = seen[p][t]
      /\ \A x \in Request \ {p} : seen'[x] = seen[x]
  BY <1>1, <1>2, <1>3
<1>6. /\ req' \in [Request -> Requests]
      /\ req'[p].phase = phase /\ phase \in {"locking", "posting"}
      /\ req'[p].slot = req[p].slot /\ req'[p].dest = req[p].dest
      /\ req'[p].quantity = req[p].quantity /\ req'[p].kind = req[p].kind
      /\ req'[p].target = req[p].target
      /\ \A x \in Request \ {p} : req'[x] = req[x]
  <2>1. phase \in {"locking", "posting"}
    OBVIOUS
  <2> HIDE DEF phase
  <2>2. req[p] \in Requests /\ req' = [req EXCEPT ![p] = [req[p] EXCEPT !.phase = phase]]
    BY <1>1, <1>3
  <2>3. [req[p] EXCEPT !.phase = phase] \in Requests
    BY <2>1, <2>2 DEF Requests
  <2> QED  BY <1>3, <2>1, <2>2, <2>3 DEF Requests
<1> HIDE DEF phase
<1>7. TypeOK'
  BY <1>1, <1>4, <1>5, <1>6 DEF IInv, TypeOK, rows
<1>8. RequestsFormed'
  <2> SUFFICES ASSUME NEW x \in Request
               PROVE  /\ req'[x].phase \in {"locking", "posting"} =>
                          /\ req'[x].slot \in Slot /\ req'[x].quantity \in Quantity
                          /\ req'[x].kind = "transfer" =>
                                (req'[x].dest \in Slot /\ req'[x].dest # req'[x].slot)
                          /\ req'[x].kind # "transfer" => req'[x].dest = None
                          /\ req'[x].kind \in OnReservations =>
                                /\ req'[x].target \in Reservation
                                /\ reservationLock[req'[x].target] = x
                                /\ req'[x].slot = reservation[req'[x].target].slot
                                /\ req'[x].quantity <= Left(reservation[req'[x].target])
                      /\ req'[x].phase = "reservation" =>
                          /\ req'[x].target \in Reservation
                          /\ req'[x].kind \in OnReservations
                          /\ req'[x].dest = None
    BY <1>1 DEF RequestsFormed, Left, rows
  <2>1. CASE x = p
    BY <2>1, <1>1, <1>6 DEF IInv, RequestsFormed
  <2>2. CASE x # p
    BY <2>2, <1>6 DEF IInv, RequestsFormed
  <2> QED  BY <2>1, <2>2
<1>9. PostingHoldsBalances'
  <2> SUFFICES ASSUME NEW x \in Request, req'[x].phase = "posting"
               PROVE  /\ balanceLock'[req'[x].slot] = x
                      /\ req'[x].kind = "transfer" => balanceLock'[req'[x].dest] = x
    BY DEF PostingHoldsBalances
  <2>1. CASE x = p
    <3>1. Missing(p) = {s}
      BY <2>1, <1>6 DEF phase
    <3>2. /\ req[p].slot \in Slot
          /\ req[p].kind = "transfer" => req[p].dest \in Slot
      BY <1>1 DEF IInv, RequestsFormed
    <3>3. None \notin Slot
      BY InventoryAssumption DEF Slot
    <3>4. \A t \in {req[p].slot, req[p].dest} \cap Slot : balanceLock[t] = p \/ t = s
      BY <3>1, <3>3 DEF Missing
    <3> QED  BY <2>1, <3>2, <3>4, <1>4, <1>6
  <2>2. CASE x # p
    <3>1. /\ balanceLock[req[x].slot] = x /\ req[x].slot \in Slot
          /\ req[x].kind = "transfer" => (balanceLock[req[x].dest] = x /\ req[x].dest \in Slot)
      BY <2>2, <1>6 DEF IInv, PostingHoldsBalances, RequestsFormed
    <3>2. \A t \in Slot : balanceLock[t] = x => balanceLock'[t] = x
      BY <1>1, <1>4, NoneApart
    <3> QED  BY <2>2, <3>1, <3>2, <1>6
  <2> QED  BY <2>1, <2>2
<1>10. BalancesAsLocked'
  <2> SUFFICES ASSUME NEW x \in Request, NEW t \in Slot, balanceLock'[t] = x
               PROVE  seen'[x][t] = balance[t]
    BY <1>1 DEF BalancesAsLocked, rows
  <2>1. CASE t = s
    BY <2>1, <1>4, <1>5
  <2>2. CASE t # s
    BY <2>2, <1>4, <1>5 DEF IInv, BalancesAsLocked
  <2> QED  BY <2>1, <2>2
<1>11. ReservationsAsLocked'
  BY <1>1, <1>6 DEF IInv, ReservationsAsLocked, Open, rows
<1>12. ReservationsFormed' /\ LedgerExplainsStock'
  BY <1>1 DEF IInv, ReservationsFormed, LedgerExplainsStock, rows
<1>13. ReservedIsOnHand'
  BY <1>1, ReservedRows DEF IInv, rows
<1> QED  BY <1>1, <1>7, <1>8, <1>9, <1>10, <1>11, <1>12, <1>13 DEF IInv

\* Time and the places change no stock, no lock and no request.
LEMMA PlacesPreserve ==
    ASSUME IInv,
           \/ \E r \in Reservation : Lapse(r)
           \/ \E l \in Location : DeactivateLocation(l) \/ ReactivateLocation(l)
           \/ \E i \in Item : DeactivateItem(i) \/ ReactivateItem(i)
    PROVE  IInv' /\ UNCHANGED <<balance, ledger>>
<1>1. /\ UNCHANGED <<balance, ledger, reservation, balanceLock, reservationLock,
                     req, seen, seenReservation>>
      /\ itemActive' \in [Item -> BOOLEAN] /\ locationActive' \in [Location -> BOOLEAN]
      /\ lapsed' \subseteq Reservation
  <2>1. TypeOK
    BY DEF IInv
  <2> QED  BY <2>1 DEF TypeOK, Lapse, DeactivateLocation, ReactivateLocation,
                       DeactivateItem, ReactivateItem, locks
<1>2. TypeOK'
  BY <1>1 DEF IInv, TypeOK
<1>3. /\ RequestsFormed' /\ PostingHoldsBalances' /\ BalancesAsLocked' /\ ReservationsAsLocked'
      /\ ReservationsFormed' /\ LedgerExplainsStock'
  BY <1>1 DEF IInv, RequestsFormed, PostingHoldsBalances, BalancesAsLocked,
              ReservationsAsLocked, ReservationsFormed, LedgerExplainsStock, Open, Left
<1>4. ReservedIsOnHand'
  BY <1>1, ReservedRows DEF IInv
<1> QED  BY <1>1, <1>2, <1>3, <1>4 DEF IInv

\* Every step keeps the invariant, and is one posting of the ledger or none.
LEMMA NextPosts ==
    ASSUME IInv, [Next]_vars
    PROVE  IInv' /\ [Ledger!LedgerNext]_<<StockOnHand, StockReserved>>
<1>0. UNCHANGED balance => UNCHANGED <<StockOnHand, StockReserved>>
  BY DEF StockOnHand, StockReserved
<1>1. ASSUME NEW p \in Request, Step(p)
      PROVE  IInv' /\ [Ledger!LedgerNext]_<<StockOnHand, StockReserved>>
  <2>1. CASE Begin(p)
    BY <2>1, <1>0, BeginPreserves DEF rows
  <2>2. CASE LockReservation(p)
    BY <2>2, <1>0, LockReservationPreserves DEF rows
  <2>3. CASE LockBalance(p)
    BY <2>3, <1>0, LockBalancePreserves DEF rows
  <2>4. CASE Commit(p)
    BY <2>4, CommitPosts, EndPreserves DEF Posting
  <2>5. CASE RollBack(p)
    <3>1. UNCHANGED balance
      BY <2>5 DEF RollBack, rows
    <3> QED  BY <2>5, <3>1, <1>0, RollBackEnds, EndPreserves
  <2> QED  BY <1>1, <2>1, <2>2, <2>3, <2>4, <2>5 DEF Step
<1>2. CASE UNCHANGED vars
  <2>1. /\ TypeOK' /\ RequestsFormed' /\ PostingHoldsBalances' /\ BalancesAsLocked'
        /\ ReservationsAsLocked' /\ ReservationsFormed' /\ LedgerExplainsStock'
    BY <1>2 DEF IInv, TypeOK, RequestsFormed, PostingHoldsBalances, BalancesAsLocked,
                ReservationsAsLocked, ReservationsFormed, LedgerExplainsStock, Open, Left,
                vars, rows, locks
  <2>2. UNCHANGED balance
    BY <1>2 DEF vars, rows
  <2>3. ReservedIsOnHand'
    BY <2>2, ReservedRows DEF IInv
  <2> QED  BY <2>1, <2>2, <2>3, <1>0 DEF IInv
<1>3. CASE \/ \E r \in Reservation : Lapse(r)
           \/ \E l \in Location : DeactivateLocation(l) \/ ReactivateLocation(l)
           \/ \E i \in Item : DeactivateItem(i) \/ ReactivateItem(i)
  BY <1>3, <1>0, PlacesPreserve
<1> QED  BY <1>1, <1>2, <1>3 DEF Next

\* Nothing is on hand, posted or promised at first.
LEMMA InitIInv == Init => IInv
<1> SUFFICES ASSUME Init PROVE IInv
  OBVIOUS
<1>1. TypeOK
  BY NothingTypes DEF Init, TypeOK, NoBalance, Balances
<1>2. RequestsFormed /\ PostingHoldsBalances
  BY DEF Init, RequestsFormed, PostingHoldsBalances, NoRequest
<1>3. BalancesAsLocked /\ ReservationsAsLocked
  BY NoneApart DEF Init, BalancesAsLocked, ReservationsAsLocked
<1>4. ReservationsFormed
  BY DEF Init, ReservationsFormed, NoReservation
<1>5. LedgerExplainsStock
  BY DEF Init, LedgerExplainsStock, Explains, NoBalance
<1>6. ReservedIsOnHand
  BY ReservedRows DEF Init, NoBalance
<1> QED  BY <1>1, <1>2, <1>3, <1>4, <1>5, <1>6 DEF IInv

-----------------------------------------------------------------------------
(* The theorems.                                                           *)

\* The invariant holds of every execution.
THEOREM Invariant == Spec => []IInv
BY InitIInv, NextPosts, PTL DEF Spec

\* Every row, lock and request keeps its type; no stock is ever negative.
THEOREM TypeCorrect == Spec => []TypeOK
<1>1. IInv => TypeOK
  BY DEF IInv
<1> QED  BY <1>1, Invariant, PTL

\* Whatever requests interleave or fail, every movement starts where the one
\* before it ended, and the last ends at the stock on hand.
THEOREM LedgerExplains == Spec => []LedgerExplainsStock
<1>1. IInv => LedgerExplainsStock
  BY DEF IInv
<1> QED  BY <1>1, Invariant, PTL

\* Reserved stock is always on hand.
THEOREM ReservedStays == Spec => []ReservedIsOnHand
<1>1. IInv => ReservedIsOnHand
  BY DEF IInv
<1> QED  BY <1>1, Invariant, PTL

\* The concurrent service implements the ledger of indivisible postings.
THEOREM Refines == Spec => ImplementsLedger
<1>1. Init => Ledger!LedgerInit
  BY DEF Init, Ledger!LedgerInit, StockOnHand, StockReserved, NoBalance
<1>2. IInv /\ [Next]_vars => [Ledger!LedgerNext]_<<StockOnHand, StockReserved>>
  BY NextPosts
<1>3. Ledger!ledgerVars = <<StockOnHand, StockReserved>>
  BY DEF Ledger!ledgerVars
<1>4. IInv /\ [Next]_vars => [Ledger!LedgerNext]_(Ledger!ledgerVars)
  BY <1>2 DEF Ledger!ledgerVars
<1> QED  BY <1>1, <1>4, Invariant, PTL DEF Spec, ImplementsLedger, Ledger!LedgerSpec
-----------------------------------------------------------------------------
(* No circle of requests that wait for each other.                         *)

\* Who holds a balance works on it, and has yet to lock none before it; who is locking
\* has some balance to lock, and the two of a transfer are in different locations.
LocksInOrder ==
    /\ \A p \in Request, s \in Slot : balanceLock[s] = p =>
         /\ req[p].phase \in {"locking", "posting"}
         /\ req[p].phase = "locking" => \A t \in Missing(p) : s[2] < t[2]
    /\ \A p \in Request : req[p].phase = "locking" =>
         /\ Missing(p) # {}
         /\ req[p].kind = "transfer" => req[p].slot[2] # req[p].dest[2]

LEMMA SlotsApart == None \notin Slot /\ \A s \in Slot : s[2] \in Nat
BY InventoryAssumption DEF Slot

\* A request whose locks and work did not change misses what it missed.
LEMMA MissingKept ==
    ASSUME NEW p \in Request, req'[p] = req[p],
           \A s \in Slot : (balanceLock'[s] = p) = (balanceLock[s] = p),
           {req[p].slot, req[p].dest} \ {None} \subseteq Slot
    PROVE  Missing(p)' = Missing(p)
BY DEF Missing

\* The end of a request takes its locks; the others keep theirs.
LEMMA EndInOrder ==
    ASSUME IInv, LocksInOrder, NEW p \in Request, Finish(p)
    PROVE  LocksInOrder'
<1>1. /\ req'[p].phase = "idle" /\ \A x \in Request \ {p} : req'[x] = req[x]
  BY NothingTypes DEF Finish, IInv, TypeOK
<1>2. \A s \in Slot : /\ balanceLock'[s] # p
                      /\ \A x \in Request \ {p} : (balanceLock'[s] = x) = (balanceLock[s] = x)
  BY NoneApart DEF Finish
<1>3. ASSUME NEW x \in Request \ {p}, req[x].phase = "locking"
      PROVE  Missing(x)' = Missing(x)
  <2>1. {req[x].slot, req[x].dest} \ {None} \subseteq Slot
    BY <1>3 DEF IInv, RequestsFormed
  <2> QED  BY <1>1, <1>2, <2>1, MissingKept
<1> QED  BY <1>1, <1>2, <1>3 DEF LocksInOrder

\* Who begins, or has locked its reservation, holds no balance yet.
LEMMA ArriveInOrder ==
    ASSUME IInv, IInv', LocksInOrder, NEW p \in Request,
           req[p].phase \in {"idle", "reservation"}, UNCHANGED balanceLock,
           \A x \in Request \ {p} : req'[x] = req[x],
           req'[p].phase = "locking" /\ req'[p].kind = "transfer" => req'[p].slot[2] # req'[p].dest[2]
    PROVE  LocksInOrder'
<1>1. \A s \in Slot : balanceLock'[s] # p
  BY DEF LocksInOrder
<1>2. req'[p].phase = "locking" => Missing(p)' # {}
  <2>1. req'[p].phase = "locking" => req'[p].slot \in Slot
    BY DEF IInv, RequestsFormed
  <2> QED  BY <1>1, <2>1, SlotsApart DEF Missing
<1>3. ASSUME NEW x \in Request \ {p}, req[x].phase = "locking"
      PROVE  Missing(x)' = Missing(x)
  BY DEF Missing
<1> QED  BY <1>1, <1>2, <1>3 DEF LocksInOrder

\* A balance is locked before those that are missing still.
LEMMA LockInOrder ==
    ASSUME IInv, LocksInOrder, NEW p \in Request, LockBalance(p)
    PROVE  LocksInOrder'
<1> DEFINE s == NextToLock(p)
<1>1. /\ s \in Missing(p) /\ Missing(p) \subseteq Slot /\ balanceLock[s] = None
      /\ req[p].phase = "locking"
  BY NextIsMissing DEF LockBalance, BalanceFree
<1>2. /\ balanceLock' = [balanceLock EXCEPT ![s] = p]
      /\ req' = [req EXCEPT ![p].phase = IF Missing(p) = {s} THEN "posting" ELSE "locking"]
  BY DEF LockBalance
<1>3. \A t \in Missing(p) : s[2] <= t[2]
  <2>1. \E u \in Missing(p) : \A t \in Missing(p) : u[2] <= t[2]
    <3>1. Missing(p) \subseteq {req[p].slot, req[p].dest}
      BY DEF Missing
    <3>2. \A t \in Missing(p) : t[2] \in Nat
      BY <1>1, SlotsApart
    <3>3. CASE \A t \in Missing(p) : s[2] <= t[2]
      BY <1>1, <3>3
    <3>4. CASE ~ \A t \in Missing(p) : s[2] <= t[2]
      <4>1. PICK t \in Missing(p) : ~ (s[2] <= t[2])
        BY <3>4
      <4> HIDE DEF s
      <4>2. t[2] <= s[2] /\ t[2] <= t[2] /\ Missing(p) \subseteq {s, t}
        BY <1>1, <3>1, <3>2, <4>1
      <4> QED  BY <4>2
    <3> QED  BY <3>3, <3>4
  <2> QED  BY <2>1 DEF NextToLock
<1> HIDE DEF s
<1>4. /\ balanceLock \in [Slot -> Request \cup {None}] /\ req \in [Request -> Requests]
      /\ s \in Slot
  BY <1>1 DEF IInv, TypeOK
<1>5. /\ balanceLock'[s] = p /\ \A t \in Slot \ {s} : balanceLock'[t] = balanceLock[t]
      /\ \A x \in Request \ {p} : req'[x] = req[x]
      /\ req'[p].slot = req[p].slot /\ req'[p].dest = req[p].dest /\ req'[p].kind = req[p].kind
      /\ req'[p].phase = IF Missing(p) = {s} THEN "posting" ELSE "locking"
  BY <1>2, <1>4 DEF Requests
<1>6. Missing(p)' = Missing(p) \ {s}
  <2>1. Missing(p)' = {t \in {req[p].slot, req[p].dest} \ {None} : balanceLock'[t] # p}
    BY <1>5 DEF Missing
  <2>2. {req[p].slot, req[p].dest} \ {None} \subseteq Slot
    BY <1>1 DEF IInv, RequestsFormed
  <2> QED  BY <1>5, <2>1, <2>2 DEF Missing
<1>7. \A t \in Missing(p) \ {s} : s[2] < t[2]
  <2> SUFFICES ASSUME NEW t \in Missing(p), t # s PROVE s[2] < t[2]
    OBVIOUS
  <2>1. {s, t} = {req[p].slot, req[p].dest} /\ req[p].dest # None
    BY <1>1, SlotsApart DEF Missing
  <2>2. req[p].kind = "transfer"
    BY <1>1, <2>1 DEF IInv, RequestsFormed
  <2>3. s[2] # t[2]
    BY <1>1, <2>1, <2>2 DEF LocksInOrder
  <2> QED  BY <1>1, <1>3, <2>3, SlotsApart
<1>8. ASSUME NEW x \in Request \ {p}, req[x].phase = "locking"
      PROVE  Missing(x)' = Missing(x)
  <2>1. {req[x].slot, req[x].dest} \ {None} \subseteq Slot
    BY <1>8 DEF IInv, RequestsFormed
  <2>2. \A t \in Slot : (balanceLock'[t] = x) = (balanceLock[t] = x)
    BY <1>1, <1>5, NoneApart
  <2> QED  BY <1>5, <2>1, <2>2, MissingKept
<1>9. ASSUME NEW x \in Request, NEW t \in Slot, balanceLock'[t] = x
      PROVE  /\ req'[x].phase \in {"locking", "posting"}
             /\ req'[x].phase = "locking" => \A u \in Missing(x)' : t[2] < u[2]
  <2>1. CASE x # p
    <3>1. balanceLock[t] = x
      BY <1>5, <1>9, <2>1
    <3> QED  BY <1>5, <1>8, <2>1, <3>1 DEF LocksInOrder
  <2>2. CASE x = p /\ t = s
    BY <1>5, <1>6, <1>7, <2>2
  <2>3. CASE x = p /\ t # s
    <3>1. balanceLock[t] = p
      BY <1>5, <1>9, <2>3
    <3> QED  BY <1>1, <1>5, <1>6, <2>3, <3>1 DEF LocksInOrder
  <2> QED  BY <2>1, <2>2, <2>3
<1>10. ASSUME NEW x \in Request, req'[x].phase = "locking"
       PROVE  /\ Missing(x)' # {}
              /\ req'[x].kind = "transfer" => req'[x].slot[2] # req'[x].dest[2]
  <2>1. CASE x = p
    BY <1>1, <1>5, <1>6, <1>10, <2>1 DEF LocksInOrder
  <2>2. CASE x # p
    BY <1>5, <1>8, <1>10, <2>2 DEF LocksInOrder
  <2> QED  BY <2>1, <2>2
<1> QED  BY <1>9, <1>10 DEF LocksInOrder

LEMMA BeginInOrder ==
    ASSUME IInv, LocksInOrder, NEW p \in Request, Begin(p)
    PROVE  LocksInOrder'
<1>1. IInv'
  BY BeginPreserves
<1>2. req[p].phase = "idle" /\ UNCHANGED balanceLock /\ req \in [Request -> Requests]
  BY DEF Begin, BeginStock, BeginTransfer, BeginOnReservation, locks, IInv, TypeOK
<1>3. PICK new :
         /\ req' = [req EXCEPT ![p] = new]
         /\ new.phase = "locking" /\ new.kind = "transfer" => new.slot[2] # new.dest[2]
  <2>1. ASSUME NEW q \in Quantity, NEW k \in Asked \ ({"transfer"} \cup OnReservations),
               NEW s \in Slot, BeginStock(p, k, s, q)
        PROVE  req' = [req EXCEPT ![p] = StockRequest(k, s, q)] /\ StockRequest(k, s, q).kind # "transfer"
    BY <2>1 DEF BeginStock, StockRequest
  <2>2. ASSUME NEW q \in Quantity, NEW s \in Slot, NEW d \in Slot, BeginTransfer(p, s, d, q)
        PROVE  /\ req' = [req EXCEPT ![p] = TransferRequest(s, d, q)]
               /\ TransferRequest(s, d, q).slot[2] # TransferRequest(s, d, q).dest[2]
    BY <2>2 DEF BeginTransfer, TransferRequest
  <2>3. ASSUME NEW q \in Quantity \cup {0}, NEW k \in Asked \cap OnReservations,
               NEW r \in Reservation, BeginOnReservation(p, k, r, q)
        PROVE  /\ req' = [req EXCEPT ![p] = ReservationRequest(k, r, q, r \in lapsed)]
               /\ ReservationRequest(k, r, q, r \in lapsed).phase # "locking"
    BY <2>3 DEF BeginOnReservation, ReservationRequest
  <2> QED  BY <2>1, <2>2, <2>3 DEF Begin
<1>4. req'[p] = new /\ \A x \in Request \ {p} : req'[x] = req[x]
  BY <1>2, <1>3
<1> QED  BY <1>1, <1>2, <1>3, <1>4, ArriveInOrder

LEMMA LockReservationInOrder ==
    ASSUME IInv, LocksInOrder, NEW p \in Request, LockReservation(p)
    PROVE  LocksInOrder'
<1>1. IInv'
  BY LockReservationPreserves
<1>2. /\ req[p].phase = "reservation" /\ UNCHANGED balanceLock /\ req \in [Request -> Requests]
      /\ req[p].kind \in OnReservations
  BY DEF LockReservation, IInv, TypeOK, RequestsFormed
<1>3. /\ \A x \in Request \ {p} : req'[x] = req[x]
      /\ req'[p].kind = req[p].kind
  BY <1>2 DEF LockReservation, Requests
<1>4. req'[p].kind # "transfer"
  BY <1>2, <1>3 DEF OnReservations
<1> QED  BY <1>1, <1>2, <1>3, <1>4, ArriveInOrder

LEMMA NextInOrder ==
    ASSUME IInv, LocksInOrder, [Next]_vars
    PROVE  LocksInOrder'
<1>1. ASSUME NEW p \in Request, Step(p)
      PROVE  LocksInOrder'
  <2>1. CASE Commit(p) \/ RollBack(p)
    <3>1. Finish(p)
      BY <2>1 DEF Commit, RollBack, ReceiveStock, ReturnStock, AdjustIn, OpeningBalance, IssueStock,
          AdjustOut, Post, TransferStock, CreateReservation, ConsumeReservation, ReleaseReservation
    <3> QED  BY <3>1, EndInOrder
  <2> QED  BY <1>1, <2>1, BeginInOrder, LockReservationInOrder, LockInOrder DEF Step
<1>2. ASSUME UNCHANGED <<balanceLock, req>>
      PROVE  LocksInOrder'
  BY <1>2 DEF LocksInOrder, Missing
<1>3. CASE UNCHANGED vars
  BY <1>2, <1>3 DEF vars, locks
<1>4. CASE \/ \E r \in Reservation : Lapse(r)
           \/ \E l \in Location : DeactivateLocation(l) \/ ReactivateLocation(l)
           \/ \E i \in Item : DeactivateItem(i) \/ ReactivateItem(i)
  BY <1>2, <1>4 DEF Lapse, DeactivateLocation, ReactivateLocation, DeactivateItem, ReactivateItem,
      locks
<1> QED  BY <1>1, <1>3, <1>4 DEF Next

LEMMA InitInOrder == Init => LocksInOrder
<1> SUFFICES ASSUME Init PROVE LocksInOrder
  OBVIOUS
<1>1. \A p \in Request : req[p].phase = "idle"
  BY NothingTypes DEF Init
<1> QED  BY <1>1, NoneApart DEF Init, LocksInOrder

\* Some number of naturals is the least.
LEMMA LeastExists ==
    ASSUME NEW T \in SUBSET Nat, T # {}
    PROVE  \E x \in T : \A y \in T : x <= y
<1> DEFINE R == OpToRel(<, Nat)
<1>1. IsWellFoundedOn(R, Nat)
  BY NatLessThanWellFounded
<1>2. \A x, y \in Nat : y < x => <<y, x>> \in R
  BY DEF OpToRel
<1> HIDE DEF R
<1>3. PICK x \in T : \A y \in T : ~ (<<y, x>> \in R)
  BY <1>1, WFMin
<1>4. \A y \in T : ~ (y < x) /\ x \in Nat /\ y \in Nat
  BY <1>2, <1>3
<1> QED  BY <1>4

\* Of requests that wait only for each other some are locking balances; each waits for one
\* that waits for a balance of a higher location, and there are not that many locations.
LEMMA NobodyWaitsInACircle ==
    ASSUME IInv, LocksInOrder, NEW n \in Nat, Location \subseteq 0 .. n
    PROVE  NoLockCycle
<1> SUFFICES ASSUME NEW S \in SUBSET Request, S # {}, \A p \in S : WaitsOn(p) \in S
             PROVE  FALSE
  BY DEF NoLockCycle
<1> DEFINE L == {p \in S : req[p].phase = "locking"}
           At(p) == NextToLock(p)[2]
<1>1. ASSUME NEW p \in S
      PROVE  WaitsOn(p) \in L
  <2> DEFINE q == WaitsOn(p)
  <2>1. q \in S /\ q \in Request /\ q # None
    BY <1>1, NoneApart
  <2>2. req[q].phase \in {"locking", "posting"}
    <3>1. CASE req[p].phase = "reservation"
      <4>1. req[p].target \in Reservation
        BY <3>1 DEF IInv, RequestsFormed
      <4> QED  BY <2>1, <3>1, <4>1 DEF WaitsOn, IInv, ReservationsAsLocked
    <3>2. CASE req[p].phase = "locking"
      <4>1. NextToLock(p) \in Slot
        BY <3>2, NextIsMissing DEF LocksInOrder
      <4>2. q = balanceLock[NextToLock(p)]
        BY <3>2 DEF WaitsOn
      <4> HIDE DEF q
      <4> QED  BY <2>1, <4>1, <4>2 DEF LocksInOrder
    <3> QED  BY <2>1, <3>1, <3>2 DEF WaitsOn
  <2>3. req[q].phase # "posting"
    <3>1. WaitsOn(q) \in S /\ WaitsOn(q) # None
      BY <2>1, NoneApart
    <3> HIDE DEF q
    <3> QED  BY <3>1 DEF WaitsOn
  <2> QED  BY <2>1, <2>2, <2>3
<1>2. ASSUME NEW p \in L
      PROVE  /\ At(p) \in 0 .. n
             /\ At(p) < At(WaitsOn(p))
  <2> DEFINE s == NextToLock(p)
             q == WaitsOn(p)
             t == NextToLock(q)
  <2>1. s \in Slot /\ s[2] \in Location
    BY <1>2, NextIsMissing DEF LocksInOrder, Slot
  <2>2. q \in L /\ q = balanceLock[s]
    BY <1>1, <1>2 DEF WaitsOn
  <2>3. t \in Missing(q)
    BY <2>2, NextIsMissing DEF LocksInOrder
  <2> HIDE DEF s, q, t
  <2>4. s[2] < t[2]
    BY <2>1, <2>2, <2>3 DEF LocksInOrder
  <2> QED  BY <2>1, <2>4 DEF s, q, t
<1> HIDE DEF At
<1>3. PICK p \in S : TRUE
  OBVIOUS
<1>4. L # {}
  BY <1>1, <1>3
<1> DEFINE T == {n - At(q) : q \in L}
<1>5. T \in SUBSET Nat /\ T # {}
  BY <1>2, <1>4
<1>6. PICK x \in T : \A y \in T : x <= y
  <2> HIDE DEF T
  <2> QED  BY <1>5, LeastExists
<1>7. PICK q \in L : x = n - At(q)
  BY <1>6
<1>8. n - At(WaitsOn(q)) \in T
  BY <1>1, <1>7
<1>9. At(q) \in 0 .. n /\ At(WaitsOn(q)) \in 0 .. n /\ At(q) < At(WaitsOn(q))
  BY <1>1, <1>2, <1>7
<1>10. x <= n - At(WaitsOn(q))
  BY <1>6, <1>8
<1> QED  BY <1>7, <1>9, <1>10

\* However many requests there are, no set of them is such that each waits for another one
\* of it: the identifiers of locations are bounded, and balances are locked in their order.
THEOREM NoDeadlock ==
    ASSUME NEW n \in Nat, Location \subseteq 0 .. n
    PROVE  Spec => []NoLockCycle
<1>1. IInv /\ LocksInOrder /\ [Next]_vars => LocksInOrder'
  BY NextInOrder
<1>2. IInv /\ LocksInOrder => NoLockCycle
  BY NobodyWaitsInACircle
<1>3. IInv /\ [Next]_vars => IInv'
  BY NextPosts
<1> QED  BY <1>1, <1>2, <1>3, InitIInv, InitInOrder, PTL DEF Spec
-----------------------------------------------------------------------------
(* An opening balance is the first movement.                               *)

\* A balance gains no movement, or one; an opening balance only as its first.
Grown(l, m) ==
    \/ m = l
    \/ \E e : m = Append(l, e) /\ (e.kind = "opening_balance" => l = <<>>)

LEMMA GrownKeepsFirst ==
    ASSUME NEW l \in Seq(Entries), NEW m, Grown(l, m),
           \A i \in 2 .. Len(l) : l[i].kind # "opening_balance"
    PROVE  \A i \in 2 .. Len(m) : m[i].kind # "opening_balance"
<1>1. CASE m = l
  BY <1>1
<1>2. ASSUME NEW e, m = Append(l, e), e.kind = "opening_balance" => l = <<>>
      PROVE  \A i \in 2 .. Len(m) : m[i].kind # "opening_balance"
  <2>1. l \in Seq(Entries \cup {e})
    OBVIOUS
  <2>2. Len(m) = Len(l) + 1 /\ m[Len(l) + 1] = e /\ \A i \in 1 .. Len(l) : m[i] = l[i]
    BY <1>2, <2>1
  <2>3. Len(l) \in Nat /\ (l = <<>> => Len(l) = 0)
    OBVIOUS
  <2> QED  BY <1>2, <2>2, <2>3
<1> QED  BY <1>1, <1>2 DEF Grown

\* One movement, on the balance of the request.
LEMMA PostGrows ==
    ASSUME IInv, NEW p \in Request, NEW after, NEW r, Post(p, after, r),
           req[p].kind = "opening_balance" => ledger[req[p].slot] = <<>>
    PROVE  \A s \in Slot : Grown(ledger[s], ledger'[s])
<1> DEFINE e == Entry(req[p].kind, seen[p][req[p].slot].onHand, after, r)
<1>1. ledger' = [ledger EXCEPT ![req[p].slot] = Append(@, e)]
  BY DEF Post, Entered
<1>2. e.kind = req[p].kind
  BY DEF Entry
<1> HIDE DEF e
<1>3. ledger \in [Slot -> Seq(Entries)]
  BY DEF IInv, TypeOK
<1> QED  BY <1>1, <1>2, <1>3 DEF Grown

\* One movement on each of the two balances of a transfer.
LEMMA TransferGrows ==
    ASSUME IInv, NEW p \in Request, TransferStock(p)
    PROVE  \A s \in Slot : Grown(ledger[s], ledger'[s])
<1> DEFINE s == req[p].slot
           d == req[p].dest
           out == Entry("transfer_out", Before(p).onHand, Before(p).onHand - req[p].quantity, None)
           in == Entry("transfer_in", seen[p][d].onHand, Transferred(p), None)
<1>1. ledger' = [[ledger EXCEPT ![s] = Append(@, out)] EXCEPT ![d] = Append(@, in)]
  BY DEF TransferStock, Entered
<1>2. out.kind # "opening_balance" /\ in.kind # "opening_balance"
  BY DEF Entry
<1>3. s # d /\ ledger \in [Slot -> Seq(Entries)]
  BY DEF TransferStock, IInv, RequestsFormed, TypeOK
<1> HIDE DEF s, d, out, in
<1>4. \A t \in Slot : ledger'[t] = IF t = d THEN Append(ledger[t], in)
                                   ELSE IF t = s THEN Append(ledger[t], out) ELSE ledger[t]
  BY <1>1, <1>3
<1> QED  BY <1>2, <1>4 DEF Grown

LEMMA StepGrows ==
    ASSUME IInv, [Next]_vars
    PROVE  \A s \in Slot : Grown(ledger[s], ledger'[s])
<1>1. ASSUME NEW p \in Request, Commit(p)
      PROVE  \A s \in Slot : Grown(ledger[s], ledger'[s])
  <2>1. CASE OpeningBalance(p)
    BY <2>1, PostGrows DEF OpeningBalance, NeverMoved
  <2>2. CASE \/ ReceiveStock(p) \/ ReturnStock(p) \/ AdjustIn(p) \/ IssueStock(p) \/ AdjustOut(p)
    <3>1. \E after : Post(p, after, None) /\ req[p].kind # "opening_balance"
      BY <2>2 DEF ReceiveStock, ReturnStock, AdjustIn, IssueStock, AdjustOut
    <3> QED  BY <3>1, PostGrows
  <2>3. CASE TransferStock(p)
    BY <2>3, TransferGrows
  <2>4. CASE ConsumeReservation(p)
    <3> DEFINE e == Entry("issue", Before(p).onHand, Before(p).onHand - req[p].quantity, req[p].target)
    <3>1. ledger' = [ledger EXCEPT ![req[p].slot] = Append(@, e)]
      BY <2>4 DEF ConsumeReservation, Entered
    <3>2. e.kind # "opening_balance"
      BY DEF Entry
    <3> HIDE DEF e
    <3>3. ledger \in [Slot -> Seq(Entries)]
      BY DEF IInv, TypeOK
    <3> QED  BY <3>1, <3>2, <3>3 DEF Grown
  <2>5. CASE ReleaseReservation(p) \/ \E r \in Reservation : CreateReservation(p, r)
    BY <2>5 DEF ReleaseReservation, CreateReservation, Grown
  <2> QED  BY <1>1, <2>1, <2>2, <2>3, <2>4, <2>5 DEF Commit
<1>2. ASSUME UNCHANGED ledger
      PROVE  \A s \in Slot : Grown(ledger[s], ledger'[s])
  BY <1>2 DEF Grown
<1>3. ASSUME NEW p \in Request, Step(p), ~Commit(p)
      PROVE  UNCHANGED ledger
  BY <1>3 DEF Step, Begin, BeginStock, BeginTransfer, BeginOnReservation, LockReservation,
              LockBalance, RollBack, rows
<1>4. CASE UNCHANGED vars
  BY <1>2, <1>4 DEF vars, rows
<1>5. CASE \/ \E r \in Reservation : Lapse(r)
           \/ \E l \in Location : DeactivateLocation(l) \/ ReactivateLocation(l)
           \/ \E i \in Item : DeactivateItem(i) \/ ReactivateItem(i)
  BY <1>2, <1>5 DEF Lapse, DeactivateLocation, ReactivateLocation, DeactivateItem, ReactivateItem
<1> QED  BY <1>1, <1>2, <1>3, <1>4, <1>5 DEF Next

\* For any items, locations and concurrent requests: a balance is opened before anything
\* else moves it, however many requests ask for that at once.
THEOREM OpeningsAreFirst == Spec => []OpeningIsFirst
<1>1. Init => OpeningIsFirst
  BY DEF Init, OpeningIsFirst
<1>2. IInv /\ OpeningIsFirst /\ [Next]_vars => OpeningIsFirst'
  <2> SUFFICES ASSUME IInv, OpeningIsFirst, [Next]_vars, NEW s \in Slot
               PROVE  \A i \in 2 .. Len(ledger'[s]) : ledger'[s][i].kind # "opening_balance"
    BY DEF OpeningIsFirst
  <2>1. ledger[s] \in Seq(Entries)
    BY DEF IInv, TypeOK
  <2> QED  BY <2>1, StepGrows, GrownKeepsFirst DEF OpeningIsFirst
<1> QED  BY <1>1, <1>2, Invariant, PTL DEF Spec
-----------------------------------------------------------------------------
(* The sums: what is reserved of a balance, and what was issued against a  *)
(* reservation.                                                            *)

\* What a reservation holds of a balance, all of them together, and what the movements of
\* the ledger issued against one.
Holding(row, s) ==
    IF row.status \in {"active", "partially_consumed"} /\ row.slot = s THEN Left(row) ELSE 0
Holders(s) == {o \in Reservation : Open(o) /\ reservation[o].slot = s}
Held(s)    == SumFunction([o \in Holders(s) |-> Left(reservation[o])])

IssuedAt(l, r) ==
    {x \in Slot \X (1 .. MaxMovements) : x[2] <= Len(l[x[1]]) /\ l[x[1]][x[2]].reservation = r}
Issued(l, r) == SumFunction([x \in IssuedAt(l, r) |-> l[x[1]][x[2]].before - l[x[1]][x[2]].after])

\* The two sums, and what they rest on: a ledger is as long as its bound allows, what was
\* never reserved was never consumed, and a release gives back all that is left.
LedgersBounded  == \A s \in Slot : Len(ledger[s]) <= MaxMovements
UnmadeUntouched == \A r \in Reservation : reservation[r].status = "none" => reservation[r].consumed = 0
ReleasesAll ==
    \A p \in Request : req[p].kind = "release" /\ req[p].phase \in {"locking", "posting"} =>
        req[p].quantity = Left(reservation[req[p].target])

Accounted ==
    /\ LedgersBounded
    /\ UnmadeUntouched
    /\ ReleasesAll
    /\ ReservedByReservations
    /\ IssuesMatchConsumption

LEMMA ReservedIsHeld ==
    ReservedByReservations <=> \A s \in Slot : balance[s].reserved = Held(s)
BY DEF ReservedByReservations, Held, Holders

LEMMA ConsumedIsIssued ==
    IssuesMatchConsumption <=> \A r \in Reservation : reservation[r].consumed = Issued(ledger, r)
BY DEF IssuesMatchConsumption, Issued, IssuedAt, Issues

LEMMA SlotsFinite == IsFiniteSet(Slot \X (1 .. MaxMovements))
<1>1. IsFiniteSet(Slot)
  BY InventoryAssumption, FS_Product DEF Slot
<1>2. IsFiniteSet(1 .. MaxMovements)
  BY InventoryAssumption, FS_Interval
<1> QED  BY <1>1, <1>2, FS_Product

\* One reservation changes: so much less is held of a balance as it held, so much more as it holds.
LEMMA HeldChanges ==
    ASSUME IInv, IInv', NEW r \in Reservation, NEW row \in Reservations,
           reservation' = [reservation EXCEPT ![r] = row], NEW s \in Slot
    PROVE  Held(s)' = (Held(s) - Holding(reservation[r], s)) + Holding(row, s)
<1> DEFINE S == Holders(s)
           T == Holders(s)'
           f == [o \in S |-> Left(reservation[o])]
           g == [o \in T |-> Left(reservation'[o])]
<1>1. Held(s) = SumFunctionOnSet(f, S)
  BY DEF Held, SumFunction
<1>2. Held(s)' = SumFunctionOnSet(g, T)
  BY DEF Held, SumFunction, Left
<1>3. S \subseteq Reservation /\ T \subseteq Reservation
  BY DEF Holders
<1>4. IsFiniteSet(S) /\ IsFiniteSet(T)
  BY <1>3, InventoryAssumption, FS_Subset
<1>5. reservation \in [Reservation -> Reservations] /\ reservation' \in [Reservation -> Reservations]
  BY DEF IInv, TypeOK
<1>6. /\ reservation'[r] = row
      /\ \A o \in Reservation \ {r} : reservation'[o] = reservation[o]
  BY <1>5
<1>7. /\ r \in S <=> Open(r) /\ reservation[r].slot = s
      /\ r \in T <=> Open(r)' /\ reservation'[r].slot = s
      /\ \A o \in Reservation : o \in S <=> Open(o) /\ reservation[o].slot = s
      /\ \A o \in Reservation : o \in T <=> Open(o)' /\ reservation'[o].slot = s
  BY DEF Holders, Open
<1>8. S \ {r} = T \ {r}
  BY <1>3, <1>6, <1>7 DEF Open
<1>9. (\A o \in S : f[o] \in Int) /\ (\A o \in T : g[o] \in Int)
  BY <1>3, <1>5 DEF Left, Reservations
<1>10. \A o \in S \ {r} : f[o] = g[o]
  BY <1>3, <1>6, <1>8
<1>11. /\ (IF r \in S THEN f[r] ELSE 0) = Holding(reservation[r], s)
       /\ (IF r \in T THEN g[r] ELSE 0) = Holding(row, s)
  BY <1>6, <1>7 DEF Holding, Open
<1> HIDE DEF S, T, f, g
<1>12. SumFunctionOnSet(g, T) = (SumFunctionOnSet(f, S) - (IF r \in S THEN f[r] ELSE 0))
                                    + (IF r \in T THEN g[r] ELSE 0)
  BY <1>4, <1>8, <1>9, <1>10, SumMoves
<1> QED  BY <1>1, <1>2, <1>11, <1>12

\* What is held is a number.
LEMMA HeldType ==
    ASSUME IInv, NEW s \in Slot
    PROVE  Held(s) \in Int
<1> DEFINE S == Holders(s)
           f == [o \in S |-> Left(reservation[o])]
<1>1. Held(s) = SumFunctionOnSet(f, S)
  BY DEF Held, SumFunction
<1>2. S \subseteq Reservation /\ IsFiniteSet(S)
  BY InventoryAssumption, FS_Subset DEF Holders
<1>3. \A o \in S : f[o] \in Int
  BY <1>2 DEF IInv, TypeOK, Left, Reservations
<1> HIDE DEF S, f
<1> QED  BY <1>1, <1>2, <1>3, SumType

\* A movement adds what it takes to what was issued against its reservation.
LEMMA EnteredIssues ==
    ASSUME NEW l \in [Slot -> Seq(Entries)], NEW s \in Slot, NEW e \in Entries,
           Len(l[s]) < MaxMovements, NEW r \in Reservation
    PROVE  /\ Issued(l, r) \in Int
           /\ Issued(Entered(l, s, e), r) =
                 Issued(l, r) + (IF e.reservation = r THEN e.before - e.after ELSE 0)
<1> DEFINE m == Entered(l, s, e)
           n == Len(l[s]) + 1
           x == <<s, n>>
           S == IssuedAt(l, r)
           T == IssuedAt(m, r)
           f == [y \in S |-> l[y[1]][y[2]].before - l[y[1]][y[2]].after]
           g == [y \in T |-> m[y[1]][y[2]].before - m[y[1]][y[2]].after]
<1>1. Issued(l, r) = SumFunctionOnSet(f, S) /\ Issued(m, r) = SumFunctionOnSet(g, T)
  BY DEF Issued, SumFunction
<1>2. /\ S \subseteq Slot \X (1 .. MaxMovements) /\ T \subseteq Slot \X (1 .. MaxMovements)
      /\ IsFiniteSet(S) /\ IsFiniteSet(T)
  BY SlotsFinite, FS_Subset DEF IssuedAt
<1>3. /\ m \in [Slot -> Seq(Entries)] /\ m[s] = Append(l[s], e)
      /\ \A t \in Slot \ {s} : m[t] = l[t]
  BY EnteredFacts
<1> HIDE DEF m
<1>4. l[s] \in Seq(Entries) /\ Len(l[s]) \in Nat
  OBVIOUS
<1>5. /\ Len(m[s]) = n /\ m[s][n] = e
      /\ \A i \in 1 .. Len(l[s]) : m[s][i] = l[s][i]
  BY <1>3, <1>4
<1>6. x \in Slot \X (1 .. MaxMovements) /\ x[1] = s /\ x[2] = n
  BY <1>4, InventoryAssumption
<1>7. x \notin S /\ (x \in T <=> e.reservation = r)
  BY <1>4, <1>5, <1>6 DEF IssuedAt
<1>8. ASSUME NEW y \in Slot \X (1 .. MaxMovements), y # x
      PROVE  /\ y \in S <=> y \in T
             /\ y \in S => m[y[1]][y[2]] = l[y[1]][y[2]]
  <2>1. y[1] \in Slot /\ y[2] \in 1 .. MaxMovements /\ (y[1] # s \/ y[2] # n)
    BY <1>8
  <2>2. CASE y[1] # s
    BY <1>3, <2>1, <2>2 DEF IssuedAt
  <2>3. CASE y[1] = s
    <3>1. y[2] <= Len(m[s]) <=> y[2] <= Len(l[s])
      BY <1>4, <1>5, <2>1, <2>3
    <3>2. y[2] <= Len(l[s]) => m[s][y[2]] = l[s][y[2]]
      BY <1>4, <1>5, <2>1
    <3> QED  BY <2>3, <3>1, <3>2 DEF IssuedAt
  <2> QED  BY <2>2, <2>3
<1>9. S \ {x} = T \ {x}
  BY <1>2, <1>8
<1>10. \A y \in S \ {x} : f[y] = g[y]
  BY <1>2, <1>8, <1>9
<1>11. \A k \in [Slot -> Seq(Entries)] : \A y \in IssuedAt(k, r) :
          k[y[1]][y[2]].before - k[y[1]][y[2]].after \in Int
  <2> SUFFICES ASSUME NEW k \in [Slot -> Seq(Entries)], NEW y \in IssuedAt(k, r)
               PROVE  k[y[1]][y[2]].before - k[y[1]][y[2]].after \in Int
    OBVIOUS
  <2>1. y[1] \in Slot /\ y[2] \in 1 .. Len(k[y[1]])
    BY DEF IssuedAt
  <2>2. k[y[1]][y[2]] \in Entries
    BY <2>1
  <2> QED  BY <2>2 DEF Entries
<1>12. (\A y \in S : f[y] \in Int) /\ (\A y \in T : g[y] \in Int)
  BY <1>3, <1>11
<1>13. (IF x \in S THEN f[x] ELSE 0) = 0
  BY <1>7
<1>14. (IF x \in T THEN g[x] ELSE 0) = (IF e.reservation = r THEN e.before - e.after ELSE 0)
  BY <1>5, <1>6, <1>7
<1> HIDE DEF S, T, f, g, x, n
<1>a. IsFiniteSet(S) /\ IsFiniteSet(T)
  BY <1>2
<1>15. SumFunctionOnSet(f, S) \in Int
  BY <1>a, <1>12, SumType
<1>16. SumFunctionOnSet(g, T) = (SumFunctionOnSet(f, S) - (IF x \in S THEN f[x] ELSE 0))
                                    + (IF x \in T THEN g[x] ELSE 0)
  BY <1>a, <1>9, <1>10, <1>12, SumMoves, SMTT(30)
<1> DEFINE d == IF e.reservation = r THEN e.before - e.after ELSE 0
<1>17. d \in Int
  BY DEF Entries
<1>18. SumFunctionOnSet(g, T) = SumFunctionOnSet(f, S) + d
  <2>1. SumFunctionOnSet(g, T) = (SumFunctionOnSet(f, S) - 0) + d
    BY <1>13, <1>14, <1>16
  <2> HIDE DEF d
  <2> QED  BY <1>15, <1>17, <2>1
<1> QED  BY <1>1, <1>15, <1>18 DEF m

\* What an action leaves of the accounts.
AccountRows == LedgersBounded /\ UnmadeUntouched /\ ReservedByReservations /\ IssuesMatchConsumption

\* A balance's reserved part changes by what the reservation that changes holds of it.
LEMMA ReservedMoves ==
    ASSUME IInv, IInv', ReservedByReservations, NEW r \in Reservation, NEW row \in Reservations,
           reservation' = [reservation EXCEPT ![r] = row],
           \A t \in Slot : balance'[t].reserved =
               (balance[t].reserved - Holding(reservation[r], t)) + Holding(row, t)
    PROVE  ReservedByReservations'
<1> SUFFICES ASSUME NEW t \in Slot PROVE balance'[t].reserved = Held(t)'
  BY DEF ReservedByReservations, Held, Holders
<1>1. balance[t].reserved = Held(t)
  BY ReservedIsHeld
<1> QED  BY <1>1, HeldChanges

\* No reservation changes, and no balance's reserved part.
LEMMA ReservedKept ==
    ASSUME ReservedByReservations, UNCHANGED reservation,
           \A t \in Slot : balance'[t].reserved = balance[t].reserved
    PROVE  ReservedByReservations'
<1> SUFFICES ASSUME NEW t \in Slot PROVE balance'[t].reserved = Held(t)'
  BY DEF ReservedByReservations, Held, Holders
<1>1. balance[t].reserved = Held(t)
  BY ReservedIsHeld
<1>2. Held(t)' = Held(t)
  BY DEF Held, Holders, Open
<1> QED  BY <1>1, <1>2

\* No movement is against a reservation, and none consumes.
LEMMA IssuesKept ==
    ASSUME IssuesMatchConsumption,
           \A r \in Reservation : /\ reservation'[r].consumed = reservation[r].consumed
                                  /\ Issued(ledger', r) = Issued(ledger, r)
    PROVE  IssuesMatchConsumption'
<1> SUFFICES ASSUME NEW r \in Reservation PROVE reservation'[r].consumed = Issued(ledger', r)
  BY DEF IssuesMatchConsumption, Issued, IssuedAt, Issues
<1> QED  BY ConsumedIsIssued

\* A movement that there was room for.
LEMMA BoundKept ==
    ASSUME NEW l \in [Slot -> Seq(Entries)], NEW s \in Slot, NEW e \in Entries,
           Len(l[s]) < MaxMovements, \A t \in Slot : Len(l[t]) <= MaxMovements
    PROVE  \A t \in Slot : Len(Entered(l, s, e)[t]) <= MaxMovements
<1>1. /\ Entered(l, s, e)[s] = Append(l[s], e)
      /\ \A t \in Slot \ {s} : Entered(l, s, e)[t] = l[t]
  BY EnteredFacts
<1>2. Len(Append(l[s], e)) = Len(l[s]) + 1 /\ Len(l[s]) \in Nat
  OBVIOUS
<1> QED  BY <1>1, <1>2, InventoryAssumption

\* Setting the stock leaves what is reserved, everywhere.
LEMMA OnHandKeepsReserved ==
    ASSUME NEW b \in [Slot -> Balances], NEW s \in Slot, NEW n \in Nat
    PROVE  \A t \in Slot : OnHand(b, s, n)[t].reserved = b[t].reserved
<1> DEFINE c == OnHand(b, s, n)
<1>1. c[s].reserved = b[s].reserved /\ \A t \in Slot \ {s} : c[t] = b[t]
  BY OnHandFacts
<1> HIDE DEF c
<1>2. \A t \in Slot : c[t].reserved = b[t].reserved
  BY <1>1
<1> QED  BY <1>2 DEF c

LEMMA PostAccounts ==
    ASSUME IInv, Accounted, NEW p \in Request, NEW after \in Nat,
           req[p].kind \in EntryKinds, Post(p, after, None)
    PROVE  AccountRows'
<1> DEFINE s == req[p].slot
           e == Entry(req[p].kind, seen[p][s].onHand, after, None)
<1>1. s \in Slot /\ balance \in [Slot -> Balances] /\ ledger \in [Slot -> Seq(Entries)]
  BY DEF Post, IInv, RequestsFormed, TypeOK
<1>2. seen[p][s].onHand \in Nat
  BY <1>1 DEF IInv, TypeOK, Balances
<1>3. e \in Entries /\ e.reservation = None
  BY <1>2, EntryFacts DEF Entry
<1>4. /\ balance' = OnHand(balance, s, after) /\ ledger' = Entered(ledger, s, e)
      /\ Len(ledger[s]) < MaxMovements /\ UNCHANGED reservation
  BY DEF Post, Room
<1> HIDE DEF s, e
<1>5. LedgersBounded' /\ UnmadeUntouched'
  BY <1>1, <1>3, <1>4, BoundKept DEF Accounted, LedgersBounded, UnmadeUntouched
<1>6. \A t \in Slot : balance'[t].reserved = balance[t].reserved
  BY <1>1, <1>4, OnHandKeepsReserved
<1>7. \A r \in Reservation : Issued(ledger', r) = Issued(ledger, r)
  <2> SUFFICES ASSUME NEW r \in Reservation PROVE Issued(ledger', r) = Issued(ledger, r)
    OBVIOUS
  <2>1. Issued(ledger, r) \in Int /\ Issued(ledger', r) = Issued(ledger, r) + 0
    <3>1. e.reservation # r
      BY <1>3, InventoryAssumption
    <3> QED  BY <3>1, <1>1, <1>3, <1>4, EnteredIssues
  <2> QED  BY <2>1
<1> QED  BY <1>4, <1>5, <1>6, <1>7, ReservedKept, IssuesKept DEF Accounted, AccountRows

LEMMA TransferAccounts ==
    ASSUME IInv, Accounted, NEW p \in Request, TransferStock(p)
    PROVE  AccountRows'
<1> DEFINE s == req[p].slot
           d == req[p].dest
           left == Before(p).onHand - req[p].quantity
           more == seen[p][d].onHand + req[p].quantity
           out == Entry("transfer_out", Before(p).onHand, left, None)
           in == Entry("transfer_in", seen[p][d].onHand, more, None)
           b == OnHand(balance, s, left)
           l == Entered(ledger, s, out)
<1>1. /\ s \in Slot /\ d \in Slot /\ s # d /\ req[p].quantity \in Nat
      /\ balance \in [Slot -> Balances] /\ ledger \in [Slot -> Seq(Entries)]
  BY DEF TransferStock, IInv, RequestsFormed, TypeOK, Quantity
<1>2. seen[p][s] \in Balances /\ seen[p][d] \in Balances
  BY <1>1 DEF IInv, TypeOK
<1>3. left \in Nat /\ more \in Nat /\ Before(p).onHand \in Nat /\ seen[p][d].onHand \in Nat
  <2>1. /\ Before(p).onHand \in Nat /\ Before(p).reserved \in Nat /\ seen[p][d].onHand \in Nat
        /\ Before(p) = seen[p][s]
    BY <1>2 DEF Before, Balances
  <2>2. req[p].quantity <= Before(p).onHand - Before(p).reserved
    BY DEF TransferStock, Sufficient, Available
  <2>3. req[p].quantity \in Nat
    BY <1>1
  <2>4. left \in Nat
    BY <2>1, <2>2, <2>3
  <2>5. more \in Nat
    BY <2>1, <2>3
  <2> QED  BY <2>1, <2>4, <2>5
<1>4. out \in Entries /\ out.reservation = None /\ in \in Entries /\ in.reservation = None
  <2>1. "transfer_out" \in EntryKinds /\ "transfer_in" \in EntryKinds
    BY DEF EntryKinds
  <2> QED  BY <2>1, <1>3, EntryFacts DEF Entry
<1>5. /\ balance' = OnHand(b, d, more) /\ ledger' = Entered(l, d, in)
      /\ Len(ledger[s]) < MaxMovements /\ Len(ledger[d]) < MaxMovements /\ UNCHANGED reservation
  BY DEF TransferStock, Room, Transferred
<1> HIDE DEF s, d, left, more, out, in
<1>6. /\ l \in [Slot -> Seq(Entries)] /\ Len(l[d]) < MaxMovements
      /\ \A t \in Slot : Len(l[t]) <= MaxMovements
  <2>1. \A t \in Slot : Len(l[t]) <= MaxMovements
    BY <1>1, <1>4, <1>5, BoundKept DEF Accounted, LedgersBounded
  <2>2. l \in [Slot -> Seq(Entries)] /\ l[d] = ledger[d]
    <3>1. d \in Slot \ {s} /\ s \in Slot /\ out \in Entries /\ ledger \in [Slot -> Seq(Entries)]
      BY <1>1, <1>4
    <3>2. /\ Entered(ledger, s, out) \in [Slot -> Seq(Entries)]
          /\ \A t \in Slot \ {s} : Entered(ledger, s, out)[t] = ledger[t]
      BY <3>1, EnteredFacts, ZenonT(30)
    <3> QED  BY <3>1, <3>2
  <2> QED  BY <1>5, <2>1, <2>2
<1>7. b \in [Slot -> Balances] /\ \A t \in Slot : b[t].reserved = balance[t].reserved
  BY <1>1, <1>3, OnHandFacts, OnHandKeepsReserved, ZenonT(30)
<1>8. \A t \in Slot : balance'[t].reserved = balance[t].reserved
  <2> HIDE DEF b
  <2>1. \A t \in Slot : OnHand(b, d, more)[t].reserved = b[t].reserved
    BY <1>1, <1>3, <1>7, OnHandKeepsReserved
  <2> QED  BY <2>1, <1>5, <1>7
<1>9. \A r \in Reservation : Issued(ledger', r) = Issued(ledger, r)
  <2> SUFFICES ASSUME NEW r \in Reservation PROVE Issued(ledger', r) = Issued(ledger, r)
    OBVIOUS
  <2>1. None # r
    BY InventoryAssumption
  <2>2. Issued(ledger, r) \in Int /\ Issued(l, r) = Issued(ledger, r) + 0
    BY <2>1, <1>1, <1>4, <1>5, EnteredIssues
  <2> HIDE DEF l
  <2>3. Issued(l, r) \in Int /\ Issued(ledger', r) = Issued(l, r) + 0
    BY <2>1, <1>1, <1>4, <1>5, <1>6, EnteredIssues
  <2> QED  BY <2>2, <2>3
<1>10. LedgersBounded' /\ UnmadeUntouched'
  <2> HIDE DEF l
  <2> QED  BY <1>1, <1>4, <1>5, <1>6, BoundKept DEF Accounted, LedgersBounded, UnmadeUntouched
<1> QED  BY <1>5, <1>8, <1>9, <1>10, ReservedKept, IssuesKept DEF Accounted, AccountRows

LEMMA CreateAccounts ==
    ASSUME IInv, IInv', Accounted, NEW p \in Request, NEW r \in Reservation, CreateReservation(p, r)
    PROVE  AccountRows'
<1> DEFINE s == req[p].slot
           q == req[p].quantity
           row == [status |-> "active", slot |-> s, quantity |-> q, consumed |-> 0]
<1>1. /\ s \in Slot /\ q \in Nat /\ balanceLock[s] = p /\ seen[p][s] = balance[s]
      /\ balance \in [Slot -> Balances] /\ reservation \in [Reservation -> Reservations]
  BY DEF IInv, CreateReservation, RequestsFormed, PostingHoldsBalances, BalancesAsLocked, Quantity,
         TypeOK
<1>2. balance[s].reserved \in Nat
  BY <1>1 DEF Balances
<1>3. /\ balance' = Reserving(balance, s, balance[s].reserved + q)
      /\ reservation' = [reservation EXCEPT ![r] = row] /\ reservation[r].status = "none"
      /\ UNCHANGED ledger
  BY <1>1 DEF CreateReservation, Before
<1>4. row \in Reservations /\ row.consumed = 0 /\ row.status # "none"
  BY <1>1 DEF Reservations
<1>5. /\ \A t \in Slot : Holding(reservation[r], t) = 0
      /\ Holding(row, s) = q /\ \A t \in Slot \ {s} : Holding(row, t) = 0
  BY <1>1, <1>3 DEF Holding, Left
<1> HIDE DEF s, q, row
<1>6. /\ balance'[s].reserved = balance[s].reserved + q
      /\ \A t \in Slot \ {s} : balance'[t] = balance[t] /\ balance[t].reserved \in Nat
  BY <1>1, <1>2, <1>3, ReservingFacts DEF Balances
<1>7. ReservedByReservations'
  <2>1. \A t \in Slot : balance'[t].reserved =
            (balance[t].reserved - Holding(reservation[r], t)) + Holding(row, t)
    BY <1>1, <1>2, <1>5, <1>6
  <2> QED  BY <2>1, <1>3, <1>4, ReservedMoves DEF Accounted
<1>8. /\ \A x \in Reservation : reservation'[x].consumed = reservation[x].consumed
      /\ UnmadeUntouched'
  <2>1. reservation'[r] = row /\ \A x \in Reservation \ {r} : reservation'[x] = reservation[x]
    BY <1>1, <1>3
  <2> QED  BY <2>1, <1>3, <1>4 DEF Accounted, UnmadeUntouched
<1>9. LedgersBounded'
  BY <1>3 DEF Accounted, LedgersBounded
<1> QED  BY <1>3, <1>7, <1>8, <1>9, IssuesKept DEF Accounted, AccountRows

LEMMA ConsumeAccounts ==
    ASSUME IInv, IInv', Accounted, NEW p \in Request, ConsumeReservation(p)
    PROVE  AccountRows'
<1> DEFINE s == req[p].slot
           r == req[p].target
           q == req[p].quantity
           old == reservation[r]
           row == Consumed(old, q)
           left == balance[s].onHand - q
           n == balance[s].reserved - q
           e == Entry("issue", balance[s].onHand, left, r)
           b == OnHand(balance, s, left)
<1>1. /\ s \in Slot /\ q \in Quantity /\ q \in Nat /\ balanceLock[s] = p /\ seen[p][s] = balance[s]
      /\ r \in Reservation /\ q <= Left(old) /\ seenReservation[p] = old /\ Open(r)
      /\ old.slot = s
  BY DEF IInv, ConsumeReservation, RequestsFormed, PostingHoldsBalances, BalancesAsLocked, Quantity,
         ReservationsAsLocked, OnReservations
<1>2. /\ balance \in [Slot -> Balances] /\ ledger \in [Slot -> Seq(Entries)]
      /\ reservation \in [Reservation -> Reservations]
  BY DEF IInv, TypeOK
<1>3. /\ balance[s].onHand \in Nat /\ balance[s].reserved \in Nat
      /\ old \in Reservations /\ old.quantity \in Nat /\ old.consumed \in Nat
  BY <1>1, <1>2 DEF Balances, Reservations
<1>4. /\ balance' = Reserving(b, s, n) /\ ledger' = Entered(ledger, s, e)
      /\ reservation' = [reservation EXCEPT ![r] = row]
      /\ q <= balance[s].reserved /\ q <= balance[s].onHand /\ Len(ledger[s]) < MaxMovements
  BY <1>1 DEF ConsumeReservation, Before, Room
<1>5. left \in Nat /\ n \in Nat
  BY <1>1, <1>3, <1>4
<1>6. e \in Entries /\ e.before - e.after = q /\ e.reservation = r
  <2>1. "issue" \in EntryKinds
    BY DEF EntryKinds, Decreases
  <2>2. e \in Entries /\ e.before = balance[s].onHand /\ e.after = left
    BY <2>1, <1>1, <1>3, <1>5, EntryFacts
  <2> QED  BY <2>2, <1>1, <1>3 DEF Entry
<1>7. row \in Reservations /\ row.consumed = old.consumed + q /\ row.slot = s /\ row.status # "none"
  BY <1>1, <1>3, ReservationRowFacts DEF Consumed
<1>8. /\ Holding(old, s) = Left(old) /\ Holding(row, s) = Left(old) - q
      /\ \A t \in Slot \ {s} : Holding(old, t) = 0 /\ Holding(row, t) = 0
  BY <1>1, <1>3, <1>7 DEF Holding, Left, Consumed, Open
<1>a. Left(old) \in Int
  BY <1>3 DEF Left
<1> HIDE DEF s, r, q, e, row, left, n, old
<1>9. /\ balance'[s].reserved = n
      /\ \A t \in Slot \ {s} : balance'[t] = balance[t] /\ balance[t].reserved \in Nat
  <2>1. b \in [Slot -> Balances] /\ \A t \in Slot \ {s} : b[t] = balance[t]
    BY <1>1, <1>2, <1>5, OnHandFacts
  <2> HIDE DEF b
  <2>2. /\ Reserving(b, s, n)[s].reserved = n
        /\ \A t \in Slot \ {s} : Reserving(b, s, n)[t] = b[t]
    BY <1>1, <1>5, <2>1, ReservingFacts
  <2> QED  BY <2>1, <2>2, <1>2, <1>4 DEF Balances
<1>10. ReservedByReservations'
  <2>1. \A t \in Slot : balance'[t].reserved = (balance[t].reserved - Holding(old, t)) + Holding(row, t)
    <3>1. n = (balance[s].reserved - Left(old)) + (Left(old) - q)
      BY <1>1, <1>3, <1>a DEF n
    <3> QED  BY <3>1, <1>8, <1>9
  <2> QED  BY <2>1, <1>1, <1>4, <1>7, ReservedMoves DEF Accounted, old
<1>11. \A x \in Reservation : reservation'[x] = IF x = r THEN row ELSE reservation[x]
  BY <1>2, <1>4
<1>12. LedgersBounded' /\ UnmadeUntouched'
  BY <1>1, <1>2, <1>4, <1>6, <1>7, <1>11, BoundKept DEF Accounted, LedgersBounded, UnmadeUntouched
<1>13. IssuesMatchConsumption'
  <2> SUFFICES ASSUME NEW x \in Reservation PROVE reservation'[x].consumed = Issued(ledger', x)
    BY DEF IssuesMatchConsumption, Issued, IssuedAt, Issues
  <2>1. /\ Issued(ledger, x) \in Int
        /\ Issued(ledger', x) = Issued(ledger, x) + (IF r = x THEN q ELSE 0)
    BY <1>1, <1>2, <1>4, <1>6, EnteredIssues
  <2>2. reservation[x].consumed = Issued(ledger, x)
    BY ConsumedIsIssued DEF Accounted
  <2> QED  BY <2>1, <2>2, <1>7, <1>11 DEF old
<1> QED  BY <1>10, <1>12, <1>13 DEF AccountRows

LEMMA ReleaseAccounts ==
    ASSUME IInv, IInv', Accounted, NEW p \in Request, ReleaseReservation(p)
    PROVE  AccountRows'
<1> DEFINE s == req[p].slot
           r == req[p].target
           q == req[p].quantity
           old == reservation[r]
           row == Released(old)
           n == balance[s].reserved - q
<1>1. /\ s \in Slot /\ q \in Nat /\ balanceLock[s] = p /\ seen[p][s] = balance[s]
      /\ r \in Reservation /\ Open(r) /\ old.slot = s
  BY DEF IInv, ReleaseReservation, RequestsFormed, PostingHoldsBalances, BalancesAsLocked, Quantity,
         ReservationsAsLocked, OnReservations
<1>2. q = Left(old)
  BY DEF Accounted, ReleasesAll, ReleaseReservation
<1>3. balance \in [Slot -> Balances] /\ reservation \in [Reservation -> Reservations]
  BY DEF IInv, TypeOK
<1>4. balance[s].reserved \in Nat /\ old \in Reservations
  BY <1>1, <1>3 DEF Balances
<1>5. /\ balance' = Reserving(balance, s, n) /\ reservation' = [reservation EXCEPT ![r] = row]
      /\ q <= balance[s].reserved /\ UNCHANGED ledger
  BY <1>1, <1>3 DEF ReleaseReservation, Before
<1>6. row \in Reservations /\ row.consumed = old.consumed /\ row.status = "released"
  BY <1>4, ReservationRowFacts DEF Released
<1>7. /\ Holding(old, s) = q /\ \A t \in Slot \ {s} : Holding(old, t) = 0
      /\ \A t \in Slot : Holding(row, t) = 0
  BY <1>1, <1>2, <1>6 DEF Holding, Open
<1>8. n \in Nat
  BY <1>1, <1>4, <1>5
<1> HIDE DEF s, r, q, row, old, n
<1>9. /\ balance'[s].reserved = n
      /\ \A t \in Slot \ {s} : balance'[t] = balance[t] /\ balance[t].reserved \in Nat
  BY <1>1, <1>3, <1>5, <1>8, ReservingFacts DEF Balances
<1>10. ReservedByReservations'
  <2>1. \A t \in Slot : balance'[t].reserved = (balance[t].reserved - Holding(old, t)) + Holding(row, t)
    <3>1. n = (balance[s].reserved - q) + 0
      BY <1>1, <1>4 DEF n
    <3> QED  BY <3>1, <1>7, <1>9
  <2> QED  BY <2>1, <1>1, <1>5, <1>6, ReservedMoves DEF Accounted, old
<1>11. \A x \in Reservation : reservation'[x] = IF x = r THEN row ELSE reservation[x]
  BY <1>3, <1>5
<1>12. LedgersBounded' /\ UnmadeUntouched' /\ \A x \in Reservation : reservation'[x].consumed = reservation[x].consumed
  BY <1>1, <1>5, <1>6, <1>11 DEF Accounted, LedgersBounded, UnmadeUntouched, old
<1>13. IssuesMatchConsumption'
  BY <1>5, <1>12, IssuesKept DEF Accounted
<1> QED  BY <1>10, <1>12, <1>13 DEF AccountRows

\* Every commit keeps the accounts.
LEMMA CommitAccounts ==
    ASSUME IInv, IInv', Accounted, NEW p \in Request, Commit(p)
    PROVE  AccountRows'
<1>1. ASSUME NEW after, Post(p, after, None), req[p].kind \in EntryKinds,
             after = Before(p).onHand + req[p].quantity \/
                 (after = Before(p).onHand - req[p].quantity /\ Sufficient(p))
      PROVE  AccountRows'
  <2>1. req[p].slot \in Slot /\ req[p].quantity \in Nat
    BY <1>1 DEF Post, IInv, RequestsFormed, Quantity
  <2>2. Before(p).onHand \in Nat /\ Before(p).reserved \in Nat
    BY <2>1 DEF IInv, TypeOK, Before, Balances
  <2>3. after \in Nat
    BY <1>1, <2>1, <2>2 DEF Sufficient, Available
  <2> QED  BY <1>1, <2>3, PostAccounts
<1>2. CASE ReceiveStock(p) \/ ReturnStock(p) \/ AdjustIn(p) \/ OpeningBalance(p)
  <2>1. req[p].kind \in EntryKinds /\ Post(p, Before(p).onHand + req[p].quantity, None)
    BY <1>2 DEF ReceiveStock, ReturnStock, AdjustIn, OpeningBalance, EntryKinds, Increases
  <2> QED  BY <1>1, <2>1
<1>3. CASE IssueStock(p) \/ AdjustOut(p)
  <2>1. /\ req[p].kind \in EntryKinds /\ Post(p, Before(p).onHand - req[p].quantity, None)
        /\ Sufficient(p)
    BY <1>3 DEF IssueStock, AdjustOut, EntryKinds, Decreases
  <2> QED  BY <1>1, <2>1
<1> QED  BY <1>2, <1>3, TransferAccounts, CreateAccounts, ConsumeAccounts, ReleaseAccounts DEF Commit

\* A release that goes on still gives back all that is left: nobody else changes its reservation.
LEMMA EndReleases ==
    ASSUME IInv, ReleasesAll, NEW p \in Request, Ended(p)
    PROVE  ReleasesAll'
<1> SUFFICES ASSUME NEW x \in Request, req'[x].kind = "release",
                    req'[x].phase \in {"locking", "posting"}
             PROVE  req'[x].quantity = Left(reservation'[req'[x].target])
  BY DEF ReleasesAll, Left
<1>1. x # p /\ req'[x] = req[x]
  BY NothingTypes DEF Ended, Finish, IInv, TypeOK
<1>2. req[x].target \in Reservation /\ reservationLock[req[x].target] = x
  BY <1>1 DEF IInv, RequestsFormed, OnReservations
<1>3. reservation'[req[x].target] = reservation[req[x].target]
  BY <1>1, <1>2, NoneApart DEF Ended
<1> QED  BY <1>1, <1>3 DEF ReleasesAll

\* Who begins a release has not locked its reservation yet; who locks it reads what is left.
LEMMA GoingOnReleases ==
    ASSUME IInv, ReleasesAll, NEW p \in Request,
           Begin(p) \/ LockReservation(p) \/ LockBalance(p)
    PROVE  ReleasesAll'
<1>1. req \in [Request -> Requests] /\ UNCHANGED reservation
  BY BeginPreserves, LockReservationPreserves, LockBalancePreserves DEF IInv, TypeOK, rows
<1> SUFFICES ASSUME NEW x \in Request, req'[x].kind = "release",
                    req'[x].phase \in {"locking", "posting"}
             PROVE  req'[x].quantity = Left(reservation[req'[x].target])
  BY <1>1 DEF ReleasesAll, Left
<1>2. CASE Begin(p)
  <2>1. \A y \in Request \ {p} : req'[y] = req[y]
    BY <1>1, <1>2 DEF Begin, BeginStock, BeginTransfer, BeginOnReservation
  <2>2. ~(req'[p].kind = "release" /\ req'[p].phase \in {"locking", "posting"})
    <3>1. ASSUME NEW q, NEW k \in Asked \ ({"transfer"} \cup OnReservations), NEW s, BeginStock(p, k, s, q)
          PROVE  req'[p].kind # "release"
      BY <1>1, <3>1 DEF BeginStock, StockRequest, OnReservations
    <3>2. ASSUME NEW q, NEW s, NEW d, BeginTransfer(p, s, d, q)
          PROVE  req'[p].kind # "release"
      BY <1>1, <3>2 DEF BeginTransfer, TransferRequest
    <3>3. ASSUME NEW q, NEW k, NEW r, BeginOnReservation(p, k, r, q)
          PROVE  req'[p].phase = "reservation"
      BY <1>1, <3>3 DEF BeginOnReservation, ReservationRequest
    <3> QED  BY <1>2, <3>1, <3>2, <3>3 DEF Begin
  <2> QED  BY <2>1, <2>2 DEF ReleasesAll
<1>3. CASE LockReservation(p)
  <2>1. \A y \in Request \ {p} : req'[y] = req[y]
    BY <1>1, <1>3 DEF LockReservation
  <2>2. /\ req'[p].kind = req[p].kind /\ req'[p].target = req[p].target
        /\ req[p].kind = "release" => req'[p].quantity = Left(reservation[req[p].target])
    BY <1>1, <1>3 DEF LockReservation, Requests
  <2> QED  BY <2>1, <2>2 DEF ReleasesAll
<1>4. CASE LockBalance(p)
  <2>1. \A y \in Request \ {p} : req'[y] = req[y]
    BY <1>1, <1>4 DEF LockBalance
  <2>2. /\ req'[p].kind = req[p].kind /\ req'[p].target = req[p].target
        /\ req'[p].quantity = req[p].quantity /\ req[p].phase = "locking"
    BY <1>1, <1>4 DEF LockBalance, Requests
  <2> QED  BY <2>1, <2>2 DEF ReleasesAll
<1> QED  BY <1>2, <1>3, <1>4

\* Steps that change no balance, movement or reservation.
LEMMA RowsKept ==
    ASSUME AccountRows, UNCHANGED <<balance, ledger, reservation>>
    PROVE  AccountRows'
<1>1. LedgersBounded' /\ UnmadeUntouched'
  BY DEF AccountRows, LedgersBounded, UnmadeUntouched
<1>2. ReservedByReservations'
  BY ReservedKept DEF AccountRows
<1>3. IssuesMatchConsumption'
  BY IssuesKept DEF AccountRows
<1> QED  BY <1>1, <1>2, <1>3 DEF AccountRows

LEMMA NextAccounts ==
    ASSUME IInv, Accounted, [Next]_vars
    PROVE  Accounted'
<1> SUFFICES AccountRows' /\ ReleasesAll'
  BY DEF Accounted, AccountRows
<1>1. IInv'
  BY NextPosts
<1>2. AccountRows /\ ReleasesAll
  BY DEF Accounted, AccountRows
<1>3. ASSUME NEW p \in Request, Step(p)
      PROVE  AccountRows' /\ ReleasesAll'
  <2>1. CASE Commit(p)
    BY <1>1, <1>2, <2>1, CommitAccounts, CommitPosts, EndReleases DEF Posting
  <2>2. CASE RollBack(p)
    BY <1>2, <2>2, RollBackEnds, EndReleases, RowsKept DEF RollBack, rows
  <2>3. CASE Begin(p) \/ LockReservation(p) \/ LockBalance(p)
    <3>1. UNCHANGED rows
      BY <2>3, BeginPreserves, LockReservationPreserves, LockBalancePreserves
    <3> QED  BY <1>2, <2>3, <3>1, GoingOnReleases, RowsKept DEF rows
  <2> QED  BY <1>3, <2>1, <2>2, <2>3 DEF Step
<1>4. ASSUME UNCHANGED <<balance, ledger, reservation, req>>
      PROVE  AccountRows' /\ ReleasesAll'
  BY <1>2, <1>4, RowsKept DEF ReleasesAll, Left
<1>5. CASE UNCHANGED vars
  BY <1>4, <1>5 DEF vars, rows
<1>6. CASE \/ \E r \in Reservation : Lapse(r)
           \/ \E l \in Location : DeactivateLocation(l) \/ ReactivateLocation(l)
           \/ \E i \in Item : DeactivateItem(i) \/ ReactivateItem(i)
  BY <1>4, <1>6 DEF Lapse, DeactivateLocation, ReactivateLocation, DeactivateItem, ReactivateItem
<1> QED  BY <1>3, <1>5, <1>6 DEF Next

LEMMA InitAccounts == Init => Accounted
<1> SUFFICES ASSUME Init PROVE Accounted
  OBVIOUS
<1>1. LedgersBounded /\ UnmadeUntouched /\ ReleasesAll
  BY InventoryAssumption, NothingTypes
  DEF Init, LedgersBounded, UnmadeUntouched, ReleasesAll, NoReservation, NoRequest
<1>2. ReservedByReservations
  <2> SUFFICES ASSUME NEW s \in Slot PROVE balance[s].reserved = Held(s)
    BY ReservedIsHeld
  <2>1. Holders(s) = {} /\ balance[s].reserved = 0
    BY DEF Init, Holders, Open, NoReservation, NoBalance
  <2>2. Held(s) = 0
    BY <2>1, SumEmpty DEF Held, SumFunction
  <2> QED  BY <2>1, <2>2
<1>3. IssuesMatchConsumption
  <2> SUFFICES ASSUME NEW r \in Reservation PROVE reservation[r].consumed = Issued(ledger, r)
    BY ConsumedIsIssued
  <2>1. IssuedAt(ledger, r) = {} /\ reservation[r].consumed = 0
    BY DEF Init, IssuedAt, NoReservation
  <2>2. Issued(ledger, r) = 0
    BY <2>1, SumEmpty DEF Issued, SumFunction
  <2> QED  BY <2>1, <2>2
<1> QED  BY <1>1, <1>2, <1>3 DEF Accounted

LEMMA AccountsInvariant == Spec => [](IInv /\ Accounted)
<1>1. IInv /\ [Next]_vars => IInv'
  BY NextPosts
<1> QED  BY <1>1, InitIInv, InitAccounts, NextAccounts, PTL DEF Spec

\* For any items, locations, reservations and concurrent requests, whatever interleaves or
\* fails: a balance's reserved quantity is what its open reservations still hold of it.
THEOREM ReservedIsAccounted == Spec => []ReservedByReservations
<1>1. Accounted => ReservedByReservations
  BY DEF Accounted
<1> QED  BY <1>1, AccountsInvariant, PTL

\* ... and what a reservation says was consumed is what the movements issued against it.
THEOREM ConsumptionIsAccounted == Spec => []IssuesMatchConsumption
<1>1. Accounted => IssuesMatchConsumption
  BY DEF Accounted
<1> QED  BY <1>1, AccountsInvariant, PTL
=============================================================================
