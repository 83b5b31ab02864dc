--------------------------- MODULE InvoicesProofs ---------------------------
(***************************************************************************)
(* Proofs about Invoices, for any invoices, expenses and payments and any  *)
(* number of concurrent requests.                                          *)
(*                                                                         *)
(* Nothing is locked, so nothing a request checked need still hold when it *)
(* commits.  What carries the argument is how little it writes over: the   *)
(* status it writes is its own or the one it loaded (RequestsFormed), and  *)
(* what it is about to charge nobody else charges unless it missed that    *)
(* (NobodyElseCharges).                                                    *)
(*                                                                         *)
(* The totals rest on three more facts.  A request that missed nothing of  *)
(* its invoice still holds the row as it is, and the row it will write     *)
(* fits what it sees (ReadsStand); what it sees is what it will find when  *)
(* it commits, since another's commit changes neither the lines nor the    *)
(* payments of this invoice (PaymentsHeld, CommitLeavesSeen); and only     *)
(* drafts have their lines or their discount changed (Allowed).            *)
(***************************************************************************)
EXTENDS Invoices, TLAPS, SumTheorems

Pending(p) == req[p].phase # "idle"

Charges(i, s) == Standing(i) /\ line[i][s].state = "active"

\* What the proofs need of the types: amounts of money do not matter to them.
Shaped ==
    /\ DOMAIN invoice = Invoice /\ \A i \in Invoice : "status" \in DOMAIN invoice[i]
    /\ line \in [Invoice -> [Source -> Lines]]
    /\ DOMAIN req = Request
    /\ \A p \in Request :
         /\ DOMAIN req[p] = DOMAIN NoRequest
         /\ "status" \in DOMAIN req[p].row
         /\ req[p].phase \in {"idle", "loaded", "written"}
         /\ req[p].lines \in [Source -> Lines] /\ req[p].amount \in Nat
         /\ ~Pending(p) => req[p].invoice = None
         /\ Pending(p) => req[p].invoice \in Invoice
    /\ missed \in [Request -> SUBSET (Invoice \cup Charged)]
    /\ crossed \subseteq Invoice \cup Charged

\* An invoice that was not made has no lines.
UnusedIsEmpty == \A i \in Invoice : invoice[i].status = "none" => line[i] = NoLines

\* Who creates an invoice is alone on it; who works on one loaded it standing, and writes
\* the status it loaded or one that is not a draft's.
Creates(p) ==
    /\ req[p].phase = "written" /\ req[p].was.status = "none" /\ req[p].row.status = "draft"
    /\ invoice[req[p].invoice].status = "none"
    /\ \A q \in Request \ {p} : req[q].invoice # req[p].invoice

WorksOn(p) ==
    /\ invoice[req[p].invoice].status # "none"
    /\ req[p].was.status \notin {"none", "void"}
    /\ req[p].phase = "loaded" => req[p].row.status = req[p].was.status
    /\ req[p].row.status = req[p].was.status \/ req[p].row.status \notin {"none", "draft"}
    /\ req[p].invoice \notin missed[p] => invoice[req[p].invoice].status = req[p].was.status
    /\ req[p].operation = "add_expense_line_item" => req[p].source \in Expense
    /\ req[p].operation = "add_manual_line_item" => req[p].source \in Manual

RequestsFormed ==
    \A p \in Request : Pending(p) => IF req[p].operation \in Creating THEN Creates(p) ELSE WorksOn(p)

\* What a request is about to charge, nobody else charges, unless it missed that.
NobodyElseCharges ==
    \A p \in Request, s \in Charged :
        (Pending(p) /\ s \in Touched(p) /\ missed[p] \cap {s, req[p].invoice} = {}) =>
            \A j \in Invoice \ (crossed \cup {req[p].invoice}) : ~Charges(j, s)

IInv == Shaped /\ UnusedIsEmpty /\ RequestsFormed /\ NobodyElseCharges /\ ChargedOnce

-----------------------------------------------------------------------------
(* The operators of the model.                                             *)

\* Recalculating a row leaves a draft a draft and makes nothing else one.
LEMMA RecalculatedStatus ==
    ASSUME NEW row, "status" \in DOMAIN row, NEW subtotal, NEW paid
    PROVE  LET r == Recalculated(row, subtotal, paid)
           IN /\ DOMAIN r = DOMAIN row
              /\ row.status = "draft" => r.status = "draft"
              /\ row.status # "draft" => r.status \notin {"none", "draft"}
BY DEF Recalculated, Settled

\* The status that is written is the request's own, or stays.
LEMMA FlushedStatus ==
    ASSUME NEW was, NEW row, NEW now, "status" \in DOMAIN now
    PROVE  LET f == Flushed(was, row, now)
           IN /\ DOMAIN f = DOMAIN now
              /\ f.status = IF row.status # was.status THEN row.status ELSE now.status
BY DEF Flushed

\* The lines with the change of a request are lines.
LEMMA LinesAfterType ==
    ASSUME Shaped, NEW p \in Request, Pending(p)
    PROVE  LinesAfter(p) \in [Source -> Lines]
<1> DEFINE ls == line[req[p].invoice]
           s == req[p].source
<1>1. ls \in [Source -> Lines]
  BY DEF Shaped
<1>2. req[p].lines \in [Source -> Lines] /\ req[p].amount \in Nat
  BY DEF Shaped
<1>3. \A a \in Nat : [ls EXCEPT ![s] = Active(a)] \in [Source -> Lines]
  BY <1>1 DEF Active, Lines
<1>4. \A a \in Nat : [ls EXCEPT ![s].amount = a] \in [Source -> Lines]
  BY <1>1 DEF Lines
<1>5. [ls EXCEPT ![s] = IF s \in Expense THEN [@ EXCEPT !.state = "removed"] ELSE NoLine]
        \in [Source -> Lines]
  BY <1>1 DEF Lines, NoLine, Source
<1> QED
  BY <1>1, <1>2, <1>3, <1>4, <1>5 DEF LinesAfter

\* What a request newly charges is what it creates or adds, and was active nowhere on
\* its invoice before.
LEMMA NewlyCharged ==
    ASSUME Shaped, NEW p \in Request, Pending(p), NEW s \in Charged, s \in Touched(p),
           RequestsFormed
    PROVE  \/ req[p].operation \in Creating /\ req[p].lines[s].state = "active"
           \/ req[p].operation = "add_expense_line_item" /\ req[p].source = s
<1>1. s \in Source /\ s \notin Invoice /\ s \notin Manual
  BY InvoicesAssumption DEF Charged, Source
<1>2. req[p].invoice \in Invoice
  BY DEF Shaped
<1>3. LinesAfter(p)[s].state = "active" /\ line[req[p].invoice][s].state # "active"
  BY <1>1, <1>2 DEF Touched
<1>4. line[req[p].invoice] \in [Source -> Lines]
  BY <1>2 DEF Shaped
<1> DEFINE ls == line[req[p].invoice]
           t == req[p].source
<1>5. CASE req[p].operation \in Creating
  BY <1>3, <1>5 DEF LinesAfter, Creating, AddLine
<1>6. CASE req[p].operation \in AddLine
  <2>1. req[p].operation \notin Creating
    BY <1>6 DEF AddLine, Creating
  <2>2. LinesAfter(p) = [ls EXCEPT ![t] = Active(req[p].amount)]
    BY <1>6, <2>1 DEF LinesAfter, Creating, AddLine
  <2>3. t = s
    BY <1>1, <1>3, <1>4, <2>2
  <2>4. req[p].operation = "add_manual_line_item" => t \in Manual
    BY <2>1 DEF RequestsFormed, WorksOn
  <2> QED
    BY <1>1, <1>6, <2>3, <2>4 DEF AddLine
<1>7. CASE req[p].operation \notin Creating \cup AddLine
  <2>1. CASE LinesAfter(p) = [ls EXCEPT ![t].amount = req[p].amount]
    <3>1. LinesAfter(p)[s].state = ls[s].state
      BY <1>1, <1>4, <2>1 DEF Lines
    <3> QED
      BY <1>3, <3>1
  <2>2. CASE LinesAfter(p) =
               [ls EXCEPT ![t] = IF t \in Expense THEN [@ EXCEPT !.state = "removed"] ELSE NoLine]
    <3>1. CASE t = s
      BY <1>1, <1>3, <1>4, <2>2, <3>1 DEF Lines, NoLine
    <3>2. CASE t # s
      BY <1>1, <1>3, <1>4, <2>2, <3>2
    <3> QED
      BY <3>1, <3>2
  <2>3. CASE LinesAfter(p) = ls
    BY <1>3, <2>3
  <2> QED
    BY <1>7, <2>1, <2>2, <2>3 DEF LinesAfter, Creating, AddLine
<1> QED
  BY <1>5, <1>6, <1>7

\* The same, after a step.
LEMMA NewlyChargedLater ==
    (Shaped /\ RequestsFormed =>
       \A p \in Request, s \in Charged :
          Pending(p) /\ s \in Touched(p) =>
             \/ req[p].operation \in Creating /\ req[p].lines[s].state = "active"
             \/ req[p].operation = "add_expense_line_item" /\ req[p].source = s)'
<1>1. Shaped /\ RequestsFormed =>
        \A p \in Request, s \in Charged :
           Pending(p) /\ s \in Touched(p) =>
              \/ req[p].operation \in Creating /\ req[p].lines[s].state = "active"
              \/ req[p].operation = "add_expense_line_item" /\ req[p].source = s
  BY NewlyCharged
<1> QED
  BY <1>1, PTL

\* A request whose invoice's lines stay would still write what it would have written.
LEMMA TouchedStays ==
    ASSUME NEW p \in Request,
           req'[p].invoice = req[p].invoice, req'[p].operation = req[p].operation,
           req'[p].source = req[p].source, req'[p].amount = req[p].amount,
           req'[p].lines = req[p].lines, line'[req[p].invoice] = line[req[p].invoice]
    PROVE  Touched(p)' = Touched(p)
<1>1. LinesAfter(p)' = LinesAfter(p)
  BY DEF LinesAfter
<1> QED
  BY <1>1 DEF Touched
-----------------------------------------------------------------------------
(* Loading.                                                                *)

\* A load gives one request its fields, and changes nothing else.
LEMMA LoadFrame ==
    ASSUME Shaped, NEW p \in Request, NEW phase, NEW op, NEW i, NEW s, NEW n, NEW amount,
           NEW ls, NEW row, Load(p, phase, op, i, s, n, amount, ls, row)
    PROVE  /\ DOMAIN req' = Request
           /\ \A q \in Request \ {p} : req'[q] = req[q] /\ missed'[q] = missed[q]
           /\ DOMAIN req'[p] = DOMAIN NoRequest
           /\ req'[p].phase = phase /\ req'[p].operation = op /\ req'[p].invoice = i
           /\ req'[p].source = s /\ req'[p].amount = amount /\ req'[p].lines = ls
           /\ req'[p].was = invoice[i] /\ req'[p].row = row
           /\ missed'[p] = {} /\ missed' \in [Request -> SUBSET (Invoice \cup Charged)]
           /\ UNCHANGED <<invoice, line, crossed>>
<1> DEFINE r == [phase |-> phase, operation |-> op, invoice |-> i, source |-> s,
                 payment |-> n, amount |-> amount,
                 fresh |-> s # None /\ line[i][s].state = "none",
                 lines |-> ls, was |-> invoice[i], row |-> row]
<1>1. req' = [req EXCEPT ![p] = r]
  BY DEF Load
<1>2. DOMAIN req = Request /\ missed \in [Request -> SUBSET (Invoice \cup Charged)]
  BY DEF Shaped
<1>3. req'[p] = r /\ DOMAIN req' = Request /\ \A q \in Request \ {p} : req'[q] = req[q]
  BY <1>1, <1>2
<1>4. DOMAIN r = DOMAIN NoRequest
  BY DEF NoRequest
<1>5. missed' = [missed EXCEPT ![p] = {}] /\ UNCHANGED <<invoice, line, crossed>>
  BY DEF Load, rows
<1> QED
  BY <1>2, <1>3, <1>4, <1>5

\* What holds of the other requests still holds when one loads an invoice that none of
\* them is creating.
LEMMA OthersStay ==
    ASSUME IInv, NEW p \in Request, UNCHANGED <<invoice, line, crossed>>,
           \A q \in Request \ {p} : req'[q] = req[q] /\ missed'[q] = missed[q],
           \A q \in Request \ {p} :
               Pending(q) /\ req[q].operation \in Creating => req'[p].invoice # req[q].invoice
    PROVE  \A q \in Request \ {p} :
              /\ Pending(q)' => IF req'[q].operation \in Creating THEN Creates(q)' ELSE WorksOn(q)'
              /\ \A s \in Charged :
                    (Pending(q)' /\ s \in Touched(q)' /\ missed'[q] \cap {s, req'[q].invoice} = {}) =>
                        \A j \in Invoice \ (crossed' \cup {req'[q].invoice}) : ~Charges(j, s)'
<1> SUFFICES ASSUME NEW q \in Request \ {p}
             PROVE  /\ Pending(q)' => IF req'[q].operation \in Creating THEN Creates(q)' ELSE WorksOn(q)'
                    /\ \A s \in Charged :
                          (Pending(q)' /\ s \in Touched(q)' /\ missed'[q] \cap {s, req'[q].invoice} = {}) =>
                              \A j \in Invoice \ (crossed' \cup {req'[q].invoice}) : ~Charges(j, s)'
  OBVIOUS
<1>1. req'[q] = req[q] /\ missed'[q] = missed[q] /\ Pending(q)' = Pending(q)
  BY DEF Pending
<1>2. Touched(q)' = Touched(q)
  BY <1>1, TouchedStays
<1>3. Pending(q) => IF req[q].operation \in Creating THEN Creates(q) ELSE WorksOn(q)
  BY DEF IInv, RequestsFormed
<1>4. ASSUME Pending(q), req[q].operation \in Creating PROVE Creates(q)'
  BY <1>1, <1>3, <1>4 DEF Creates
<1>5. ASSUME Pending(q), req[q].operation \notin Creating PROVE WorksOn(q)'
  BY <1>1, <1>3, <1>5 DEF WorksOn
<1>6. \A j, s : Charges(j, s)' = Charges(j, s)
  BY DEF Charges, Standing
<1>7. ASSUME NEW s \in Charged, Pending(q), s \in Touched(q), missed[q] \cap {s, req[q].invoice} = {},
             NEW j \in Invoice \ (crossed \cup {req[q].invoice})
      PROVE  ~Charges(j, s)
  BY <1>7 DEF IInv, NobodyElseCharges
<1> QED
  BY <1>1, <1>2, <1>4, <1>5, <1>6, <1>7
\* Loading an invoice to work on it.
LEMMA ChangeKeeps ==
    ASSUME IInv, NEW p \in Request, NEW op \in Operations \ Creating, NEW i \in Invoice, NEW s, NEW n,
           NEW amount \in Nat, NEW row, "status" \in DOMAIN row, row.status = invoice[i].status,
           Load(p, "loaded", op, i, s, n, amount, NoLines, row), Standing(i),
           op = "add_manual_line_item" => s \in Manual,
           op = "add_expense_line_item" => s \in Expense /\ ~AlreadyInvoiced(s, Invoice \ {i})
    PROVE  IInv'
<1>1. Shaped
  BY DEF IInv
<1> HIDE DEF Shaped
<1>2. /\ DOMAIN req' = Request
      /\ \A q \in Request \ {p} : req'[q] = req[q] /\ missed'[q] = missed[q]
      /\ DOMAIN req'[p] = DOMAIN NoRequest
      /\ req'[p].phase = "loaded" /\ req'[p].operation = op /\ req'[p].invoice = i
      /\ req'[p].source = s /\ req'[p].amount = amount /\ req'[p].lines = NoLines
      /\ req'[p].was = invoice[i] /\ req'[p].row = row
      /\ missed'[p] = {} /\ missed' \in [Request -> SUBSET (Invoice \cup Charged)]
      /\ UNCHANGED <<invoice, line, crossed>>
  BY <1>1, LoadFrame
<1>3. \A q \in Request \ {p} :
        Pending(q) /\ req[q].operation \in Creating => req'[p].invoice # req[q].invoice
  BY <1>2 DEF IInv, RequestsFormed, Creates, Standing
<1>4. Shaped'
  <2>1. NoLines \in [Source -> Lines]
    BY DEF NoLines, NoLine, Lines
  <2> QED
    BY <1>1, <1>2, <2>1 DEF Shaped, Pending
<1>5. UnusedIsEmpty'
  BY <1>2 DEF IInv, UnusedIsEmpty
<1>6. WorksOn(p)'
  BY <1>2 DEF WorksOn, Standing
<1>7. RequestsFormed'
  BY <1>2, <1>3, <1>6, OthersStay DEF RequestsFormed
<1>8. ASSUME NEW t \in Charged, t \in Touched(p)', NEW j \in Invoice \ {i}
      PROVE  ~Charges(j, t)'
  <2>1. Pending(p)'
    BY <1>2 DEF Pending
  <2>2. op = "add_expense_line_item" /\ s = t
    BY <1>2, <1>4, <1>7, <1>8, <2>1, NewlyChargedLater
  <2>3. ~Charges(j, t)
    BY <2>2 DEF AlreadyInvoiced, Charges
  <2> QED
    BY <1>2, <2>3 DEF Charges, Standing
<1>9. NobodyElseCharges'
  BY <1>2, <1>3, <1>8, OthersStay DEF NobodyElseCharges
<1>10. ChargedOnce'
  BY <1>2 DEF IInv, ChargedOnce, Standing
<1> QED
  BY <1>4, <1>5, <1>7, <1>9, <1>10 DEF IInv

\* Creating an invoice that charges nothing that is charged.
LEMMA DraftKeeps ==
    ASSUME IInv, NEW p \in Request, NEW op \in Creating, NEW i \in Invoice,
           NEW ls \in [Source -> Lines], NEW discount, Draft(p, op, i, ls, discount),
           \A s \in Charged : ls[s].state = "active" => \A j \in Invoice : ~Charges(j, s)
    PROVE  IInv'
<1> DEFINE draft == [NoInvoice EXCEPT !.status = "draft", !.discount = discount]
           row == Recalculated(draft, Subtotal(ls), 0)
<1>1. Shaped
  BY DEF IInv
<1>2. Unused(i) /\ Load(p, "written", op, i, None, None, 0, ls, row)
  BY DEF Draft
<1>3. "status" \in DOMAIN row /\ row.status = "draft"
  <2>1. "status" \in DOMAIN draft /\ draft.status = "draft"
    BY DEF NoInvoice
  <2> HIDE DEF draft
  <2> QED
    BY <2>1, RecalculatedStatus
<1> HIDE DEF row
<1>4. /\ DOMAIN req' = Request
      /\ \A q \in Request \ {p} : req'[q] = req[q] /\ missed'[q] = missed[q]
      /\ DOMAIN req'[p] = DOMAIN NoRequest
      /\ req'[p].phase = "written" /\ req'[p].operation = op /\ req'[p].invoice = i
      /\ req'[p].source = None /\ req'[p].amount = 0 /\ req'[p].lines = ls
      /\ req'[p].was = invoice[i] /\ req'[p].row = row
      /\ missed'[p] = {} /\ missed' \in [Request -> SUBSET (Invoice \cup Charged)]
      /\ UNCHANGED <<invoice, line, crossed>>
  BY <1>1, <1>2, LoadFrame
<1>5. \A q \in Request : req[q].invoice # i
  BY <1>2 DEF Unused
<1>6. Shaped'
  BY <1>1, <1>3, <1>4 DEF Shaped, Pending
<1>7. UnusedIsEmpty'
  BY <1>4 DEF IInv, UnusedIsEmpty
<1>8. Creates(p)'
  BY <1>2, <1>3, <1>4, <1>5 DEF Creates, Unused
<1>9. RequestsFormed'
  BY <1>4, <1>5, <1>8, OthersStay DEF RequestsFormed
<1>10. ASSUME NEW t \in Charged, t \in Touched(p)', NEW j \in Invoice
       PROVE  ~Charges(j, t)'
  <2>1. Pending(p)'
    BY <1>4 DEF Pending
  <2>2. ls[t].state = "active"
    BY <1>4, <1>6, <1>9, <1>10, <2>1, NewlyChargedLater DEF Creating
  <2> QED
    BY <1>4, <2>2 DEF Charges, Standing
<1>11. NobodyElseCharges'
  BY <1>4, <1>5, <1>10, OthersStay DEF NobodyElseCharges
<1>12. ChargedOnce'
  BY <1>4 DEF IInv, ChargedOnce, Standing
<1> QED
  BY <1>6, <1>7, <1>9, <1>11, <1>12 DEF IInv
-----------------------------------------------------------------------------
(* Writing, and giving up.                                                 *)

\* Settling on what to write.
LEMMA WriteKeeps ==
    ASSUME IInv, NEW p \in Request, req[p].phase = "loaded", NEW row, "status" \in DOMAIN row,
           row.status = req[p].was.status \/ row.status \notin {"none", "draft"}, Write(p, row)
    PROVE  IInv'
<1>1. Shaped /\ Pending(p) /\ req[p].invoice \in Invoice
  BY DEF IInv, Shaped, Pending
<1>2. /\ DOMAIN req' = Request
      /\ \A q \in Request \ {p} : req'[q] = req[q] /\ missed'[q] = missed[q]
      /\ DOMAIN req'[p] = DOMAIN NoRequest
      /\ req'[p].phase = "written" /\ req'[p].operation = req[p].operation
      /\ req'[p].invoice = req[p].invoice /\ req'[p].source = req[p].source
      /\ req'[p].amount = req[p].amount /\ req'[p].lines = req[p].lines
      /\ req'[p].was = req[p].was /\ req'[p].row = row
      /\ UNCHANGED <<invoice, line, missed, crossed>>
  <2>1. DOMAIN req = Request /\ DOMAIN req[p] = DOMAIN NoRequest
    BY <1>1 DEF Shaped
  <2>2. req' = [req EXCEPT ![p].phase = "written", ![p].row = row]
    BY DEF Write
  <2>3. UNCHANGED <<invoice, line, missed, crossed>>
    BY DEF Write, rows
  <2> QED
    BY <2>1, <2>2, <2>3 DEF NoRequest
<1>3. req[p].operation \notin Creating /\ WorksOn(p)
  BY <1>1 DEF IInv, RequestsFormed, Creates
<1>4. \A q \in Request \ {p} :
        Pending(q) /\ req[q].operation \in Creating => req'[p].invoice # req[q].invoice
  BY <1>2 DEF IInv, RequestsFormed, Creates
<1>5. Shaped'
  BY <1>1, <1>2 DEF Shaped, Pending
<1>6. UnusedIsEmpty'
  BY <1>2 DEF IInv, UnusedIsEmpty
<1>7. WorksOn(p)'
  BY <1>2, <1>3 DEF WorksOn
<1>8. RequestsFormed'
  BY <1>2, <1>3, <1>4, <1>7, OthersStay DEF RequestsFormed
<1>9. Touched(p)' = Touched(p)
  BY <1>2, TouchedStays
<1>10. \A j, s : Charges(j, s)' = Charges(j, s)
  BY <1>2 DEF Charges, Standing
<1>11. NobodyElseCharges'
  BY <1>1, <1>2, <1>4, <1>9, <1>10, OthersStay DEF IInv, NobodyElseCharges
<1>12. ChargedOnce'
  BY <1>2 DEF IInv, ChargedOnce, Standing
<1> QED
  BY <1>5, <1>6, <1>8, <1>11, <1>12 DEF IInv

\* The fields of a request that has ended.
LEMMA Ended ==
    ASSUME Shaped, NEW p \in Request, req' = [req EXCEPT ![p] = NoRequest]
    PROVE  /\ DOMAIN req' = Request /\ \A q \in Request \ {p} : req'[q] = req[q]
           /\ DOMAIN req'[p] = DOMAIN NoRequest /\ "status" \in DOMAIN req'[p].row
           /\ req'[p].phase = "idle" /\ req'[p].invoice = None /\ req'[p].amount = 0
           /\ req'[p].lines \in [Source -> Lines]
BY DEF Shaped, NoRequest, NoInvoice, NoLines, NoLine, Lines

\* Giving a request up.
LEMMA RollBackKeeps == ASSUME IInv, NEW p \in Request, RollBack(p) PROVE IInv'
<1>1. Shaped
  BY DEF IInv
<1>2. /\ DOMAIN req' = Request /\ \A q \in Request \ {p} : req'[q] = req[q]
      /\ DOMAIN req'[p] = DOMAIN NoRequest /\ "status" \in DOMAIN req'[p].row
      /\ req'[p].phase = "idle" /\ req'[p].invoice = None /\ req'[p].amount = 0
      /\ req'[p].lines \in [Source -> Lines]
  BY <1>1, Ended DEF RollBack
<1>3. /\ missed' \in [Request -> SUBSET (Invoice \cup Charged)]
      /\ \A q \in Request \ {p} : missed'[q] = missed[q]
      /\ UNCHANGED <<invoice, line, crossed>>
  BY <1>1 DEF RollBack, Shaped, rows
<1>4. ~Pending(p)'
  BY <1>2 DEF Pending
<1>5. \A q \in Request \ {p} :
        Pending(q) /\ req[q].operation \in Creating => req'[p].invoice # req[q].invoice
  BY <1>1, <1>2, InvoicesAssumption DEF Shaped
<1>6. Shaped'
  BY <1>1, <1>2, <1>3, <1>4 DEF Shaped, Pending
<1>7. UnusedIsEmpty' /\ ChargedOnce'
  BY <1>3 DEF IInv, UnusedIsEmpty, ChargedOnce, Standing
<1>8. RequestsFormed'
  BY <1>2, <1>3, <1>4, <1>5, OthersStay DEF RequestsFormed
<1>9. NobodyElseCharges'
  BY <1>2, <1>3, <1>4, <1>5, OthersStay DEF NobodyElseCharges
<1> QED
  BY <1>6, <1>7, <1>8, <1>9 DEF IInv
-----------------------------------------------------------------------------
(* Committing.                                                             *)

\* What a commit does to the rows, the requests and the history.
LEMMA CommitFrame ==
    ASSUME Shaped, NEW p \in Request, Commit(p)
    PROVE  LET i == req[p].invoice
           IN /\ i \in Invoice /\ Pending(p)
              /\ DOMAIN invoice' = Invoice /\ \A j \in Invoice : DOMAIN invoice'[j] = DOMAIN invoice[j]
              /\ invoice'[i].status = IF req[p].row.status # req[p].was.status
                                      THEN req[p].row.status ELSE invoice[i].status
              /\ line' \in [Invoice -> [Source -> Lines]] /\ line'[i] = LinesAfter(p)
              /\ \A j \in Invoice \ {i} : invoice'[j] = invoice[j] /\ line'[j] = line[j]
              /\ crossed' = crossed \cup (Touched(p) \cap missed[p])
              /\ \A q \in Request \ {p} : Pending(q) =>
                    missed'[q] = missed[q] \cup (Touched(p) \cap Touched(q))
              /\ missed' \in [Request -> SUBSET (Invoice \cup Charged)]
<1> DEFINE i == req[p].invoice
           r == Flushed(req[p].was, req[p].row, invoice[i])
<1>1. i \in Invoice /\ Pending(p)
  BY DEF Commit, Shaped, Pending
<1>2. DOMAIN invoice = Invoice /\ "status" \in DOMAIN invoice[i]
  BY <1>1 DEF Shaped
<1>3. /\ DOMAIN r = DOMAIN invoice[i]
      /\ r.status = IF req[p].row.status # req[p].was.status
                     THEN req[p].row.status ELSE invoice[i].status
  BY <1>2, FlushedStatus
<1>4. invoice' = [invoice EXCEPT ![i] = r]
  BY DEF Commit
<1> HIDE DEF r
<1>5. invoice'[i] = r /\ DOMAIN invoice' = Invoice /\ \A j \in Invoice \ {i} : invoice'[j] = invoice[j]
  BY <1>1, <1>2, <1>4
<1>6. line' = [line EXCEPT ![i] = LinesAfter(p)] /\ line \in [Invoice -> [Source -> Lines]]
  BY DEF Commit, Shaped
<1>7. LinesAfter(p) \in [Source -> Lines]
  BY <1>1, LinesAfterType
<1>8. /\ line' \in [Invoice -> [Source -> Lines]] /\ line'[i] = LinesAfter(p)
      /\ \A j \in Invoice \ {i} : line'[j] = line[j]
  BY <1>1, <1>6, <1>7
<1>9. /\ crossed' = crossed \cup (Touched(p) \cap missed[p])
      /\ missed' = [q \in Request |-> IF q = p \/ req[q].phase = "idle" THEN {}
                       ELSE missed[q] \cup (Touched(p) \cap Touched(q))]
  BY DEF Commit
<1>10. Touched(p) \subseteq Invoice \cup Charged /\ missed \in [Request -> SUBSET (Invoice \cup Charged)]
  BY <1>1 DEF Touched, Shaped
<1> HIDE DEF i
<1>11. /\ \A q \in Request \ {p} : Pending(q) =>
             missed'[q] = missed[q] \cup (Touched(p) \cap Touched(q))
       /\ missed' \in [Request -> SUBSET (Invoice \cup Charged)]
  BY <1>9, <1>10 DEF Pending
<1> QED
  BY <1>1, <1>3, <1>5, <1>8, <1>9, <1>11 DEF i

\* No commit unmakes an invoice, or makes a draft of one that was issued.
LEMMA CommitNeverDrafts ==
    ASSUME Shaped, RequestsFormed, NEW p \in Request, Commit(p), NEW i \in Invoice
    PROVE  /\ invoice'[i].status = "none" => invoice[i].status = "none" /\ req[p].invoice # i
           /\ invoice'[i].status \in {"none", "draft"} => invoice[i].status \in {"none", "draft"}
<1>1. CASE req[p].invoice # i
  BY <1>1, CommitFrame
<1>2. CASE req[p].invoice = i
  <2>1. /\ Pending(p)
        /\ invoice'[i].status = IF req[p].row.status # req[p].was.status
                                THEN req[p].row.status ELSE invoice[i].status
    BY <1>2, CommitFrame
  <2>2. CASE req[p].operation \in Creating
    BY <1>2, <2>1, <2>2 DEF RequestsFormed, Creates
  <2>3. CASE req[p].operation \notin Creating
    BY <1>2, <2>1, <2>3 DEF RequestsFormed, WorksOn
  <2> QED
    BY <2>2, <2>3
<1> QED
  BY <1>1, <1>2
\* What an invoice charges after a commit that missed nothing of it, it charged before
\* or the commit newly charges.
LEMMA CommitCharges ==
    ASSUME IInv, NEW p \in Request, Commit(p), NEW j \in Invoice, NEW s \in Charged,
           j \notin crossed', Charges(j, s)'
    PROVE  /\ Charges(j, s) \/ (j = req[p].invoice /\ s \in Touched(p))
           /\ j = req[p].invoice => j \notin missed[p]
<1>1. Shaped /\ RequestsFormed /\ s \in Source
  BY DEF IInv, Charged, Source
<1>2. CASE j # req[p].invoice
  BY <1>1, <1>2, CommitFrame DEF Charges, Standing
<1>3. CASE j = req[p].invoice
  <2>1. /\ Pending(p) /\ line'[j] = LinesAfter(p)
        /\ crossed' = crossed \cup (Touched(p) \cap missed[p])
        /\ invoice'[j].status = IF req[p].row.status # req[p].was.status
                                THEN req[p].row.status ELSE invoice[j].status
    BY <1>1, <1>3, CommitFrame
  <2>2. j \notin missed[p]
    BY <1>3, <2>1 DEF Touched
  <2>3. LinesAfter(p)[s].state = "active"
    BY <2>1 DEF Charges
  <2>4. CASE line[j][s].state # "active"
    BY <1>3, <2>2, <2>3, <2>4 DEF Touched
  <2>5. CASE line[j][s].state = "active"
    <3>1. invoice[j].status # "none"
      <4>1. NoLines[s].state # "active"
        BY <1>1 DEF NoLines, NoLine
      <4> QED
        BY <2>5, <4>1 DEF IInv, UnusedIsEmpty
    <3>2. req[p].operation \notin Creating
      BY <1>1, <1>3, <2>1, <3>1 DEF RequestsFormed, Creates
    <3>3. invoice[j].status \notin {"none", "void"}
      BY <1>1, <1>3, <2>1, <2>2, <3>2 DEF RequestsFormed, WorksOn
    <3> QED
      BY <2>2, <2>5, <3>3 DEF Charges, Standing
  <2> QED
    BY <2>4, <2>5
<1> QED
  BY <1>2, <1>3

\* A commit leaves the others as they were, but for what they missed.
LEMMA CommitOthers ==
    ASSUME IInv, NEW p \in Request, Commit(p), NEW q \in Request \ {p}, Pending(q)
    PROVE  IF req[q].operation \in Creating THEN Creates(q)' ELSE WorksOn(q)'
<1>1. Shaped /\ RequestsFormed /\ Pending(p)
  BY CommitFrame DEF IInv
<1>2. /\ \A r \in Request \ {p} : req'[r] = req[r]
      /\ req'[p].invoice = None
  BY <1>1, Ended DEF Commit
<1>3. req[q].invoice \in Invoice
  BY <1>1 DEF Shaped
<1>4. CASE req[q].operation \in Creating
  <2>1. Creates(q)
    BY <1>1, <1>4 DEF RequestsFormed
  <2>2. req[p].invoice # req[q].invoice
    BY <2>1 DEF Creates
  <2>3. invoice'[req[q].invoice] = invoice[req[q].invoice]
    BY <1>1, <1>3, <2>2, CommitFrame
  <2>4. req'[p].invoice # req[q].invoice
    BY <1>2, <1>3, InvoicesAssumption
  <2> QED
    BY <1>2, <1>4, <2>1, <2>3, <2>4 DEF Creates
<1>5. CASE req[q].operation \notin Creating
  <2>1. WorksOn(q)
    BY <1>1, <1>5 DEF RequestsFormed
  <2>2. invoice'[req[q].invoice].status # "none"
    BY <1>1, <1>3, <2>1, CommitNeverDrafts DEF WorksOn
  <2>3. missed'[q] = missed[q] \cup (Touched(p) \cap Touched(q))
    BY <1>1, CommitFrame
  <2>4. ASSUME req[q].invoice \notin missed'[q]
        PROVE  invoice'[req[q].invoice].status = req[q].was.status
    <3>1. req[q].invoice # req[p].invoice
      BY <2>3, <2>4 DEF Touched
    <3>2. invoice'[req[q].invoice] = invoice[req[q].invoice]
      BY <1>1, <1>3, <3>1, CommitFrame
    <3> QED
      BY <2>1, <2>3, <2>4, <3>2 DEF WorksOn
  <2> QED
    BY <1>2, <1>5, <2>1, <2>2, <2>4 DEF WorksOn
<1> QED
  BY <1>4, <1>5
\* Committing.
LEMMA CommitKeeps == ASSUME IInv, NEW p \in Request, Commit(p) PROVE IInv'
<1> DEFINE i == req[p].invoice
<1>1. Shaped /\ RequestsFormed
  BY DEF IInv
<1>2. /\ DOMAIN req' = Request /\ \A q \in Request \ {p} : req'[q] = req[q]
      /\ DOMAIN req'[p] = DOMAIN NoRequest /\ "status" \in DOMAIN req'[p].row
      /\ req'[p].phase = "idle" /\ req'[p].invoice = None /\ req'[p].amount = 0
      /\ req'[p].lines \in [Source -> Lines]
  BY <1>1, Ended DEF Commit
<1>3. /\ i \in Invoice /\ Pending(p)
      /\ DOMAIN invoice' = Invoice /\ \A j \in Invoice : DOMAIN invoice'[j] = DOMAIN invoice[j]
      /\ line' \in [Invoice -> [Source -> Lines]]
      /\ \A j \in Invoice \ {i} : invoice'[j] = invoice[j] /\ line'[j] = line[j]
      /\ crossed' = crossed \cup (Touched(p) \cap missed[p])
      /\ \A q \in Request \ {p} : Pending(q) =>
            missed'[q] = missed[q] \cup (Touched(p) \cap Touched(q))
      /\ missed' \in [Request -> SUBSET (Invoice \cup Charged)]
  BY <1>1, CommitFrame
<1> HIDE DEF i
<1>4. ~Pending(p)'
  BY <1>2 DEF Pending
<1>5. Shaped'
  <2>1. /\ DOMAIN invoice' = Invoice
        /\ \A j \in Invoice : "status" \in DOMAIN invoice'[j]
    BY <1>1, <1>3 DEF Shaped
  <2>2. crossed' \subseteq Invoice \cup Charged
    BY <1>1, <1>3 DEF Shaped
  <2>3. ASSUME NEW q \in Request
        PROVE  /\ DOMAIN req'[q] = DOMAIN NoRequest
               /\ "status" \in DOMAIN req'[q].row
               /\ req'[q].phase \in {"idle", "loaded", "written"}
               /\ req'[q].lines \in [Source -> Lines] /\ req'[q].amount \in Nat
               /\ ~Pending(q)' => req'[q].invoice = None
               /\ Pending(q)' => req'[q].invoice \in Invoice
    <3>1. CASE q = p
      BY <1>2, <1>4, <3>1
    <3>2. CASE q # p
      <4>1. req'[q] = req[q] /\ Pending(q)' = Pending(q)
        BY <1>2, <3>2 DEF Pending
      <4> QED
        BY <1>1, <4>1 DEF Shaped
    <3> QED
      BY <3>1, <3>2
  <2> QED
    BY <1>2, <1>3, <2>1, <2>2, <2>3 DEF Shaped
<1>6. UnusedIsEmpty'
  <2> SUFFICES ASSUME NEW j \in Invoice, invoice'[j].status = "none" PROVE line'[j] = NoLines
    BY DEF UnusedIsEmpty
  <2>1. invoice[j].status = "none" /\ j # i
    BY <1>1, CommitNeverDrafts DEF i
  <2> QED
    BY <1>3, <2>1 DEF IInv, UnusedIsEmpty
<1>7. RequestsFormed'
  BY <1>2, <1>4, CommitOthers DEF RequestsFormed, Pending
<1>8. NobodyElseCharges'
  <2> SUFFICES ASSUME NEW q \in Request, NEW s \in Charged, Pending(q)', s \in Touched(q)',
                      missed'[q] \cap {s, req'[q].invoice} = {},
                      NEW j \in Invoice \ (crossed' \cup {req'[q].invoice}), Charges(j, s)'
               PROVE  FALSE
    BY DEF NobodyElseCharges
  <2>1. q # p /\ req'[q] = req[q] /\ Pending(q)
    BY <1>2, <1>4 DEF Pending
  <2>2. missed'[q] = missed[q] \cup (Touched(p) \cap Touched(q))
    BY <1>3, <2>1
  <2>3. req[q].invoice \in Invoice /\ req[q].invoice \in Touched(q) /\ i \in Touched(p)
    BY <1>1, <2>1 DEF Shaped, Touched, i
  <2>4. req[q].invoice # i
    BY <2>1, <2>2, <2>3
  <2>5. Touched(q)' = Touched(q)
    BY <1>3, <2>1, <2>3, <2>4, TouchedStays
  <2>6. s \notin Touched(p)
    BY <2>2, <2>5
  <2>7. Charges(j, s)
    BY <2>6, CommitCharges
  <2>8. j \notin crossed
    BY <1>3
  <2> QED
    BY <2>1, <2>2, <2>5, <2>7, <2>8 DEF IInv, NobodyElseCharges
<1>9. ChargedOnce'
  <2> SUFFICES ASSUME NEW s \in Charged \ crossed',
                      NEW j \in Invoice \ crossed', NEW k \in Invoice \ crossed',
                      Charges(j, s)', Charges(k, s)', j # k
               PROVE  FALSE
    BY DEF ChargedOnce, Charges
  <2>1. \A a, b \in Invoice \ crossed' : Charges(a, s) /\ Charges(b, s) => a = b
    BY <1>3 DEF IInv, ChargedOnce, Charges
  <2>2. ASSUME NEW a \in Invoice \ crossed', NEW b \in Invoice \ crossed', a # b,
               Charges(a, s)', Charges(b, s)', a = i, s \in Touched(p)
        PROVE  FALSE
    <3>1. missed[p] \cap {s, i} = {}
      BY <1>3, <2>2, CommitCharges DEF i
    <3>2. Charges(b, s)
      BY <2>2, CommitCharges DEF i
    <3> QED
      BY <1>3, <2>2, <3>1, <3>2 DEF IInv, NobodyElseCharges, i
  <2>3. /\ Charges(j, s) \/ (j = i /\ s \in Touched(p))
        /\ Charges(k, s) \/ (k = i /\ s \in Touched(p))
    BY CommitCharges DEF i
  <2> QED
    BY <2>1, <2>2, <2>3
<1> QED
  BY <1>5, <1>6, <1>7, <1>8, <1>9 DEF IInv

-----------------------------------------------------------------------------
(* The theorems.                                                           *)

\* Beginning any operation.
LEMMA BeginKeeps == ASSUME IInv, NEW p \in Request, Begin(p) PROVE IInv'
<1> DEFINE Known(i) == i \in Invoice /\ "status" \in DOMAIN invoice[i]
<1>1. \A i \in Invoice : Known(i)
  BY DEF IInv, Shaped
<1>2. ASSUME NEW i \in Invoice, NEW a \in Amount, NEW d, NEW es \in SUBSET Expense,
             NEW ms \in SUBSET Manual, CreateInvoice(p, i, es, ms, a, d)
      PROVE  IInv'
  <2> DEFINE ls == Charging(es, ms, a)
  <2>1. ls \in [Source -> Lines]
    BY DEF Charging, Active, Lines, NoLine, Amount
  <2>2. \A s \in Charged : ls[s].state = "active" => s \in es
    BY InvoicesAssumption DEF Charging, Active, NoLine, Charged, Source
  <2>3. \A s \in Charged : ls[s].state = "active" => \A j \in Invoice : ~Charges(j, s)
    BY <1>2, <2>2 DEF CreateInvoice, AlreadyInvoiced, Charges
  <2>4. Draft(p, "create_invoice", i, ls, d)
    BY <1>2 DEF CreateInvoice
  <2> QED
    BY <2>1, <2>3, <2>4, DraftKeeps DEF Creating
<1>3. ASSUME NEW i \in Invoice, NEW a \in Amount, NEW d, CreateInvoiceFromCloseout(p, i, a, d)
      PROVE  IInv'
  <2> DEFINE ls == Charging({}, {Closeout}, a)
  <2>1. ls \in [Source -> Lines]
    BY DEF Charging, Active, Lines, NoLine, Amount
  <2>2. \A s \in Charged, j \in Invoice : ~Charges(j, s)
    BY <1>3 DEF CreateInvoiceFromCloseout, Charges
  <2>3. Draft(p, "create_invoice_from_closeout", i, ls, d)
    BY <1>3 DEF CreateInvoiceFromCloseout
  <2> QED
    BY <2>1, <2>2, <2>3, DraftKeeps DEF Creating
<1>4. ASSUME NEW i \in Invoice, NEW op \in Operations \ Creating, NEW s, NEW n, NEW a \in Nat,
             Change(p, op, i, s, n, a), Standing(i),
             op = "add_manual_line_item" => s \in Manual,
             op = "add_expense_line_item" => s \in Expense /\ ~AlreadyInvoiced(s, Invoice \ {i})
      PROVE  IInv'
  BY <1>1, <1>4, ChangeKeeps DEF Change
<1>5. ASSUME NEW i \in Invoice, NEW d, UpdateInvoice(p, i, d) PROVE IInv'
  <2> DEFINE row == [invoice[i] EXCEPT !.discount = d]
  <2>1. "status" \in DOMAIN row /\ row.status = invoice[i].status
    BY <1>1
  <2>2. Standing(i) /\ Load(p, "loaded", "update_invoice", i, None, None, 0, NoLines, row)
    BY <1>5 DEF UpdateInvoice, Editable, Standing
  <2>3. "update_invoice" \in Operations \ Creating
    BY DEF Operations, OnDrafts, Creating
  <2> HIDE DEF row
  <2> QED
    BY <2>1, <2>2, <2>3, ChangeKeeps
<1>6. Amount \subseteq Nat /\ 0 .. MaxAmount \subseteq Nat
  BY InvoicesAssumption DEF Amount
<1> USE DEF Operations, OnDrafts, OnLines, AddLine, OnPayments, Creating, Standing, Editable
<1>7. ASSUME NEW i \in Invoice, NEW m \in Manual, NEW a \in Amount, AddManualLineItem(p, i, m, a)
      PROVE  IInv'
  BY <1>4, <1>6, <1>7 DEF AddManualLineItem
<1>8. ASSUME NEW i \in Invoice, NEW e \in Expense, AddExpenseLineItem(p, i, e) PROVE IInv'
  BY <1>4, <1>8 DEF AddExpenseLineItem
<1>9. ASSUME NEW i \in Invoice, NEW s \in Source, NEW a \in 0 .. MaxAmount, UpdateLineItem(p, i, s, a)
      PROVE  IInv'
  BY <1>4, <1>6, <1>9 DEF UpdateLineItem
<1>10. ASSUME NEW i \in Invoice, NEW s \in Source, RemoveLineItem(p, i, s) PROVE IInv'
  BY <1>4, <1>10 DEF RemoveLineItem
<1>11. ASSUME NEW i \in Invoice, IssueInvoice(p, i) PROVE IInv'
  BY <1>4, <1>11 DEF IssueInvoice
<1>12. ASSUME NEW i \in Invoice, NEW n \in Payment, NEW a \in Amount, RecordPayment(p, i, n, a)
       PROVE  IInv'
  BY <1>4, <1>6, <1>12 DEF RecordPayment
<1>13. ASSUME NEW i \in Invoice, NEW n \in Payment, ReversePayment(p, i, n) PROVE IInv'
  BY <1>4, <1>13 DEF ReversePayment
<1>14. ASSUME NEW i \in Invoice, VoidInvoice(p, i) PROVE IInv'
  BY <1>4, <1>14 DEF VoidInvoice
<1>15. Busy \subseteq Invoice
  BY InvoicesAssumption
<1>16. ASSUME NEW i \in Invoice, NEW ms \in SUBSET Manual, NEW ds, Create(p, i, ms, ds) PROVE IInv'
  BY <1>2, <1>3, <1>16 DEF Create
<1>17. ASSUME NEW i \in Invoice, WorkOn(p, i) PROVE IInv'
  BY <1>5, <1>7, <1>8, <1>9, <1>10, <1>11, <1>12, <1>13, <1>14, <1>17 DEF WorkOn
<1> QED
  BY <1>15, <1>16, <1>17 DEF Begin

\* Beginning an operation changes no row of an invoice.
LEMMA BeginLeavesRows == ASSUME NEW p \in Request, Begin(p) PROVE UNCHANGED invoice
<1>1. \A phase, op, i, s, n, a, ls, row :
        Load(p, phase, op, i, s, n, a, ls, row) => UNCHANGED invoice
  BY DEF Load, rows
<1>2. \A op, i, s, n, a : Change(p, op, i, s, n, a) => UNCHANGED invoice
  BY <1>1 DEF Change
<1>3. \A op, i, ls, d : Draft(p, op, i, ls, d) => UNCHANGED invoice
  BY <1>1 DEF Draft
<1>4. \A i, ms, ds : Create(p, i, ms, ds) => UNCHANGED invoice
  BY <1>3 DEF Create, CreateInvoice, CreateInvoiceFromCloseout
<1>5. \A i, d : UpdateInvoice(p, i, d) => UNCHANGED invoice
  BY <1>1 DEF UpdateInvoice
<1>6. \A i : WorkOn(p, i) => UNCHANGED invoice
  BY <1>2, <1>5 DEF WorkOn, AddManualLineItem, AddExpenseLineItem, UpdateLineItem, RemoveLineItem,
                    IssueInvoice, RecordPayment, ReversePayment, VoidInvoice
<1> QED
  BY <1>4, <1>6 DEF Begin

\* The invariant holds whatever requests do.
THEOREM Invariant == Spec => []IInv
<1>1. Init => IInv
  <2> SUFFICES ASSUME Init PROVE IInv
    OBVIOUS
  <2>1. NoLines \in [Source -> Lines]
    BY DEF NoLines, NoLine, Lines
  <2>2. Shaped
    BY <2>1 DEF Init, Shaped, Pending, NoInvoice, NoRequest
  <2> QED
    BY <2>2 DEF Init, IInv, UnusedIsEmpty, RequestsFormed, NobodyElseCharges, ChargedOnce,
                Pending, Standing, NoRequest, NoInvoice
<1>2. IInv /\ [Next]_vars => IInv'
  <2> SUFFICES ASSUME IInv, [Next]_vars PROVE IInv'
    OBVIOUS
  <2>1. CASE UNCHANGED vars
    <3>1. UNCHANGED <<invoice, line, req, missed, crossed>>
      BY <2>1 DEF vars, rows
    <3>2. \A p \in Request : Touched(p)' = Touched(p)
      BY <3>1, TouchedStays
    <3> QED
      BY <3>1, <3>2 DEF IInv, Shaped, UnusedIsEmpty, RequestsFormed, Creates, WorksOn,
                        NobodyElseCharges, ChargedOnce, Charges, Standing, Pending
  <2>2. ASSUME NEW p \in Request, Recalculate(p) PROVE IInv'
    <3>1. /\ "status" \in DOMAIN req[p].row
          /\ req[p].row.status = req[p].was.status
      BY <2>2 DEF Recalculate, IInv, Shaped, RequestsFormed, Creates, WorksOn, Pending
    <3>2. /\ "status" \in DOMAIN After(p)
          /\ After(p).status = req[p].was.status \/ After(p).status \notin {"none", "draft"}
      BY <3>1, RecalculatedStatus DEF After
    <3> QED
      BY <2>2, <3>2, WriteKeeps DEF Recalculate
  <2>3. ASSUME NEW p \in Request, Issue(p) PROVE IInv'
    <3>1. "status" \in DOMAIN req[p].row
      BY DEF IInv, Shaped
    <3>2. "status" \in DOMAIN After(p)
      BY <3>1, RecalculatedStatus DEF After
    <3> DEFINE row == [After(p) EXCEPT !.status = "issued", !.balance = After(p).total]
    <3>3. "status" \in DOMAIN row /\ row.status = "issued"
      BY <3>2
    <3> HIDE DEF row
    <3>4. req[p].phase = "loaded" /\ Write(p, row)
      BY <2>3 DEF Issue, row
    <3> QED
      BY <3>3, <3>4, WriteKeeps
  <2>4. ASSUME NEW p \in Request, Void(p) PROVE IInv'
    <3> DEFINE row == [req[p].row EXCEPT !.status = "void", !.balance = 0]
    <3>1. "status" \in DOMAIN row /\ row.status = "void"
      BY DEF IInv, Shaped
    <3> HIDE DEF row
    <3>2. req[p].phase = "loaded" /\ Write(p, row)
      BY <2>4 DEF Void, row
    <3> QED
      BY <3>1, <3>2, WriteKeeps
  <2> QED
    BY <2>1, <2>2, <2>3, <2>4, BeginKeeps, CommitKeeps, RollBackKeeps DEF Next
<1> QED
  BY <1>1, <1>2, PTL DEF Spec

\* However many requests run at once, an expense or the closed-out work order is charged
\* by at most one standing invoice, unless requests charged it or changed that invoice
\* over a change they missed (invoice_service.py, create_invoice, add_expense_line_item).
THEOREM ExpensesChargedOnce == Spec => []ChargedOnce
<1>1. IInv => ChargedOnce
  BY DEF IInv
<1> QED
  BY <1>1, Invariant, PTL

\* However many requests run at once, no issued invoice becomes a draft again
\* (invoice_service.py, _ensure_draft).
THEOREM IssuedForGood == Spec => NeverDraftAgain
<1> DEFINE Kept == \A i \in Invoice :
        invoice'[i].status \in {"none", "draft"} => invoice[i].status \in {"none", "draft"}
<1>1. ASSUME IInv, [Next]_vars PROVE Kept
  <2>1. CASE \E p \in Request : Commit(p)
    BY <1>1, <2>1, CommitNeverDrafts DEF IInv
  <2>2. CASE ~(\E p \in Request : Commit(p))
    <3>1. UNCHANGED invoice
      <4>1. CASE UNCHANGED vars
        BY <4>1 DEF vars, rows
      <4>2. ASSUME NEW p \in Request, Recalculate(p) \/ Issue(p) \/ Void(p) \/ RollBack(p)
            PROVE  UNCHANGED invoice
        BY <4>2 DEF Recalculate, Issue, Void, RollBack, Write, rows
      <4> QED
        BY <1>1, <2>2, <4>1, <4>2, BeginLeavesRows DEF Next
    <3> QED
      BY <3>1
  <2> QED
    BY <2>1, <2>2
<1>2. IInv /\ [Next]_vars => [Kept]_vars
  BY <1>1
<1> QED
  BY <1>2, Invariant, PTL DEF Spec, NeverDraftAgain

-----------------------------------------------------------------------------
(* Sums and types: no amount is ever negative.                             *)

\* There are finitely many things to charge.
LEMMA SourceFinite == IsFiniteSet(Source)
<1>1. IsFiniteSet(Expense \cup Manual)
  BY InvoicesAssumption, FS_Union
<1>2. IsFiniteSet({Closeout})
  BY FS_Singleton
<1> QED
  BY <1>1, <1>2, FS_Union DEF Source

\* The lines of an invoice sum to an amount of money.
LEMMA SubtotalNat ==
    ASSUME NEW ls \in [Source -> Lines]
    PROVE  Subtotal(ls) \in Nat
<1> DEFINE S == {c \in Source : ls[c].state = "active"}
           f == [s \in S |-> ls[s].amount]
<1>1. Subtotal(ls) = SumFunctionOnSet(f, S)
  BY DEF Subtotal, SumFunction
<1>2. IsFiniteSet(S)
  BY SourceFinite, FS_Subset
<1>3. \A s \in S : f[s] \in Nat
  BY DEF Lines
<1> HIDE DEF S, f
<1> QED
  BY <1>1, <1>2, <1>3, SumNat

\* So do its payments.
LEMMA PaidNat ==
    ASSUME NEW ps \in [Payment -> Payments], NEW i
    PROVE  PaidOn(i, ps) \in Nat
<1> DEFINE S == {m \in Payment : ps[m].invoice = i}
           f == [n \in S |-> ps[n].amount]
<1>1. PaidOn(i, ps) = SumFunctionOnSet(f, S)
  BY DEF PaidOn, SumFunction
<1>2. IsFiniteSet(S)
  BY InvoicesAssumption, FS_Subset
<1>3. \A n \in S : f[n] \in Nat
  BY DEF Payments
<1> HIDE DEF S, f
<1> QED
  BY <1>1, <1>2, <1>3, SumNat

\* Payments of other invoices do not count.
LEMMA PaidAgree ==
    ASSUME NEW ps \in [Payment -> Payments], NEW qs \in [Payment -> Payments], NEW i,
           \A n \in Payment : /\ ps[n].invoice = i <=> qs[n].invoice = i
                              /\ ps[n].invoice = i => ps[n] = qs[n]
    PROVE  PaidOn(i, ps) = PaidOn(i, qs)
<1>1. {m \in Payment : ps[m].invoice = i} = {m \in Payment : qs[m].invoice = i}
  OBVIOUS
<1>2. \A n \in {m \in Payment : ps[m].invoice = i} : ps[n].amount = qs[n].amount
  OBVIOUS
<1>3. [n \in {m \in Payment : ps[m].invoice = i} |-> ps[n].amount] =
      [n \in {m \in Payment : qs[m].invoice = i} |-> qs[n].amount]
  BY <1>1, <1>2
<1> QED
  BY <1>3 DEF PaidOn

\* A row whose discount and payments fit its lines is recalculated to amounts of money.
LEMMA RecalculatedType ==
    ASSUME NEW row \in Invoices, NEW subtotal \in Nat, NEW paid \in Nat, TotalsFit(row, subtotal, paid)
    PROVE  LET r == Recalculated(row, subtotal, paid)
           IN /\ r \in Invoices
              /\ r.discount = row.discount /\ r.total = subtotal - row.discount
              /\ r.paid = paid /\ r.balance = r.total - paid
              /\ r.status = IF row.status \in {"draft", "void"} THEN row.status
                            ELSE Settled(paid, r.total)
<1> DEFINE r == Recalculated(row, subtotal, paid)
           total == subtotal - row.discount
           status == IF row.status \in {"draft", "void"} THEN row.status ELSE Settled(paid, total)
<1>1. row.discount \in Nat /\ row.discount + paid <= subtotal
  BY DEF Invoices, TotalsFit
<1>2. total \in Nat /\ total - paid \in Nat
  BY <1>1
<1>3. r = [row EXCEPT !.total = total, !.paid = paid, !.balance = total - paid, !.status = status]
  BY DEF Recalculated
<1>4. status \in {"issued", "partially_paid", "paid", "draft", "void"}
  BY DEF Settled
<1> HIDE DEF r, total, status
<1>5. /\ r \in Invoices /\ r.discount = row.discount /\ r.total = total /\ r.paid = paid
      /\ r.balance = total - paid /\ r.status = status
  BY <1>2, <1>3, <1>4 DEF Invoices
<1> QED
  BY <1>5 DEF r, total, status

\* What a request begins with: a row as it is, or one it creates.
Begins(r) ==
    /\ r.operation \in Operations
    /\ r.operation \in OnDrafts => r.was.status = "draft"
    /\ r.operation \in OnPayments =>
          /\ r.was.status \notin {"none", "draft", "void"}
          /\ r.payment \in Payment
          /\ r.operation = "reverse_payment" => payment[r.payment].invoice = r.invoice
          /\ r.operation = "record_payment" =>
                payment[r.payment].invoice = None /\ \A q \in Request : req[q].payment # r.payment
    /\ r.operation \notin OnPayments => r.payment = None
    /\ r.operation = "void_invoice" => r.was.status = "issued"
    /\ r.operation \in Creating =>
          /\ r.phase = "written" /\ r.was.status = "none" /\ r.row.status = "draft"
          /\ r.row.total = Subtotal(r.lines) - r.row.discount /\ r.row.balance = r.row.total
    /\ r.operation \notin Creating =>
          r.phase = "loaded" /\ r.row = [r.was EXCEPT !.discount = r.row.discount]
    /\ r.operation \notin Creating \cup OnDrafts => r.row.discount = r.was.discount

Arrives(p, r) ==
    /\ req' = [req EXCEPT ![p] = r] /\ missed' = [missed EXCEPT ![p] = {}]
    /\ UNCHANGED <<invoice, line, payment, crossed>>
    /\ r \in Requests /\ r.phase # "idle" /\ r.invoice \in Invoice /\ r.was = invoice[r.invoice]
    /\ Begins(r)

\* The record a load makes.
LEMMA LoadRecord ==
    ASSUME TypeOK, NEW p \in Request, NEW phase \in {"loaded", "written"}, NEW op \in Operations,
           NEW i \in Invoice, NEW s \in Source \cup {None}, NEW n \in Payment \cup {None},
           NEW amount \in Nat, NEW ls \in [Source -> Lines], NEW row \in Invoices,
           Load(p, phase, op, i, s, n, amount, ls, row)
    PROVE  /\ req' = [req EXCEPT ![p] = req'[p]] /\ missed' = [missed EXCEPT ![p] = {}]
           /\ UNCHANGED <<invoice, line, payment, crossed>>
           /\ req'[p] \in Requests /\ req'[p].phase = phase /\ req'[p].operation = op
           /\ req'[p].invoice = i /\ req'[p].payment = n /\ req'[p].lines = ls
           /\ req'[p].was = invoice[i] /\ req'[p].row = row
<1> DEFINE r == [phase |-> phase, operation |-> op, invoice |-> i, source |-> s,
                 payment |-> n, amount |-> amount,
                 fresh |-> s # None /\ line[i][s].state = "none",
                 lines |-> ls, was |-> invoice[i], row |-> row]
<1>1. req' = [req EXCEPT ![p] = r] /\ missed' = [missed EXCEPT ![p] = {}]
      /\ UNCHANGED <<invoice, line, payment, crossed>>
  BY DEF Load, rows
<1>2. req'[p] = r
  BY <1>1 DEF TypeOK
<1>3. invoice[i] \in Invoices
  BY DEF TypeOK
<1>4. r \in Requests
  BY <1>3 DEF Requests
<1>5. /\ r.phase = phase /\ r.operation = op /\ r.invoice = i /\ r.payment = n /\ r.lines = ls
      /\ r.was = invoice[i] /\ r.row = row
  OBVIOUS
<1> HIDE DEF r
<1> QED
  BY <1>1, <1>2, <1>4, <1>5

\* Loading an invoice to work on it.
LEMMA ChangeArrives ==
    ASSUME TypeOK, NEW p \in Request, NEW op \in Operations \ Creating, NEW i \in Invoice,
           NEW s \in Source \cup {None}, NEW n \in Payment \cup {None}, NEW amount \in Nat,
           NEW row \in Invoices, Load(p, "loaded", op, i, s, n, amount, NoLines, row),
           row = [invoice[i] EXCEPT !.discount = row.discount],
           op \in OnDrafts => Editable(i),
           op \notin OnDrafts => row = invoice[i],
           op \in OnPayments =>
             /\ invoice[i].status \notin {"none", "draft", "void"} /\ n \in Payment
             /\ op = "reverse_payment" => payment[n].invoice = i
             /\ op = "record_payment" => payment[n].invoice = None /\ \A q \in Request : req[q].payment # n,
           op \notin OnPayments => n = None,
           op = "void_invoice" => invoice[i].status = "issued"
    PROVE  Arrives(p, req'[p])
<1>1. NoLines \in [Source -> Lines]
  BY DEF NoLines, NoLine, Lines
<1>2. /\ req' = [req EXCEPT ![p] = req'[p]] /\ missed' = [missed EXCEPT ![p] = {}]
      /\ UNCHANGED <<invoice, line, payment, crossed>>
      /\ req'[p] \in Requests /\ req'[p].phase = "loaded" /\ req'[p].operation = op
      /\ req'[p].invoice = i /\ req'[p].payment = n
      /\ req'[p].was = invoice[i] /\ req'[p].row = row
  BY <1>1, LoadRecord
<1> DEFINE r == req'[p]
<1>3. r.phase = "loaded" /\ r.operation = op /\ r.invoice = i /\ r.payment = n /\ r.was = invoice[i] /\ r.row = row
  BY <1>2
<1> HIDE DEF r
<1>4. Begins(r)
  BY <1>3 DEF Begins, Editable
<1> QED
  BY <1>2, <1>4 DEF Arrives, r

\* Creating an invoice.
LEMMA DraftArrives ==
    ASSUME TypeOK, NEW p \in Request, NEW op \in Creating, NEW i \in Invoice,
           NEW ls \in [Source -> Lines], NEW discount \in Nat, Draft(p, op, i, ls, discount)
    PROVE  Arrives(p, req'[p])
<1> DEFINE draft == [NoInvoice EXCEPT !.status = "draft", !.discount = discount]
           row == Recalculated(draft, Subtotal(ls), 0)
<1>1. /\ invoice[i].status = "none" /\ TotalsFit(draft, Subtotal(ls), 0)
      /\ Load(p, "written", op, i, None, None, 0, ls, row)
  BY DEF Draft, Unused
<1>2. draft \in Invoices /\ draft.status = "draft"
  BY DEF NoInvoice, Invoices
<1> HIDE DEF draft
<1>3. Subtotal(ls) \in Nat
  BY SubtotalNat
<1>4. /\ row \in Invoices /\ row.discount = draft.discount
      /\ row.total = Subtotal(ls) - draft.discount /\ row.balance = row.total - 0
      /\ row.status = "draft"
  BY <1>1, <1>2, <1>3, RecalculatedType
<1> HIDE DEF row
<1>5. row.total \in Nat /\ row.balance = row.total
  BY <1>4 DEF Invoices
<1>6. op \in Operations /\ op \notin OnDrafts \cup OnPayments \cup {"void_invoice"}
  BY DEF Operations, Creating, OnDrafts, OnLines, AddLine, OnPayments
<1>7. /\ req' = [req EXCEPT ![p] = req'[p]] /\ missed' = [missed EXCEPT ![p] = {}]
      /\ UNCHANGED <<invoice, line, payment, crossed>>
      /\ req'[p] \in Requests /\ req'[p].phase = "written" /\ req'[p].operation = op
      /\ req'[p].invoice = i /\ req'[p].payment = None /\ req'[p].lines = ls
      /\ req'[p].was = invoice[i] /\ req'[p].row = row
  <2>1. /\ "written" \in {"loaded", "written"} /\ None \in Source \cup {None}
        /\ None \in Payment \cup {None} /\ 0 \in Nat /\ op \in Operations /\ row \in Invoices
    BY <1>4, <1>6
  <2> QED
    BY <1>1, <2>1, LoadRecord, SMTT(30)
<1> DEFINE r == req'[p]
<1>8. /\ r.phase = "written" /\ r.operation = op /\ r.payment = None /\ r.lines = ls
      /\ r.was = invoice[i] /\ r.row = row
  BY <1>7
<1> HIDE DEF r
<1>9. Begins(r)
  BY <1>1, <1>4, <1>5, <1>6, <1>8 DEF Begins
<1> QED
  BY <1>7, <1>9 DEF Arrives, r

\* Beginning any operation.
LEMMA BeginArrives ==
    ASSUME TypeOK, NEW p \in Request, Begin(p)
    PROVE  Arrives(p, req'[p])
<1>1. Amount \subseteq Nat /\ 0 .. MaxAmount \subseteq Nat /\ Busy \subseteq Invoice
  BY InvoicesAssumption DEF Amount
<1>2. ASSUME NEW i \in Invoice, NEW a \in Amount, NEW d \in Nat, NEW es \in SUBSET Expense,
             NEW ms \in SUBSET Manual, CreateInvoice(p, i, es, ms, a, d)
      PROVE  Arrives(p, req'[p])
  <2>1. Charging(es, ms, a) \in [Source -> Lines]
    BY <1>1 DEF Charging, Active, Lines, NoLine
  <2> QED
    BY <1>2, <2>1, DraftArrives DEF CreateInvoice, Creating
<1>3. ASSUME NEW i \in Invoice, NEW a \in Amount, NEW d \in Nat, CreateInvoiceFromCloseout(p, i, a, d)
      PROVE  Arrives(p, req'[p])
  <2>1. Charging({}, {Closeout}, a) \in [Source -> Lines]
    BY <1>1 DEF Charging, Active, Lines, NoLine
  <2> QED
    BY <1>3, <2>1, DraftArrives DEF CreateInvoiceFromCloseout, Creating
<1>4. ASSUME NEW i \in Invoice, NEW ms \in SUBSET Manual, NEW ds \in SUBSET Nat, Create(p, i, ms, ds)
      PROVE  Arrives(p, req'[p])
  BY <1>2, <1>3, <1>4 DEF Create
<1>5. ASSUME NEW i \in Invoice
      PROVE  invoice[i] \in Invoices /\ invoice[i] = [invoice[i] EXCEPT !.discount = invoice[i].discount]
  BY DEF TypeOK, Invoices
<1>6. ASSUME NEW i \in Invoice, NEW op \in Operations \ Creating,
             NEW s \in Source \cup {None}, NEW n \in Payment \cup {None}, NEW a \in Nat,
             Change(p, op, i, s, n, a), op \in OnDrafts => Editable(i),
             op \in OnPayments =>
               /\ invoice[i].status \notin {"none", "draft", "void"} /\ n \in Payment
               /\ op = "reverse_payment" => payment[n].invoice = i
               /\ op = "record_payment" =>
                     payment[n].invoice = None /\ \A q \in Request : req[q].payment # n,
             op \notin OnPayments => n = None,
             op = "void_invoice" => invoice[i].status = "issued"
      PROVE  Arrives(p, req'[p])
  BY <1>5, <1>6, ChangeArrives DEF Change
<1>7. ASSUME NEW i \in Invoice, NEW d \in Nat, UpdateInvoice(p, i, d) PROVE Arrives(p, req'[p])
  <2> DEFINE row == [invoice[i] EXCEPT !.discount = d]
  <2>1. row \in Invoices /\ row = [invoice[i] EXCEPT !.discount = row.discount]
    BY <1>5 DEF Invoices
  <2>2. Editable(i) /\ Load(p, "loaded", "update_invoice", i, None, None, 0, NoLines, row)
    BY <1>7 DEF UpdateInvoice
  <2>3. /\ "update_invoice" \in Operations \ Creating /\ "update_invoice" \in OnDrafts
        /\ "update_invoice" \notin OnPayments
    BY DEF Operations, OnDrafts, Creating, OnPayments
  <2> HIDE DEF row
  <2> QED
    BY <2>1, <2>2, <2>3, ChangeArrives
<1> USE DEF Operations, OnDrafts, OnLines, AddLine, OnPayments, Creating
<1>8. ASSUME NEW i \in Invoice, NEW m \in Manual, NEW a \in Amount, AddManualLineItem(p, i, m, a)
      PROVE  Arrives(p, req'[p])
  BY <1>1, <1>6, <1>8 DEF AddManualLineItem, Source
<1>9. ASSUME NEW i \in Invoice, NEW e \in Expense, AddExpenseLineItem(p, i, e)
      PROVE  Arrives(p, req'[p])
  BY <1>6, <1>9 DEF AddExpenseLineItem, Source
<1>10. ASSUME NEW i \in Invoice, NEW s \in Source, NEW a \in 0 .. MaxAmount, UpdateLineItem(p, i, s, a)
       PROVE  Arrives(p, req'[p])
  BY <1>1, <1>6, <1>10 DEF UpdateLineItem
<1>11. ASSUME NEW i \in Invoice, NEW s \in Source, RemoveLineItem(p, i, s) PROVE Arrives(p, req'[p])
  BY <1>6, <1>11 DEF RemoveLineItem
<1>12. ASSUME NEW i \in Invoice, IssueInvoice(p, i) PROVE Arrives(p, req'[p])
  BY <1>6, <1>12 DEF IssueInvoice
<1>13. ASSUME NEW i \in Invoice, NEW n \in Payment, NEW a \in Amount, RecordPayment(p, i, n, a)
       PROVE  Arrives(p, req'[p])
  BY <1>1, <1>6, <1>13 DEF RecordPayment, NoPayment
<1>14. ASSUME NEW i \in Invoice, NEW n \in Payment, ReversePayment(p, i, n) PROVE Arrives(p, req'[p])
  BY <1>6, <1>14 DEF ReversePayment, Standing, Editable
<1>15. ASSUME NEW i \in Invoice, VoidInvoice(p, i) PROVE Arrives(p, req'[p])
  BY <1>6, <1>15 DEF VoidInvoice
<1>16. ASSUME NEW i \in Invoice, WorkOn(p, i) PROVE Arrives(p, req'[p])
  BY <1>1, <1>7, <1>8, <1>9, <1>10, <1>11, <1>12, <1>13, <1>14, <1>15, <1>16 DEF WorkOn
<1>17. {0} \in SUBSET Nat /\ 0 .. MaxAmount \in SUBSET Nat /\ Manual \in SUBSET Manual /\ {} \in SUBSET Manual
  BY <1>1
<1> QED
  BY <1>1, <1>4, <1>16, <1>17 DEF Begin

\* A request that arrives is well typed.
LEMMA ArriveTypes ==
    ASSUME TypeOK, NEW p \in Request, NEW r, Arrives(p, r)
    PROVE  TypeOK'
BY DEF Arrives, TypeOK

\* The payments a request sees are payments.
LEMMA PaymentsAfterType ==
    ASSUME TypeOK, NEW p \in Request
    PROVE  PaymentsAfter(p) \in [Payment -> Payments]
<1>1. payment \in [Payment -> Payments] /\ req[p] \in Requests
  BY DEF TypeOK
<1>2. [invoice |-> req[p].invoice, amount |-> req[p].amount] \in Payments /\ NoPayment \in Payments
  BY <1>1 DEF Requests, Payments, NoPayment
<1> QED
  BY <1>1, <1>2 DEF PaymentsAfter

\* What a request sees when it recalculates, and the row it makes of it.
LEMMA SeenType ==
    ASSUME IInv, TypeOK, NEW p \in Request, Pending(p)
    PROVE  /\ LinesAfter(p) \in [Source -> Lines] /\ PaymentsAfter(p) \in [Payment -> Payments]
           /\ SubtotalSeen(p) \in Nat /\ PaidSeen(p) \in Nat /\ req[p].row \in Invoices
<1>1. LinesAfter(p) \in [Source -> Lines] /\ PaymentsAfter(p) \in [Payment -> Payments]
  BY LinesAfterType, PaymentsAfterType DEF IInv
<1>2. req[p].row \in Invoices
  BY DEF TypeOK, Requests
<1> QED
  BY <1>1, <1>2, SubtotalNat, PaidNat DEF SubtotalSeen, PaidSeen

\* The row a request recalculates, when it fits.
LEMMA AfterType ==
    ASSUME IInv, TypeOK, NEW p \in Request, Pending(p), Fits(p)
    PROVE  /\ After(p) \in Invoices
           /\ After(p).discount = req[p].row.discount
           /\ After(p).total = SubtotalSeen(p) - req[p].row.discount
           /\ After(p).paid = PaidSeen(p) /\ After(p).balance = After(p).total - PaidSeen(p)
           /\ After(p).status = IF req[p].row.status \in {"draft", "void"} THEN req[p].row.status
                                ELSE Settled(PaidSeen(p), After(p).total)
BY SeenType, RecalculatedType DEF Fits, After

\* The three ways to settle on a row.
LEMMA WritesRow ==
    ASSUME IInv, TypeOK, NEW p \in Request, Recalculate(p) \/ Issue(p) \/ Void(p)
    PROVE  /\ req[p].phase = "loaded"
           /\ \E row \in Invoices : Write(p, row)
<1>1. req[p].phase = "loaded" /\ Pending(p)
  BY DEF Recalculate, Issue, Void, Pending
<1>2. CASE Recalculate(p)
  BY <1>1, <1>2, AfterType DEF Recalculate
<1>3. CASE Issue(p)
  <2> DEFINE a == After(p)
  <2>1. a \in Invoices
    BY <1>1, <1>3, AfterType DEF Issue
  <2>2. Write(p, [a EXCEPT !.status = "issued", !.balance = a.total])
    BY <1>3 DEF Issue
  <2> HIDE DEF a
  <2>3. [a EXCEPT !.status = "issued", !.balance = a.total] \in Invoices
    BY <2>1 DEF Invoices
  <2> QED
    BY <1>1, <2>2, <2>3
<1>4. CASE Void(p)
  <2>1. [req[p].row EXCEPT !.status = "void", !.balance = 0] \in Invoices
    BY <1>1, SeenType DEF Invoices
  <2> QED
    BY <1>1, <1>4, <2>1 DEF Void
<1> QED
  BY <1>2, <1>3, <1>4

\* What settling on a row changes.
LEMMA WriteRecord ==
    ASSUME TypeOK, NEW p \in Request, NEW row \in Invoices, Write(p, row)
    PROVE  /\ req'[p] \in Requests /\ req'[p].phase = "written" /\ req'[p].row = row
           /\ req'[p].operation = req[p].operation /\ req'[p].invoice = req[p].invoice
           /\ req'[p].source = req[p].source /\ req'[p].payment = req[p].payment
           /\ req'[p].amount = req[p].amount /\ req'[p].lines = req[p].lines
           /\ req'[p].was = req[p].was
           /\ req' \in [Request -> Requests]
           /\ \A q \in Request \ {p} : req'[q] = req[q]
           /\ UNCHANGED <<invoice, line, payment, missed, crossed>>
<1>1. req \in [Request -> Requests]
  BY DEF TypeOK
<1>2. req' = [req EXCEPT ![p] = [req[p] EXCEPT !.phase = "written", !.row = row]]
  BY DEF Write
<1> DEFINE r == [req[p] EXCEPT !.phase = "written", !.row = row]
<1>3. r \in Requests
  BY <1>1 DEF Requests
<1>4. /\ r.phase = "written" /\ r.row = row /\ r.operation = req[p].operation
      /\ r.invoice = req[p].invoice /\ r.source = req[p].source /\ r.payment = req[p].payment
      /\ r.amount = req[p].amount /\ r.lines = req[p].lines /\ r.was = req[p].was
  BY <1>1 DEF Requests
<1> HIDE DEF r
<1>5. req' = [req EXCEPT ![p] = r]
  BY <1>2 DEF r
<1>6. UNCHANGED <<invoice, line, payment, missed, crossed>>
  BY DEF Write, rows
<1> QED
  BY <1>1, <1>3, <1>4, <1>5, <1>6

\* What is flushed is a row; over the row that was loaded, it is the row to write.
LEMMA FlushedType ==
    ASSUME NEW was, NEW row \in Invoices, NEW now \in Invoices
    PROVE  /\ Flushed(was, row, now) \in Invoices
           /\ was = now => Flushed(was, row, now) = row
BY DEF Flushed, Invoices

\* A request that does nothing is well typed.
LEMMA NoRequestType == NoRequest \in Requests
<1>1. NoInvoice \in Invoices /\ NoLines \in [Source -> Lines]
  BY DEF NoInvoice, Invoices, NoLines, NoLine, Lines
<1> QED
  BY <1>1 DEF NoRequest, Requests

\* Committing keeps the types.
LEMMA CommitTypes ==
    ASSUME IInv, TypeOK, NEW p \in Request, Commit(p)
    PROVE  TypeOK'
<1> DEFINE i == req[p].invoice
           f == Flushed(req[p].was, req[p].row, invoice[i])
<1>1. Shaped
  BY DEF IInv
<1>2. /\ i \in Invoice /\ Pending(p) /\ line' \in [Invoice -> [Source -> Lines]]
      /\ crossed' = crossed \cup (Touched(p) \cap missed[p])
      /\ missed' \in [Request -> SUBSET (Invoice \cup Charged)]
  BY <1>1, CommitFrame
<1>3. /\ invoice \in [Invoice -> Invoices] /\ req[p].row \in Invoices /\ invoice[i] \in Invoices
      /\ req \in [Request -> Requests] /\ missed[p] \subseteq Invoice \cup Charged
      /\ crossed \subseteq Invoice \cup Charged
  BY <1>2 DEF TypeOK, Requests
<1>4. f \in Invoices
  BY <1>3, FlushedType
<1>5. /\ invoice' = [invoice EXCEPT ![i] = f] /\ payment' = PaymentsAfter(p)
      /\ req' = [req EXCEPT ![p] = NoRequest]
  BY DEF Commit
<1> HIDE DEF i, f
<1>6. invoice' \in [Invoice -> Invoices]
  BY <1>2, <1>3, <1>4, <1>5
<1>7. req' \in [Request -> Requests]
  BY <1>3, <1>5, NoRequestType
<1>8. crossed' \subseteq Invoice \cup Charged
  BY <1>2, <1>3
<1> QED
  BY <1>2, <1>5, <1>6, <1>7, <1>8, PaymentsAfterType DEF TypeOK

\* So does every step.
LEMMA NextTypes == ASSUME IInv, TypeOK, [Next]_vars PROVE TypeOK'
<1>1. CASE UNCHANGED vars
  BY <1>1 DEF TypeOK, vars, rows
<1>2. ASSUME NEW p \in Request, Begin(p) PROVE TypeOK'
  BY <1>2, BeginArrives, ArriveTypes
<1>3. ASSUME NEW p \in Request, Recalculate(p) \/ Issue(p) \/ Void(p) PROVE TypeOK'
  <2>1. PICK row \in Invoices : Write(p, row)
    BY <1>3, WritesRow
  <2>2. req' \in [Request -> Requests] /\ UNCHANGED <<invoice, line, payment, missed, crossed>>
    BY <2>1, WriteRecord
  <2> QED
    BY <2>2 DEF TypeOK
<1>4. ASSUME NEW p \in Request, RollBack(p) PROVE TypeOK'
  BY <1>4, NoRequestType DEF RollBack, TypeOK, rows
<1> QED
  BY <1>1, <1>2, <1>3, <1>4, CommitTypes DEF Next

\* The initial rows are well typed.
LEMMA InitTypes == Init => TypeOK
<1>1. NoInvoice \in Invoices /\ NoLines \in [Source -> Lines] /\ NoPayment \in Payments
  BY DEF NoInvoice, Invoices, NoLines, NoLine, Lines, NoPayment, Payments
<1> QED
  BY <1>1, NoRequestType DEF Init, TypeOK

-----------------------------------------------------------------------------
(* The rows agree with their lines and payments.                           *)

\* What a row must say of lines and of what was paid.
RowFits(row, ls, paid) ==
    LET total == Subtotal(ls) - row.discount
    IN CASE row.status = "none"  -> ls = NoLines /\ paid = 0
         [] row.status = "void"  -> row.balance = 0 /\ paid = 0
         [] row.status = "draft" -> paid = 0 /\ row.total = total /\ row.balance = total
         [] OTHER -> /\ row.total = total /\ row.paid = paid
                     /\ row.balance = total - paid
                     /\ row.status = Settled(paid, total)

\* The payment a request records is its own, and the one it reverses is of its invoice,
\* or reversed already.
PaymentHeld(p) ==
    req[p].operation \in OnPayments =>
        /\ req[p].payment \in Payment
        /\ payment[req[p].payment].invoice \in {None, req[p].invoice}
        /\ req[p].operation = "record_payment" =>
              /\ payment[req[p].payment].invoice = None
              /\ \A q \in Request \ {p} : req[q].payment # req[p].payment

\* What a request loaded is a status its operation may begin with.
AllowedFrom(r) ==
    /\ r.operation \in Operations
    /\ r.operation \in OnDrafts => r.was.status = "draft"
    /\ r.operation \in OnPayments => r.was.status \notin {"none", "draft", "void"}
    /\ r.operation = "void_invoice" => r.was.status = "issued"
    /\ r.operation \in Creating => r.phase = "written"

\* What a request will write fits what it loaded and what it changes.
Reckoned(p) ==
    /\ req[p].was = invoice[req[p].invoice]
    /\ req[p].phase = "loaded" => req[p].row = [req[p].was EXCEPT !.discount = req[p].row.discount]
    /\ req[p].phase = "written" => RowFits(req[p].row, LinesAfter(p), PaidSeen(p))
    /\ req[p].operation \notin Creating \cup OnDrafts =>
           req[p].row.discount = req[p].was.discount /\ req[p].row.total = req[p].was.total

PaymentsHeld == \A p \in Request : PaymentHeld(p)
Allowed      == \A p \in Request : Pending(p) => AllowedFrom(req[p])
ReadsStand   ==
    \A p \in Request :
        Pending(p) /\ req[p].invoice \notin missed[p] \cup crossed => Reckoned(p)

Agreeing == RowsAgree /\ PaymentsHeld /\ Allowed /\ ReadsStand

\* A row agrees if it fits its lines and payments.
LEMMA RowAgreesFits ==
    ASSUME NEW i
    PROVE  RowAgrees(i) <=> RowFits(invoice[i], line[i], PaidOn(i, payment))
BY DEF RowAgrees, RowFits

\* What a request does to each payment.
LEMMA PaymentsAfterAt ==
    ASSUME payment \in [Payment -> Payments], NEW p, NEW n \in Payment
    PROVE  PaymentsAfter(p)[n] =
             IF req[p].operation \in OnPayments /\ req[p].payment = n
             THEN IF req[p].operation = "record_payment"
                  THEN [invoice |-> req[p].invoice, amount |-> req[p].amount] ELSE NoPayment
             ELSE payment[n]
<1>1. CASE req[p].operation = "record_payment"
  BY <1>1 DEF PaymentsAfter, OnPayments
<1>2. CASE req[p].operation = "reverse_payment"
  BY <1>2 DEF PaymentsAfter, OnPayments
<1>3. CASE req[p].operation \notin OnPayments
  BY <1>3 DEF PaymentsAfter, OnPayments
<1> QED
  BY <1>1, <1>2, <1>3 DEF OnPayments

\* A request changes no payment of another invoice.
LEMMA PaidElsewhere ==
    ASSUME TypeOK, PaymentsHeld, NEW p \in Request, NEW j, j \notin {None, req[p].invoice}
    PROVE  /\ PaidOn(j, PaymentsAfter(p)) = PaidOn(j, payment)
           /\ \A n \in Payment : /\ PaymentsAfter(p)[n].invoice = j <=> payment[n].invoice = j
                                 /\ PaymentsAfter(p)[n].invoice = j => PaymentsAfter(p)[n] = payment[n]
<1>1. payment \in [Payment -> Payments] /\ PaymentsAfter(p) \in [Payment -> Payments]
  BY PaymentsAfterType DEF TypeOK
<1>2. ASSUME NEW n \in Payment
      PROVE  /\ PaymentsAfter(p)[n].invoice = j <=> payment[n].invoice = j
             /\ PaymentsAfter(p)[n].invoice = j => PaymentsAfter(p)[n] = payment[n]
  <2>1. CASE req[p].operation \in OnPayments /\ req[p].payment = n
    <3>1. payment[n].invoice \in {None, req[p].invoice}
      BY <2>1 DEF PaymentsHeld, PaymentHeld
    <3>2. PaymentsAfter(p)[n].invoice \in {None, req[p].invoice}
      <4>1. CASE req[p].operation = "record_payment"
        <5>1. PaymentsAfter(p)[n] = [invoice |-> req[p].invoice, amount |-> req[p].amount]
          BY <1>1, <2>1, <4>1, PaymentsAfterAt
        <5> QED
          BY <5>1
      <4>2. CASE req[p].operation # "record_payment"
        <5>1. PaymentsAfter(p)[n] = NoPayment
          BY <1>1, <2>1, <4>2, PaymentsAfterAt
        <5> QED
          BY <5>1 DEF NoPayment
      <4> QED
        BY <4>1, <4>2
    <3> QED
      BY <3>1, <3>2
  <2>2. CASE ~(req[p].operation \in OnPayments /\ req[p].payment = n)
    BY <1>1, <2>2, PaymentsAfterAt
  <2> QED
    BY <2>1, <2>2
<1>3. PaidOn(j, PaymentsAfter(p)) = PaidOn(j, payment)
  BY <1>1, <1>2, PaidAgree
<1> QED
  BY <1>2, <1>3

\* Who has not settled on a row yet does not create the invoice.
LEMMA LoadedFrom ==
    ASSUME IInv, TypeOK, Agreeing, NEW p \in Request, req[p].phase = "loaded"
    PROVE  /\ Pending(p) /\ req[p].operation \notin Creating /\ AllowedFrom(req[p])
           /\ req[p].invoice \in Invoice /\ req[p].was.status \notin {"none", "void"}
<1>1. Pending(p)
  BY DEF Pending
<1>2. AllowedFrom(req[p]) /\ req[p].operation \notin Creating
  BY <1>1 DEF Agreeing, Allowed, AllowedFrom
<1> QED
  BY <1>1, <1>2 DEF IInv, Shaped, RequestsFormed, WorksOn

\* A row settled on while the invoice stands as it was loaded.
LEMMA WritesFit ==
    ASSUME IInv, TypeOK, Agreeing, NEW p \in Request, Recalculate(p) \/ Issue(p) \/ Void(p)
    PROVE  \E row \in Invoices :
             /\ Write(p, row)
             /\ req[p].invoice \notin missed[p] \cup crossed =>
                   /\ RowFits(row, LinesAfter(p), PaidSeen(p))
                   /\ req[p].operation \notin OnDrafts =>
                         row.discount = req[p].was.discount /\ row.total = req[p].was.total
<1> DEFINE i == req[p].invoice
           was == req[p].was
           row == req[p].row
           Stands == i \notin missed[p] \cup crossed
<1>1. req[p].phase = "loaded"
  BY DEF Recalculate, Issue, Void
<1>2. /\ Pending(p) /\ req[p].operation \notin Creating /\ AllowedFrom(req[p])
      /\ i \in Invoice /\ was.status \notin {"none", "void"}
  BY <1>1, LoadedFrom
<1>3. was \in Invoices /\ row \in Invoices /\ req[p] \in Requests
  BY DEF TypeOK, Requests
<1>4. ASSUME Stands
      PROVE  /\ was = invoice[i] /\ row = [was EXCEPT !.discount = row.discount]
             /\ req[p].operation \notin OnDrafts => row.discount = was.discount /\ row.total = was.total
             /\ RowFits(invoice[i], line[i], PaidOn(i, payment))
  <2>1. Reckoned(p)
    BY <1>2, <1>4 DEF Agreeing, ReadsStand
  <2>2. RowAgrees(i)
    BY <1>2, <1>4 DEF Agreeing, RowsAgree
  <2>3. RowFits(invoice[i], line[i], PaidOn(i, payment))
    BY <2>2, RowAgreesFits
  <2> QED
    BY <1>1, <1>2, <2>1, <2>3 DEF Reckoned
<1>5. ASSUME Stands PROVE row.status = was.status
  BY <1>3, <1>4, <1>5 DEF Invoices
<1>6. SubtotalSeen(p) \in Nat /\ PaidSeen(p) \in Nat
  BY <1>2, SeenType
<1>8. ASSUME Stands, req[p].operation \in OnDrafts PROVE PaidSeen(p) = 0 /\ was.status = "draft"
  <2>1. PaymentsAfter(p) = payment
    BY <1>8 DEF PaymentsAfter, OnDrafts, OnLines, AddLine
  <2>2. was.status = "draft"
    BY <1>2, <1>8 DEF AllowedFrom
  <2> QED
    BY <1>4, <1>8, <2>1, <2>2 DEF RowFits, PaidSeen
<1> DEFINE a == After(p)
           ls == LinesAfter(p)
<1>9. ASSUME Fits(p)
      PROVE  /\ a \in Invoices /\ a.discount = row.discount
             /\ a.total = Subtotal(ls) - a.discount
             /\ a.paid = PaidSeen(p) /\ a.balance = a.total - PaidSeen(p)
             /\ a.status = IF row.status \in {"draft", "void"} THEN row.status
                           ELSE Settled(PaidSeen(p), a.total)
  BY <1>2, <1>9, AfterType DEF SubtotalSeen, After
<1>10. ASSUME req[p].operation \notin OnDrafts
       PROVE  /\ was.status \notin {"none", "draft", "void"} /\ ls = line[i]
              /\ req[p].operation \in OnPayments \cup {"void_invoice"}
  BY <1>2, <1>10 DEF AllowedFrom, Operations, LinesAfter, OnPayments, Creating, OnDrafts, OnLines, AddLine
<1> HIDE DEF a
<1>11. CASE Recalculate(p)
  <2>1. Write(p, a) /\ Fits(p)
    BY <1>11 DEF Recalculate, a
  <2>2. ASSUME Stands, req[p].operation \in OnDrafts PROVE RowFits(a, ls, PaidSeen(p))
    <3>1. a.status = "draft" /\ PaidSeen(p) = 0
      BY <1>5, <1>8, <1>9, <2>1, <2>2
    <3>2. a.total \in Nat /\ a.balance = a.total
      BY <1>9, <2>1, <3>1 DEF Invoices
    <3> QED
      BY <1>9, <2>1, <3>1, <3>2 DEF RowFits
  <2>3. ASSUME Stands, req[p].operation \notin OnDrafts
        PROVE  RowFits(a, ls, PaidSeen(p)) /\ a.discount = was.discount /\ a.total = was.total
    <3>1. was.status \notin {"none", "draft", "void"} /\ ls = line[i]
      BY <1>10, <2>3
    <3>2. a.status = Settled(PaidSeen(p), a.total)
      BY <1>5, <1>9, <2>1, <2>3, <3>1
    <3>3. RowFits(a, ls, PaidSeen(p))
      BY <1>9, <2>1, <3>2 DEF RowFits, Settled
    <3>4. was.total = Subtotal(ls) - was.discount
      BY <1>4, <2>3, <3>1 DEF RowFits
    <3> QED
      BY <1>4, <1>9, <2>1, <2>3, <3>3, <3>4
  <2> QED
    BY <1>9, <2>1, <2>2, <2>3 DEF a
<1>12. CASE Issue(p)
  <2> DEFINE b == [a EXCEPT !.status = "issued", !.balance = a.total]
  <2>1. Write(p, b) /\ Fits(p) /\ req[p].operation \in OnDrafts
    BY <1>12 DEF Issue, a, OnDrafts
  <2>2. /\ b \in Invoices /\ b.status = "issued" /\ b.total = a.total /\ b.paid = a.paid
        /\ b.balance = a.total /\ b.discount = a.discount /\ a.total \in Nat
    BY <1>9, <2>1 DEF Invoices
  <2> HIDE DEF b
  <2>3. ASSUME Stands PROVE RowFits(b, ls, PaidSeen(p))
    <3>1. PaidSeen(p) = 0
      BY <1>8, <2>1, <2>3
    <3>2. b.balance = b.total - PaidSeen(p) /\ b.status = Settled(PaidSeen(p), b.total)
      BY <2>2, <3>1 DEF Settled
    <3> QED
      BY <1>9, <2>1, <2>2, <3>2 DEF RowFits
  <2> QED
    BY <2>1, <2>2, <2>3
<1>13. CASE Void(p)
  <2> DEFINE b == [row EXCEPT !.status = "void", !.balance = 0]
  <2>1. Write(p, b) /\ PaidSeen(p) = 0
    BY <1>13 DEF Void
  <2>2. /\ b \in Invoices /\ b.status = "void" /\ b.balance = 0
        /\ b.discount = row.discount /\ b.total = row.total
    BY <1>3 DEF Invoices
  <2> HIDE DEF b
  <2>3. RowFits(b, ls, PaidSeen(p))
    BY <2>1, <2>2 DEF RowFits
  <2> QED
    BY <1>4, <2>1, <2>2, <2>3
<1> QED
  BY <1>11, <1>12, <1>13

-----------------------------------------------------------------------------
(* Each step keeps the rows agreeing.                                      *)

\* Beginning an operation.
LEMMA ArriveAgrees ==
    ASSUME IInv, TypeOK, Agreeing, NEW p \in Request, NEW r, Arrives(p, r)
    PROVE  Agreeing'
<1> DEFINE i == r.invoice
<1>1. /\ UNCHANGED <<invoice, line, payment, crossed>>
      /\ r \in Requests /\ r.phase # "idle" /\ i \in Invoice /\ r.was = invoice[i] /\ Begins(r)
      /\ req'[p] = r /\ \A q \in Request \ {p} : req'[q] = req[q]
      /\ missed'[p] = {} /\ \A q \in Request \ {p} : missed'[q] = missed[q]
  BY DEF Arrives, TypeOK
<1>2. RowsAgree'
  <2>1. \A j : RowAgrees(j)' = RowAgrees(j)
    BY <1>1 DEF RowAgrees
  <2> QED
    BY <1>1, <2>1 DEF Agreeing, RowsAgree
<1>3. PaymentsHeld'
  <2>1. ASSUME NEW q \in Request \ {p} PROVE PaymentHeld(q)'
    <3>1. PaymentHeld(q) /\ req'[q] = req[q] /\ payment' = payment
      BY <1>1 DEF Agreeing, PaymentsHeld
    <3>2. ASSUME req[q].operation = "record_payment" PROVE req'[p].payment # req[q].payment
      <4>1. req[q].payment \in Payment /\ payment[req[q].payment].invoice = None
        BY <3>1, <3>2 DEF PaymentHeld, OnPayments
      <4>2. None \notin Payment /\ i # None
        BY <1>1, InvoicesAssumption
      <4>3. r.payment # req[q].payment
        BY <1>1, <4>1, <4>2 DEF Begins, OnPayments
      <4> QED
        BY <1>1, <4>3
    <3> QED
      BY <1>1, <3>1, <3>2 DEF PaymentHeld, OnPayments
  <2>2. PaymentHeld(p)'
    BY <1>1 DEF PaymentHeld, Begins, OnPayments
  <2> QED
    BY <2>1, <2>2 DEF PaymentsHeld
<1>4. Allowed'
  <2>1. AllowedFrom(r)
    BY <1>1 DEF AllowedFrom, Begins
  <2> QED
    BY <1>1, <2>1 DEF Agreeing, Allowed, Pending
<1>5. ReadsStand'
  <2>1. ASSUME NEW q \in Request \ {p} PROVE Reckoned(q)' = Reckoned(q)
    <3>1. req'[q] = req[q] /\ PaymentsAfter(q)' = PaymentsAfter(q) /\ LinesAfter(q)' = LinesAfter(q)
      BY <1>1 DEF PaymentsAfter, LinesAfter
    <3>2. PaidSeen(q)' = PaidSeen(q)
      BY <3>1 DEF PaidSeen
    <3> QED
      BY <1>1, <3>1, <3>2 DEF Reckoned
  <2>2. ASSUME i \notin crossed PROVE Reckoned(p)'
    <3>1. RowFits(invoice[i], line[i], PaidOn(i, payment))
      BY <1>1, <2>2, RowAgreesFits DEF Agreeing, RowsAgree
    <3>2. CASE r.operation \in Creating
      <4>1. /\ r.phase = "written" /\ invoice[i].status = "none" /\ r.row.status = "draft"
            /\ r.row.total = Subtotal(r.lines) - r.row.discount /\ r.row.balance = r.row.total
        BY <1>1, <3>2 DEF Begins
      <4>2. PaidOn(i, payment) = 0
        BY <3>1, <4>1 DEF RowFits
      <4>3. PaymentsAfter(p)' = payment /\ LinesAfter(p)' = r.lines
        <5>1. req'[p].operation \in Creating /\ req'[p].lines = r.lines /\ payment' = payment
          BY <1>1, <3>2
        <5>2. PaymentsAfter(p)' = payment
          BY <5>1 DEF PaymentsAfter, Creating
        <5>3. LinesAfter(p)' = r.lines
          BY <5>1 DEF LinesAfter, Creating, AddLine
        <5> QED
          BY <5>2, <5>3
      <4>4. RowFits(r.row, LinesAfter(p)', PaidSeen(p)')
        BY <1>1, <4>1, <4>2, <4>3 DEF RowFits, PaidSeen
      <4> QED
        BY <1>1, <3>2, <4>1, <4>4 DEF Reckoned
    <3>3. CASE r.operation \notin Creating
      <4>1. /\ r.phase = "loaded" /\ r.row = [r.was EXCEPT !.discount = r.row.discount]
            /\ r.operation \notin OnDrafts => r.row.discount = r.was.discount
        BY <1>1, <3>3 DEF Begins
      <4>2. r.row.total = r.was.total
        BY <1>1, <4>1 DEF Requests, Invoices
      <4> QED
        BY <1>1, <4>1, <4>2 DEF Reckoned
    <3> QED
      BY <3>2, <3>3
  <2> QED
    BY <1>1, <2>1, <2>2 DEF Agreeing, ReadsStand, Pending
<1> QED
  BY <1>2, <1>3, <1>4, <1>5 DEF Agreeing

\* Settling on a row.
LEMMA WriteAgrees ==
    ASSUME IInv, TypeOK, Agreeing, NEW p \in Request, Recalculate(p) \/ Issue(p) \/ Void(p)
    PROVE  Agreeing'
<1>1. PICK row \in Invoices :
             /\ Write(p, row)
             /\ req[p].invoice \notin missed[p] \cup crossed =>
                   /\ RowFits(row, LinesAfter(p), PaidSeen(p))
                   /\ req[p].operation \notin OnDrafts =>
                         row.discount = req[p].was.discount /\ row.total = req[p].was.total
  BY WritesFit
<1>2. /\ req'[p].phase = "written" /\ req'[p].row = row
      /\ req'[p].operation = req[p].operation /\ req'[p].invoice = req[p].invoice
      /\ req'[p].source = req[p].source /\ req'[p].payment = req[p].payment
      /\ req'[p].amount = req[p].amount /\ req'[p].lines = req[p].lines
      /\ req'[p].was = req[p].was
      /\ \A q \in Request \ {p} : req'[q] = req[q]
      /\ UNCHANGED <<invoice, line, payment, missed, crossed>>
  BY <1>1, WriteRecord
<1>3. Pending(p) /\ AllowedFrom(req[p])
  <2>1. req[p].phase = "loaded"
    BY DEF Recalculate, Issue, Void
  <2> QED
    BY <2>1, LoadedFrom
<1>4. RowsAgree'
  <2>1. \A j : RowAgrees(j)' = RowAgrees(j)
    BY <1>2 DEF RowAgrees
  <2> QED
    BY <1>2, <2>1 DEF Agreeing, RowsAgree
<1>5. PaymentsHeld'
  <2>1. \A q \in Request : /\ req'[q].operation = req[q].operation /\ req'[q].payment = req[q].payment
                           /\ req'[q].invoice = req[q].invoice
    BY <1>2
  <2> QED
    BY <1>2, <2>1 DEF Agreeing, PaymentsHeld, PaymentHeld
<1>6. Allowed'
  BY <1>2, <1>3 DEF Agreeing, Allowed, AllowedFrom, Pending
<1>7. \A q \in Request : LinesAfter(q)' = LinesAfter(q) /\ PaidSeen(q)' = PaidSeen(q)
  <2>1. ASSUME NEW q \in Request
        PROVE  /\ req'[q].operation = req[q].operation /\ req'[q].payment = req[q].payment
               /\ req'[q].invoice = req[q].invoice /\ req'[q].source = req[q].source
               /\ req'[q].amount = req[q].amount /\ req'[q].lines = req[q].lines
    BY <1>2
  <2>2. ASSUME NEW q \in Request PROVE LinesAfter(q)' = LinesAfter(q) /\ PaymentsAfter(q)' = PaymentsAfter(q)
    BY <1>2, <2>1, <2>2 DEF LinesAfter, PaymentsAfter
  <2> QED
    BY <2>1, <2>2 DEF PaidSeen
<1>8. ASSUME NEW q \in Request \ {p} PROVE Reckoned(q)' = Reckoned(q)
  BY <1>2, <1>7 DEF Reckoned
<1>9. ASSUME req[p].invoice \notin missed[p] \cup crossed PROVE Reckoned(p)'
  <2>1. Reckoned(p)
    BY <1>3, <1>9 DEF Agreeing, ReadsStand
  <2> QED
    BY <1>1, <1>2, <1>7, <1>9, <2>1 DEF Reckoned
<1>10. ReadsStand'
  BY <1>2, <1>3, <1>8, <1>9 DEF Agreeing, ReadsStand, Pending
<1> QED
  BY <1>4, <1>5, <1>6, <1>10 DEF Agreeing

\* A request that gives up.
LEMMA RollBackAgrees ==
    ASSUME IInv, TypeOK, Agreeing, NEW p \in Request, RollBack(p)
    PROVE  Agreeing'
<1>1. /\ UNCHANGED <<invoice, line, payment, crossed>>
      /\ req'[p].phase = "idle" /\ req'[p].operation = "none" /\ req'[p].payment = None
      /\ \A q \in Request \ {p} : req'[q] = req[q] /\ missed'[q] = missed[q]
  BY DEF RollBack, rows, TypeOK, NoRequest
<1>2. RowsAgree'
  <2>1. \A j : RowAgrees(j)' = RowAgrees(j)
    BY <1>1 DEF RowAgrees
  <2> QED
    BY <1>1, <2>1 DEF Agreeing, RowsAgree
<1>3. PaymentsHeld'
  <2>1. None \notin Payment
    BY InvoicesAssumption
  <2>2. PaymentHeld(p)'
    BY <1>1 DEF PaymentHeld, OnPayments
  <2>3. ASSUME NEW q \in Request \ {p} PROVE PaymentHeld(q)'
    BY <1>1, <2>1 DEF Agreeing, PaymentsHeld, PaymentHeld
  <2> QED
    BY <2>2, <2>3 DEF PaymentsHeld
<1>4. Allowed'
  BY <1>1 DEF Agreeing, Allowed, Pending
<1>5. ReadsStand'
  <2>1. ASSUME NEW q \in Request \ {p} PROVE Reckoned(q)' = Reckoned(q)
    <3>1. req'[q] = req[q] /\ PaymentsAfter(q)' = PaymentsAfter(q) /\ LinesAfter(q)' = LinesAfter(q)
      BY <1>1 DEF PaymentsAfter, LinesAfter
    <3>2. PaidSeen(q)' = PaidSeen(q)
      BY <3>1 DEF PaidSeen
    <3> QED
      BY <1>1, <3>1, <3>2 DEF Reckoned
  <2> QED
    BY <1>1, <2>1 DEF Agreeing, ReadsStand, Pending
<1> QED
  BY <1>2, <1>3, <1>4, <1>5 DEF Agreeing

\* What a commit changes.
LEMMA CommitRecord ==
    ASSUME IInv, TypeOK, NEW p \in Request, Commit(p)
    PROVE  LET i == req[p].invoice
           IN /\ i \in Invoice /\ Pending(p) /\ req[p].phase = "written"
              /\ invoice'[i] = Flushed(req[p].was, req[p].row, invoice[i])
              /\ line'[i] = LinesAfter(p) /\ payment' = PaymentsAfter(p)
              /\ \A j \in Invoice \ {i} : invoice'[j] = invoice[j] /\ line'[j] = line[j]
              /\ crossed \subseteq crossed' /\ (i \in missed[p] => i \in crossed')
              /\ req'[p] = NoRequest
              /\ \A q \in Request \ {p} :
                    req'[q] = req[q] /\ (Pending(q) => missed[q] \subseteq missed'[q])
              /\ \A q \in Request \ {p} : Pending(q) /\ req[q].invoice = i => i \in missed'[q]
<1> DEFINE i == req[p].invoice
<1>1. Shaped
  BY DEF IInv
<1>2. /\ i \in Invoice /\ Pending(p) /\ line'[i] = LinesAfter(p)
      /\ \A j \in Invoice \ {i} : invoice'[j] = invoice[j] /\ line'[j] = line[j]
      /\ crossed' = crossed \cup (Touched(p) \cap missed[p])
      /\ \A q \in Request \ {p} : Pending(q) =>
            missed'[q] = missed[q] \cup (Touched(p) \cap Touched(q))
  BY <1>1, CommitFrame
<1>3. i \in Touched(p) /\ \A q \in Request : req[q].invoice = i => i \in Touched(q)
  BY DEF Touched
<1>4. /\ req[p].phase = "written" /\ payment' = PaymentsAfter(p)
      /\ invoice'[i] = Flushed(req[p].was, req[p].row, invoice[i])
  BY <1>2 DEF Commit, TypeOK
<1>5. req'[p] = NoRequest /\ \A q \in Request \ {p} : req'[q] = req[q]
  BY DEF Commit, TypeOK
<1> HIDE DEF i
<1> QED
  BY <1>2, <1>3, <1>4, <1>5 DEF i

\* The row a commit leaves when its request had missed nothing of the invoice.
LEMMA CommitWritesRow ==
    ASSUME IInv, TypeOK, Agreeing, NEW p \in Request, Commit(p), req[p].invoice \notin crossed'
    PROVE  /\ Reckoned(p) /\ AllowedFrom(req[p])
           /\ invoice'[req[p].invoice] = req[p].row
<1> DEFINE i == req[p].invoice
<1>1. /\ i \in Invoice /\ Pending(p) /\ i \notin missed[p] \cup crossed
      /\ invoice'[i] = Flushed(req[p].was, req[p].row, invoice[i])
  BY CommitRecord
<1>2. Reckoned(p) /\ AllowedFrom(req[p])
  BY <1>1 DEF Agreeing, ReadsStand, Allowed
<1>3. req[p].row \in Invoices /\ invoice[i] \in Invoices
  BY <1>1 DEF TypeOK, Requests
<1> QED
  BY <1>1, <1>2, <1>3, FlushedType DEF Reckoned

\* The payments a request sees after a step are payments.
LEMMA PaymentsAfterTypeLater ==
    (TypeOK => \A p \in Request : PaymentsAfter(p) \in [Payment -> Payments])'
<1>1. TypeOK => \A p \in Request : PaymentsAfter(p) \in [Payment -> Payments]
  BY PaymentsAfterType
<1> QED
  BY <1>1, PTL

\* What another request will write, its invoice being left alone by a commit.
LEMMA CommitLeavesSeen ==
    ASSUME IInv, TypeOK, PaymentsHeld, NEW p \in Request, Commit(p), NEW q \in Request \ {p},
           Pending(q), req[q].invoice # req[p].invoice
    PROVE  LinesAfter(q)' = LinesAfter(q) /\ PaidSeen(q)' = PaidSeen(q)
<1> DEFINE j == req[q].invoice
<1>1. /\ j \in Invoice /\ j # None /\ req'[q] = req[q] /\ line'[j] = line[j]
      /\ payment' = PaymentsAfter(p)
  <2>1. j \in Invoice /\ None \notin Invoice
    BY InvoicesAssumption DEF IInv, Shaped
  <2> QED
    BY <2>1, CommitRecord
<1>2. LinesAfter(q)' = LinesAfter(q)
  BY <1>1 DEF LinesAfter
<1>3. \A n \in Payment : /\ payment'[n].invoice = j <=> payment[n].invoice = j
                         /\ payment'[n].invoice = j => payment'[n] = payment[n]
  BY <1>1, PaidElsewhere
<1>4. /\ payment \in [Payment -> Payments] /\ payment' \in [Payment -> Payments]
      /\ PaymentsAfter(q) \in [Payment -> Payments] /\ PaymentsAfter(q)' \in [Payment -> Payments]
  <2>1. TypeOK'
    BY CommitTypes
  <2>2. PaymentsAfter(q) \in [Payment -> Payments] /\ PaymentsAfter(q)' \in [Payment -> Payments]
    BY <2>1, PaymentsAfterType, PaymentsAfterTypeLater
  <2> QED
    BY <2>1, <2>2 DEF TypeOK
<1>5. ASSUME NEW n \in Payment
      PROVE  /\ PaymentsAfter(q)'[n].invoice = j <=> PaymentsAfter(q)[n].invoice = j
             /\ PaymentsAfter(q)'[n].invoice = j => PaymentsAfter(q)'[n] = PaymentsAfter(q)[n]
  <2>1. CASE req[q].operation \in OnPayments /\ req[q].payment = n
    <3>1. PaymentsAfter(q)'[n] = PaymentsAfter(q)[n]
      BY <1>1, <1>4, <2>1 DEF PaymentsAfter, OnPayments
    <3> QED
      BY <3>1
  <2>2. CASE ~(req[q].operation \in OnPayments /\ req[q].payment = n)
    <3>1. PaymentsAfter(q)'[n] = payment'[n] /\ PaymentsAfter(q)[n] = payment[n]
      BY <1>1, <1>4, <2>2 DEF PaymentsAfter, OnPayments
    <3> QED
      BY <1>3, <3>1
  <2> QED
    BY <2>1, <2>2
<1>6. PaidOn(j, PaymentsAfter(q)') = PaidOn(j, PaymentsAfter(q))
  BY <1>4, <1>5, PaidAgree
<1> QED
  BY <1>1, <1>2, <1>6 DEF PaidSeen

\* Committing.
LEMMA CommitAgrees ==
    ASSUME IInv, TypeOK, Agreeing, NEW p \in Request, Commit(p)
    PROVE  Agreeing'
<1> DEFINE i == req[p].invoice
<1>1. /\ i \in Invoice /\ Pending(p) /\ req[p].phase = "written"
      /\ line'[i] = LinesAfter(p) /\ payment' = PaymentsAfter(p)
      /\ \A j \in Invoice \ {i} : invoice'[j] = invoice[j] /\ line'[j] = line[j]
      /\ crossed \subseteq crossed'
      /\ req'[p] = NoRequest
      /\ \A q \in Request \ {p} :
            req'[q] = req[q] /\ (Pending(q) => missed[q] \subseteq missed'[q])
      /\ \A q \in Request \ {p} : Pending(q) /\ req[q].invoice = i => i \in missed'[q]
  BY CommitRecord
<1>2. PaymentsHeld /\ RowsAgree /\ ReadsStand /\ Allowed /\ None \notin Invoice \cup Payment
  BY InvoicesAssumption DEF Agreeing
<1>3. /\ NoRequest.phase = "idle" /\ NoRequest.operation = "none" /\ NoRequest.payment = None
  BY DEF NoRequest
<1> HIDE DEF i
<1>4. RowsAgree'
  <2>1. ASSUME i \notin crossed' PROVE RowFits(invoice'[i], line'[i], PaidOn(i, payment'))
    <3>1. Reckoned(p) /\ invoice'[i] = req[p].row
      BY <2>1, CommitWritesRow DEF i
    <3> QED
      BY <1>1, <3>1 DEF Reckoned, PaidSeen, i
  <2>2. ASSUME NEW j \in Invoice \ {i}, j \notin crossed'
        PROVE  RowFits(invoice'[j], line'[j], PaidOn(j, payment'))
    <3>1. RowFits(invoice[j], line[j], PaidOn(j, payment))
      BY <1>1, <1>2, <2>2, RowAgreesFits DEF RowsAgree
    <3>2. PaidOn(j, payment') = PaidOn(j, payment)
      BY <1>1, <1>2, <2>2, PaidElsewhere DEF i
    <3> QED
      BY <1>1, <2>2, <3>1, <3>2
  <2> QED
    BY <2>1, <2>2 DEF RowsAgree, RowAgrees, RowFits
<1>5. PaymentsHeld'
  <2>1. PaymentHeld(p)'
    BY <1>1, <1>3 DEF PaymentHeld, OnPayments
  <2>2. ASSUME NEW q \in Request \ {p} PROVE PaymentHeld(q)'
    <3>1. PaymentHeld(q) /\ PaymentHeld(p) /\ req'[q] = req[q]
      BY <1>1, <1>2 DEF PaymentsHeld
    <3> DEFINE n == req[q].payment
    <3> SUFFICES ASSUME req[q].operation \in OnPayments PROVE PaymentHeld(q)'
      BY <3>1 DEF PaymentHeld
    <3>2. n \in Payment
      BY <3>1 DEF PaymentHeld
    <3>3. payment'[n] = payment[n] \/ (payment'[n] = NoPayment /\ req[q].operation # "record_payment")
      <4>1. payment \in [Payment -> Payments]
        BY DEF TypeOK
      <4>2. CASE req[p].operation \in OnPayments /\ req[p].payment = n
        <5>1. req[q].operation # "record_payment" /\ req[p].operation # "record_payment"
          BY <3>1, <4>2 DEF PaymentHeld
        <5> QED
          <6>1. PaymentsAfter(p)[n] = NoPayment
            BY <3>2, <4>1, <4>2, <5>1, PaymentsAfterAt
          <6> QED
            BY <1>1, <5>1, <6>1
      <4>3. CASE ~(req[p].operation \in OnPayments /\ req[p].payment = n)
        <5>1. PaymentsAfter(p)[n] = payment[n]
          BY <3>2, <4>1, <4>3, PaymentsAfterAt
        <5> QED
          BY <1>1, <5>1
      <4> QED
        BY <4>2, <4>3
    <3>4. NoPayment.invoice = None
      BY DEF NoPayment
    <3> QED
      BY <1>1, <1>2, <1>3, <3>1, <3>2, <3>3, <3>4 DEF PaymentHeld
  <2> QED
    BY <2>1, <2>2 DEF PaymentsHeld
<1>6. Allowed'
  BY <1>1, <1>2, <1>3 DEF Allowed, Pending
<1>7. ReadsStand'
  <2> SUFFICES ASSUME NEW q \in Request, Pending(q)', req'[q].invoice \notin missed'[q] \cup crossed'
               PROVE  Reckoned(q)'
    BY DEF ReadsStand
  <2>1. q # p /\ req'[q] = req[q] /\ Pending(q) /\ req[q].invoice # i
    BY <1>1, <1>3 DEF Pending
  <2>2. req[q].invoice \notin missed[q] \cup crossed
    BY <1>1, <2>1
  <2>3. req[q].invoice \in Invoice
    BY <2>1 DEF IInv, Shaped
  <2>4. Reckoned(q)
    BY <1>2, <2>1, <2>2 DEF ReadsStand
  <2>5. LinesAfter(q)' = LinesAfter(q) /\ PaidSeen(q)' = PaidSeen(q)
    BY <1>2, <2>1, CommitLeavesSeen DEF i
  <2> QED
    BY <1>1, <2>1, <2>3, <2>4, <2>5 DEF Reckoned
<1> QED
  BY <1>4, <1>5, <1>6, <1>7 DEF Agreeing

-----------------------------------------------------------------------------
(* The theorems about the rows.                                            *)

\* Whatever a request does, the rows go on agreeing.
LEMMA NextAgrees == ASSUME IInv, TypeOK, Agreeing, [Next]_vars PROVE Agreeing'
<1>1. CASE UNCHANGED vars
  <2>1. UNCHANGED <<invoice, line, payment, req, missed, crossed>>
    BY <1>1 DEF vars, rows
  <2>2. \A j : RowAgrees(j)' = RowAgrees(j)
    BY <2>1 DEF RowAgrees
  <2>3. \A q : LinesAfter(q)' = LinesAfter(q) /\ PaymentsAfter(q)' = PaymentsAfter(q)
    BY <2>1 DEF LinesAfter, PaymentsAfter
  <2>4. \A q : Reckoned(q)' = Reckoned(q)
    BY <2>1, <2>3 DEF Reckoned, PaidSeen
  <2> QED
    BY <2>1, <2>2, <2>4 DEF Agreeing, RowsAgree, PaymentsHeld, PaymentHeld, Allowed, ReadsStand, Pending
<1>2. ASSUME NEW p \in Request, Begin(p) PROVE Agreeing'
  BY <1>2, BeginArrives, ArriveAgrees
<1> QED
  BY <1>1, <1>2, WriteAgrees, CommitAgrees, RollBackAgrees DEF Next

\* Nothing is owed before there are invoices.
LEMMA InitAgrees == Init => Agreeing
<1> SUFFICES ASSUME Init PROVE Agreeing
  OBVIOUS
<1>1. \A i \in Invoice : PaidOn(i, payment) = 0
  <2> SUFFICES ASSUME NEW i \in Invoice PROVE PaidOn(i, payment) = 0
    OBVIOUS
  <2> DEFINE S == {m \in Payment : payment[m].invoice = i}
             f == [n \in S |-> payment[n].amount]
  <2>1. S = {}
    BY InvoicesAssumption DEF Init, NoPayment
  <2>2. PaidOn(i, payment) = SumFunctionOnSet(f, {})
    BY <2>1 DEF PaidOn, SumFunction
  <2> HIDE DEF f
  <2> QED
    BY <2>2, SumEmpty
<1>2. RowsAgree
  BY <1>1 DEF Init, RowsAgree, RowAgrees, NoInvoice
<1>3. \A p \in Request : req[p].phase = "idle" /\ req[p].operation = "none"
  BY DEF Init, NoRequest
<1> QED
  BY <1>2, <1>3 DEF Agreeing, PaymentsHeld, PaymentHeld, Allowed, ReadsStand, Pending, OnPayments

\* The rows and the requests keep their types whatever requests do; above all, no amount
\* of money is ever negative (invoice_service.py, _recalculate_invoice_totals).
THEOREM TypeCorrect == Spec => []TypeOK
<1>1. IInv /\ TypeOK /\ [Next]_vars => TypeOK'
  BY NextTypes
<1> QED
  BY <1>1, Invariant, InitTypes, PTL DEF Spec

\* With the types, the rows agree, inductively.
LEMMA AgreeingInvariant == Spec => []Agreeing
<1>1. IInv /\ TypeOK /\ Agreeing /\ [Next]_vars => Agreeing'
  BY NextAgrees
<1> QED
  BY <1>1, Invariant, TypeCorrect, InitAgrees, PTL DEF Spec

\* However many requests run at once, the totals and the status an invoice repeats are
\* those of its lines and payments, unless a request wrote over a change it had missed
\* (invoice_service.py, _recalculate_invoice_totals, issue_invoice, void_invoice).
THEOREM TotalsAgree == Spec => []RowsAgree
<1>1. Agreeing => RowsAgree
  BY DEF Agreeing
<1> QED
  BY <1>1, AgreeingInvariant, PTL

\* What an issued invoice charges is final, and a void one stays as it is, unless a
\* request wrote over a change it had missed (invoice_service.py, _ensure_draft,
\* record_payment, void_invoice).
THEOREM TermsStay == Spec => IssuedTermsStay
<1> DEFINE Stay(i) ==
             invoice[i].status \notin {"none", "draft"} =>
               /\ line'[i] = line[i]
               /\ invoice'[i].total = invoice[i].total
               /\ invoice'[i].discount = invoice[i].discount
               /\ invoice[i].status = "void" => invoice'[i] = invoice[i]
           Kept == \A i \in Invoice \ crossed' : Stay(i)
<1>1. ASSUME IInv, TypeOK, Agreeing, NEW p \in Request, Commit(p), NEW i \in Invoice \ crossed'
      PROVE  Stay(i)
  <2> SUFFICES ASSUME i = req[p].invoice, invoice[i].status \notin {"none", "draft"}
               PROVE  /\ line'[i] = line[i] /\ invoice[i].status # "void"
                      /\ invoice'[i].total = invoice[i].total
                      /\ invoice'[i].discount = invoice[i].discount
    BY <1>1, CommitRecord
  <2>1. Pending(p) /\ line'[i] = LinesAfter(p)
    BY <1>1, CommitRecord
  <2>2. Reckoned(p) /\ AllowedFrom(req[p]) /\ invoice'[i] = req[p].row
    BY <1>1, CommitWritesRow
  <2>3. req[p].was = invoice[i]
    BY <2>2 DEF Reckoned
  <2>4. req[p].operation \notin Creating
    BY <1>1, <2>1 DEF IInv, RequestsFormed, Creates
  <2>5. req[p].operation \in OnPayments \cup {"void_invoice"} /\ invoice[i].status # "void"
    BY <2>2, <2>3, <2>4 DEF AllowedFrom, Operations
  <2>6. req[p].operation \notin OnDrafts /\ LinesAfter(p) = line[i]
    BY <2>5 DEF LinesAfter, OnPayments, OnDrafts, OnLines, AddLine, Creating
  <2> QED
    BY <2>1, <2>2, <2>3, <2>4, <2>5, <2>6 DEF Reckoned
<1>2. ASSUME IInv, TypeOK, [Next]_vars, ~(\E p \in Request : Commit(p)) PROVE UNCHANGED <<invoice, line>>
  <2>1. CASE UNCHANGED vars
    BY <2>1 DEF vars, rows
  <2>2. ASSUME NEW p \in Request, Begin(p) PROVE UNCHANGED <<invoice, line>>
    BY <1>2, <2>2, BeginArrives DEF Arrives
  <2>3. ASSUME NEW p \in Request, Recalculate(p) \/ Issue(p) \/ Void(p) \/ RollBack(p)
        PROVE  UNCHANGED <<invoice, line>>
    BY <2>3 DEF Recalculate, Issue, Void, RollBack, Write, rows
  <2> QED
    BY <1>2, <2>1, <2>2, <2>3 DEF Next
<1>3. ASSUME IInv, TypeOK, Agreeing, [Next]_vars PROVE Kept
  BY <1>1, <1>2, <1>3
<1>4. IInv /\ TypeOK /\ Agreeing /\ [Next]_vars => [Kept]_vars
  BY <1>3
<1> QED
  BY <1>4, Invariant, TypeCorrect, AgreeingInvariant, PTL DEF Spec, IssuedTermsStay
=============================================================================
