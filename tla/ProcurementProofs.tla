------------------------- MODULE ProcurementProofs -------------------------
(***************************************************************************)
(* Proofs about Requisitions, SupplierAccounts, Documents, SupplierReturns *)
(* and GoodsReceipts, for any requisitions, orders, bills, documents,      *)
(* returns, receipts and any number of concurrent requests.                *)
(*                                                                         *)
(* A request that changes the status of a requisition holds its lock until *)
(* it commits, so one requisition is converted by one request; a match is  *)
(* only ever set by the comparison, which more deliveries do not undo;     *)
(* what a payment checked of the bills it has locked is so when it is      *)
(* posted; a verification that overlaps with no other writes all it has    *)
(* found; and a dispatch that overlaps with no other sends what is left.   *)
(***************************************************************************)
EXTENDS Requisitions, SupplierAccounts, SupplierReturns, Documents, GoodsReceipts, SumTheorems,
        SequenceTheorems

-----------------------------------------------------------------------------
(* Requisitions.                                                           *)

RequisitionFields == {"status", "shortage", "generated", "lines", "total"}
OrderFields       == {"status", "source", "lines", "total"}

Decided == {"submitted", "approved", "converted"}

OfPositions(lines) == lines = [x \in Position |-> lines[x]]

\* A requisition that was made costs what its lines do.
RequisitionSound(row) ==
    /\ OfPositions(row.lines)
    /\ row.status # "none" => row.total = LineTotal(row.lines)

\* The order a conversion is to make is nobody's, and the only one of the requisition.
OrderReserved(p) ==
    /\ drafting[p].order \in Order /\ order[drafting[p].order].status = "none"
    /\ \A q \in Request \ {p} : drafting[q].order # drafting[p].order
    /\ \A o \in Order : order[o].source # drafting[p].requisition

\* What a request is to make of a requisition: one that holds the lock finds the status it
\* loaded, another does not change it; and unless it was overtaken it is alone.
DraftFormed(p) ==
    LET w == drafting[p]
        r == drafting[p].requisition
    IN /\ r \in Requisition
       /\ w.from.status # "converted" /\ w.to.status # "none"
       /\ IF w.to.status = w.from.status THEN TRUE
          ELSE requisitionLock[r] = p /\ requisition[r].status = w.from.status
       /\ IF w.to.status = "converted" THEN w.from.status = "approved" /\ OrderReserved(p)
          ELSE w.order = None
       /\ r \notin overtaken =>
            /\ w.from = requisition[r] /\ RequisitionSound(w.to)
            /\ w.from.status \in Decided => w.to.lines = w.from.lines
            /\ \A q \in Request \ {p} : drafting[q].requisition # r

RequisitionsInv ==
    /\ DOMAIN requisition = Requisition
    /\ \A r \in Requisition :
         /\ DOMAIN requisition[r] = RequisitionFields
         /\ r \notin overtaken => RequisitionSound(requisition[r])
    /\ DOMAIN order = Order
    /\ \A o \in Order :
         DOMAIN order[o] = OrderFields /\ (order[o].status = "none" => order[o].source = None)
    /\ DOMAIN requisitionLock = Requisition
    /\ DOMAIN drafting = Request
    /\ \A p \in Request : IF drafting[p].requisition = None THEN drafting[p] = NoDraft ELSE DraftFormed(p)
    /\ ConvertedOnce

LEMMA RequisitionsInitially == RequisitionsInit => RequisitionsInv
<1> SUFFICES ASSUME RequisitionsInit PROVE RequisitionsInv OBVIOUS
<1>1. /\ RequisitionSound(NoRequisition) /\ NoRequisition.status = "none"
      /\ DOMAIN NoRequisition = RequisitionFields
      BY DEF RequisitionSound, OfPositions, NoRequisition, RequisitionFields, NoCosts
<1>2. NoOrder.source = None /\ DOMAIN NoOrder = OrderFields BY DEF NoOrder, OrderFields
<1>3. ConvertedOnce BY <1>1, <1>2, RequisitionsAssumption DEF RequisitionsInit, ConvertedOnce
<1> QED BY <1>1, <1>2, <1>3 DEF RequisitionsInit, RequisitionsInv, NoDraft

\* A request begins that is to make row of a requisition.
LEMMA DraftBegins ==
    ASSUME RequisitionsInv, NEW p \in Request, NEW r \in Requisition, NEW row, NEW o,
           Load(p, r, row, o),
           \/ requisitionLock[r] = None /\ requisitionLock' = [requisitionLock EXCEPT ![r] = p]
           \/ UNCHANGED requisitionLock /\ row.status = requisition[r].status,
           requisition[r].status # "converted", row.status # "none",
           IF row.status = "converted"
           THEN /\ requisition[r].status = "approved"
                /\ o \in Order /\ order[o].status = "none" /\ \A q \in Request : drafting[q].order # o
                /\ \A other \in Order : order[other].source # r
           ELSE o = None,
           r \notin overtaken => RequisitionSound(row),
           requisition[r].status \in Decided => row.lines = requisition[r].lines
    PROVE  RequisitionsInv' /\ UNCHANGED requisition
<1> DEFINE w == [requisition |-> r, from |-> requisition[r], to |-> row, order |-> o]
<1>1. /\ UNCHANGED <<requisition, order>>
      /\ drafting[p].requisition = None
      /\ drafting' = [drafting EXCEPT ![p] = w]
      /\ overtaken \subseteq overtaken'
      /\ r \notin overtaken' => \A q \in Request : drafting[q].requisition # r
      BY DEF Load
<1>2. /\ DOMAIN drafting' = Request /\ drafting'[p] = w
      /\ \A q \in Request \ {p} : drafting'[q] = drafting[q]
      BY <1>1 DEF RequisitionsInv
<1>3. w.requisition = r /\ w.from = requisition[r] /\ w.to = row /\ w.order = o OBVIOUS
<1>4. /\ DOMAIN requisitionLock' = Requisition
      /\ row.status = requisition[r].status \/ requisitionLock'[r] = p
      /\ \A s \in Requisition : requisitionLock[s] # None => requisitionLock'[s] = requisitionLock[s]
      BY DEF RequisitionsInv
<1> HIDE DEF w
<1>5. DraftFormed(p)'
  <2>1. row.status = "converted" => OrderReserved(p)'
        BY <1>1, <1>2, <1>3 DEF OrderReserved
  <2> QED BY <1>1, <1>2, <1>3, <1>4, <2>1 DEF DraftFormed
<1>6. ASSUME NEW q \in Request \ {p}, drafting[q].requisition # None PROVE DraftFormed(q)'
  <2>1. DraftFormed(q) BY <1>6 DEF RequisitionsInv
  <2>2. drafting[q].to.status = "converted" => OrderReserved(q)'
    <3>1. drafting[q].to.status = "converted" => OrderReserved(q) BY <2>1 DEF DraftFormed
    <3>2. drafting[q].to.status = "converted" => drafting[q].order # o
      <4>1. drafting[q].to.status = "converted" => drafting[q].order \in Order
            BY <3>1 DEF OrderReserved
      <4>2. o = None \/ drafting[q].order # o OBVIOUS
      <4> QED BY <4>1, <4>2, RequisitionsAssumption
    <3> QED BY <1>1, <1>2, <1>3, <3>1, <3>2 DEF OrderReserved
  <2>3. drafting'[q] = drafting[q] /\ drafting'[p].requisition = r BY <1>2, <1>3
  <2>4. drafting[q].requisition \notin overtaken' => drafting[q].requisition # r
        BY <1>1
  <2> QED BY <1>1, <1>2, <1>4, <2>1, <2>2, <2>3, <2>4, RequisitionsAssumption DEF DraftFormed
<1>7. ConvertedOnce' BY <1>1 DEF RequisitionsInv, ConvertedOnce
<1>8. r # None BY RequisitionsAssumption
<1> QED BY <1>1, <1>2, <1>3, <1>4, <1>5, <1>6, <1>7, <1>8 DEF RequisitionsInv

\* Operations that move a requisition on, or change a line of it.
LEMMA RequisitionMoves ==
    ASSUME RequisitionsInv, NEW p \in Request, NEW r \in Requisition, NEW from, NEW to,
           MoveRequisition(p, r, from, to), "none" \notin from, "converted" \notin from,
           to \notin {"none", "converted"}
    PROVE  RequisitionsInv' /\ UNCHANGED requisition
<1> DEFINE row == [requisition[r] EXCEPT !.status = to]
<1>1. LoadForUpdate(p, r, row, None) /\ requisition[r].status \in from BY DEF MoveRequisition
<1>2. DOMAIN requisition[r] = RequisitionFields BY DEF RequisitionsInv
<1>3. row.status = to /\ row.lines = requisition[r].lines /\ row.total = requisition[r].total
      BY <1>2 DEF RequisitionFields
<1>4. r \notin overtaken => RequisitionSound(row)
      BY <1>1, <1>3 DEF RequisitionsInv, RequisitionSound
<1> HIDE DEF row
<1> QED BY <1>1, <1>3, <1>4, DraftBegins DEF LoadForUpdate

LEMMA RequisitionLineSet ==
    ASSUME RequisitionsInv, NEW p \in Request, NEW r \in Requisition, NEW x, NEW cost,
           SetRequisitionLine(p, r, x, cost)
    PROVE  RequisitionsInv' /\ UNCHANGED requisition
<1> DEFINE lines == [requisition[r].lines EXCEPT ![x] = cost]
           row == [requisition[r] EXCEPT !.lines = lines, !.total = LineTotal(lines),
                                         !.generated = requisition[r].generated \cap Placed(lines)]
<1>1. LoadForUpdate(p, r, row, None) /\ requisition[r].status \in {"draft", "rejected"}
      BY DEF SetRequisitionLine, EditableStatuses
<1>2. DOMAIN requisition[r] = RequisitionFields BY DEF RequisitionsInv
<1>3. OfPositions(requisition[r].lines) => OfPositions(lines) BY DEF OfPositions
<1> HIDE DEF lines
<1>4. row.status = requisition[r].status /\ row.lines = lines /\ row.total = LineTotal(lines)
      BY <1>2 DEF RequisitionFields
<1>5. r \notin overtaken => RequisitionSound(row)
      BY <1>3, <1>4 DEF RequisitionsInv, RequisitionSound
<1> HIDE DEF row
<1> QED BY <1>1, <1>4, <1>5, DraftBegins DEF LoadForUpdate, Decided

LEMMA RequisitionMade ==
    ASSUME RequisitionsInv, NEW p \in Request, NEW r \in Requisition, NEW row,
           LoadForUpdate(p, r, row, None), requisition[r].status = "none",
           row.status = "draft", RequisitionSound(row)
    PROVE  RequisitionsInv' /\ UNCHANGED requisition
BY DraftBegins DEF LoadForUpdate, Decided

LEMMA NewRequisitionSound ==
    ASSUME NEW lines, OfPositions(lines), NEW shortage, NEW generated
    PROVE  LET row == [NewRequisition(lines) EXCEPT !.shortage = shortage, !.generated = generated]
           IN /\ row.status = "draft" /\ RequisitionSound(row)
              /\ NewRequisition(lines).status = "draft" /\ RequisitionSound(NewRequisition(lines))
BY DEF NewRequisition, NoRequisition, RequisitionSound

LEMMA OperationKeeps ==
    ASSUME RequisitionsInv, NEW p \in Request, NEW r \in Requisition, OperateOn(p, r)
    PROVE  RequisitionsInv' /\ UNCHANGED requisition
<1>1. ASSUME NEW lines, OfPositions(lines), CreateRequisition(p, r, lines)
      PROVE  RequisitionsInv' /\ UNCHANGED requisition
      BY <1>1, NewRequisitionSound, RequisitionMade DEF CreateRequisition
<1>2. ASSUME NEW n, NEW cost, CreateShortageRequest(p, r, n, cost)
      PROVE  RequisitionsInv' /\ UNCHANGED requisition
  <2> DEFINE made  == {x \in Position : x < n}
             lines == [x \in Position |-> IF x \in made THEN cost ELSE 0]
             row   == [NewRequisition(lines) EXCEPT !.shortage = TRUE, !.generated = made]
  <2>1. LoadForUpdate(p, r, row, None) /\ requisition[r].status = "none"
        BY <1>2 DEF CreateShortageRequest
  <2>2. OfPositions(lines) BY DEF OfPositions
  <2> HIDE DEF made, lines
  <2>3. row.status = "draft" /\ RequisitionSound(row) BY <2>2, NewRequisitionSound
  <2> HIDE DEF row
  <2> QED BY <2>1, <2>3, RequisitionMade
<1>3. ASSUME NEW n, NEW cost, SyncDraftShortageRequest(p, r, n, cost)
      PROVE  RequisitionsInv' /\ UNCHANGED requisition
  <2>1. PICK lines, made :
          /\ OfPositions(lines)
          /\ LoadUnlocked(p, r, [requisition[r] EXCEPT !.lines = lines, !.total = LineTotal(lines),
                                                       !.generated = made])
    <3> DEFINE row   == requisition[r]
               kept  == Placed(row.lines) \ row.generated
               made  == {x \in Position \ kept : Cardinality({y \in Position \ kept : y < x}) < n}
               lines == [x \in Position |-> IF x \in made THEN cost ELSE IF x \in kept THEN row.lines[x] ELSE 0]
    <3>1. LoadUnlocked(p, r, [row EXCEPT !.lines = lines, !.total = LineTotal(lines), !.generated = made])
          BY <1>3 DEF SyncDraftShortageRequest
    <3>2. OfPositions(lines) BY DEF OfPositions
    <3> HIDE DEF kept, made, lines
    <3> QED BY <3>1, <3>2
  <2> DEFINE row == [requisition[r] EXCEPT !.lines = lines, !.total = LineTotal(lines),
                                           !.generated = made]
  <2>2. requisition[r].status = "draft" BY <1>3 DEF SyncDraftShortageRequest
  <2>3. DOMAIN requisition[r] = RequisitionFields BY DEF RequisitionsInv
  <2>4. row.status = "draft" /\ row.lines = lines /\ row.total = LineTotal(lines)
        BY <2>2, <2>3 DEF RequisitionFields
  <2>5. RequisitionSound(row) BY <2>1, <2>4 DEF RequisitionSound
  <2>6. LoadUnlocked(p, r, row) BY <2>1
  <2> HIDE DEF row
  <2> QED BY <2>2, <2>4, <2>5, <2>6, DraftBegins DEF LoadUnlocked, Decided
<1>4. ASSUME NEW o \in Order, ConvertRequisition(p, r, o)
      PROVE  RequisitionsInv' /\ UNCHANGED requisition
  <2> DEFINE row == [requisition[r] EXCEPT !.status = "converted"]
  <2>1. /\ requisition[r].status = "approved" /\ order[o].status = "none"
        /\ \A other \in Order : order[other].source # r
        /\ \A q \in Request : drafting[q].order # o
        /\ LoadForUpdate(p, r, row, o)
        BY <1>4 DEF ConvertRequisition, Convertible
  <2>2. DOMAIN requisition[r] = RequisitionFields BY DEF RequisitionsInv
  <2>3. /\ row.status = "converted" /\ row.lines = requisition[r].lines
        /\ row.total = requisition[r].total
        BY <2>2 DEF RequisitionFields
  <2>4. r \notin overtaken => RequisitionSound(row)
        BY <2>1, <2>3 DEF RequisitionsInv, RequisitionSound
  <2> HIDE DEF row
  <2> QED BY <2>1, <2>3, <2>4, DraftBegins DEF LoadForUpdate
<1>5. ASSUME NEW x, NEW cost,
             \/ AddRequisitionLine(p, r, x, cost)
             \/ UpdateRequisitionLine(p, r, x, cost) \/ DeleteRequisitionLine(p, r, x)
      PROVE  RequisitionsInv' /\ UNCHANGED requisition
      BY <1>5, RequisitionLineSet
         DEF AddRequisitionLine, UpdateRequisitionLine, DeleteRequisitionLine
<1>6. CASE \/ UpdateRequisition(p, r) \/ SubmitRequisition(p, r) \/ ApproveRequisition(p, r)
           \/ RejectRequisition(p, r) \/ CancelRequisition(p, r)
  <2>1. \E from, to :
          /\ MoveRequisition(p, r, from, to) /\ "none" \notin from /\ "converted" \notin from
          /\ to \notin {"none", "converted"}
        BY <1>6 DEF UpdateRequisition, SubmitRequisition, ApproveRequisition, RejectRequisition,
              CancelRequisition, EditableStatuses, CancellableStatuses
  <2> QED BY <2>1, RequisitionMoves
<1>7. OfPositions(NoCosts) /\ \A x, c : OfPositions([NoCosts EXCEPT ![x] = c])
      BY DEF NoCosts, OfPositions
<1> QED BY <1>1, <1>2, <1>3, <1>4, <1>5, <1>6, <1>7 DEF OperateOn

\* What another request is to make stays in order when p ends.
LEMMA OthersDraft ==
    ASSUME RequisitionsInv, NEW p \in Request, NEW X, EndDraft(p, X), drafting[p].requisition # None,
           requisitionLock[drafting[p].requisition] \in {p, None} \/ UNCHANGED requisition,
           \A s \in Requisition : s # drafting[p].requisition => requisition'[s] = requisition[s],
           UNCHANGED overtaken,
           \/ UNCHANGED order
           \/ /\ drafting[p].to.status = "converted"
              /\ \A o \in Order : o # drafting[p].order => order'[o] = order[o]
              /\ order'[drafting[p].order].source = drafting[p].requisition
    PROVE  /\ DOMAIN requisitionLock' = Requisition /\ DOMAIN drafting' = Request
           /\ \A q \in Request :
                IF drafting'[q].requisition = None THEN drafting'[q] = NoDraft ELSE DraftFormed(q)'
<1> DEFINE r == drafting[p].requisition
<1>1. /\ DOMAIN drafting' = Request /\ drafting'[p] = NoDraft
      /\ \A q \in Request : drafting'[q] = NoDraft \/ drafting'[q] = drafting[q]
      BY DEF EndDraft, RequisitionsInv
<1>2. /\ DOMAIN requisitionLock' = Requisition
      /\ \A s \in Requisition : requisitionLock[s] # p => requisitionLock'[s] = requisitionLock[s]
      BY DEF EndDraft
<1>3. NoDraft.requisition = None /\ NoDraft.order = None BY DEF NoDraft
<1>4. DraftFormed(p) /\ r \in Requisition BY DEF RequisitionsInv, DraftFormed
<1>5. ASSUME NEW q \in Request, drafting'[q].requisition # None PROVE DraftFormed(q)'
  <2>1. drafting'[q] = drafting[q] /\ q # p BY <1>1, <1>3, <1>5
  <2>2. DraftFormed(q) BY <1>5, <2>1 DEF RequisitionsInv
  <2> DEFINE w == drafting[q]
             s == drafting[q].requisition
  <2>3. s \in Requisition BY <2>2 DEF DraftFormed
  <2>4. w.to.status # w.from.status =>
          /\ requisitionLock[s] = q /\ requisitionLock'[s] = q
          /\ requisition'[s] = requisition[s]
    <3>1. w.to.status # w.from.status => requisitionLock[s] = q BY <2>2 DEF DraftFormed
    <3> QED BY <1>2, <2>1, <2>3, <3>1, RequisitionsAssumption
  <2>5. w.to.status = "converted" => w.to.status # w.from.status BY <2>2 DEF DraftFormed
  <2>6. ASSUME w.to.status = "converted" PROVE OrderReserved(q)'
    <3>1. OrderReserved(q) BY <2>2, <2>6 DEF DraftFormed
    <3>2. \A t \in Request \ {q} : drafting'[t].order # w.order
          BY <1>1, <1>3, <3>1, RequisitionsAssumption DEF OrderReserved
    <3>3. drafting[p].to.status = "converted" => s # r
      <4>1. drafting[p].to.status = "converted" => requisitionLock[r] = p
            BY <1>4 DEF DraftFormed
      <4>2. requisitionLock[s] = q BY <2>4, <2>5, <2>6
      <4> QED BY <2>1, <4>1, <4>2
    <3>4. drafting[p].to.status = "converted" => w.order # drafting[p].order /\ drafting[p].order \in Order
          BY <1>4, <2>1, <3>1 DEF DraftFormed, OrderReserved
    <3>5. order'[w.order] = order[w.order] /\ \A o \in Order : order'[o].source # s
          BY <3>1, <3>3, <3>4 DEF OrderReserved
    <3> QED BY <2>1, <3>1, <3>2, <3>5 DEF OrderReserved
  <2>7. s \notin overtaken => requisition'[s] = requisition[s]
    <3>1. s \notin overtaken => r # s BY <2>1, <2>2 DEF DraftFormed
    <3> QED BY <2>3, <3>1
  <2>8. s \notin overtaken => \A t \in Request \ {q} : drafting'[t].requisition # s
        BY <1>1, <1>3, <2>2, <2>3, RequisitionsAssumption DEF DraftFormed
  <2> QED BY <2>1, <2>2, <2>4, <2>6, <2>7, <2>8 DEF DraftFormed
<1>6. ASSUME NEW q \in Request, drafting'[q].requisition = None PROVE drafting'[q] = NoDraft
      BY <1>1, <1>6 DEF RequisitionsInv
<1> QED BY <1>1, <1>2, <1>5, <1>6

\* What a commit writes over the row that a lone request loaded is the row it was to make.
LEMMA MergedAlone ==
    ASSUME NEW w, OfPositions(w.to.lines)
    PROVE  /\ Merged(w, w.from).lines = w.to.lines
           /\ Merged(w, w.from).total = w.to.total
           /\ Merged(w, w.from).status = w.to.status
<1> DEFINE now == w.from
           lines == [x \in Position |->
                       IF x \in Inserted(w) THEN w.to.lines[x]
                       ELSE IF x \in w.from.generated \ now.generated THEN now.lines[x]
                       ELSE Newer(w.from.lines[x], w.to.lines[x], now.lines[x])]
<1>1. lines = [x \in Position |-> w.to.lines[x]] BY DEF Newer
<1>2. Merged(w, now).lines = lines BY DEF Merged
<1>3. lines = w.to.lines BY <1>1 DEF OfPositions
<1>4. Merged(w, now).total = w.to.total /\ Merged(w, now).status = w.to.status BY DEF Merged, Newer
<1> HIDE DEF now, lines
<1> QED BY <1>2, <1>3, <1>4 DEF now

LEMMA MergedFields ==
    ASSUME NEW w, NEW now
    PROVE  /\ DOMAIN Merged(w, now) = RequisitionFields
           /\ Merged(w, now).status = Newer(w.from.status, w.to.status, now.status)
BY DEF Merged, RequisitionFields

LEMMA RequisitionCommits ==
    ASSUME RequisitionsInv, NEW p \in Request, CommitRequisition(p)
    PROVE  /\ RequisitionsInv'
           /\ \A r \in Requisition :
                /\ requisition'[r].status = "converted" => requisition[r].status \in {"approved", "converted"}
                /\ r \notin overtaken' /\ requisition[r].status \in Decided =>
                     /\ requisition'[r].lines = requisition[r].lines
                     /\ requisition'[r].total = LineTotal(requisition'[r].lines)
<1> DEFINE w == drafting[p]
           r == drafting[p].requisition
           now == requisition[r]
<1>1. /\ r # None /\ requisitionLock[r] \in {p, None}
      /\ requisition' = [requisition EXCEPT ![r] = Merged(w, now)]
      /\ order' = IF w.order = None THEN order
                  ELSE [order EXCEPT ![w.order] = [status |-> "draft", source |-> r, lines |-> w.to.lines,
                                                   total |-> LineTotal(w.to.lines)]]
      /\ EndDraft(p, Inserted(w)) /\ UNCHANGED overtaken
      BY DEF CommitRequisition
<1>2. DraftFormed(p) /\ r \in Requisition BY <1>1 DEF RequisitionsInv, DraftFormed
<1>3. /\ DOMAIN requisition' = Requisition /\ requisition'[r] = Merged(w, now)
      /\ \A s \in Requisition \ {r} : requisition'[s] = requisition[s]
      BY <1>1, <1>2 DEF RequisitionsInv
<1>4. /\ DOMAIN requisition'[r] = RequisitionFields
      /\ requisition'[r].status = Newer(w.from.status, w.to.status, now.status)
  <2>1. /\ DOMAIN Merged(w, now) = RequisitionFields
        /\ Merged(w, now).status = Newer(w.from.status, w.to.status, now.status)
        BY MergedFields
  <2> QED BY <1>3, <2>1
<1>5. requisition'[r].status = IF w.to.status = w.from.status THEN now.status ELSE w.to.status
      BY <1>4 DEF Newer
<1>6. r \notin overtaken =>
        /\ RequisitionSound(requisition'[r]) /\ requisition'[r].status # "none"
        /\ now.status \in Decided => requisition'[r].lines = now.lines
  <2>1. SUFFICES ASSUME r \notin overtaken
                 PROVE  /\ RequisitionSound(requisition'[r]) /\ requisition'[r].status # "none"
                        /\ now.status \in Decided => requisition'[r].lines = now.lines
        OBVIOUS
  <2>2. /\ w.from = now /\ RequisitionSound(w.to) /\ w.to.status # "none"
        /\ w.from.status \in Decided => w.to.lines = w.from.lines
        BY <1>2, <2>1 DEF DraftFormed
  <2>3. OfPositions(w.to.lines) BY <2>2 DEF RequisitionSound
  <2>4. /\ requisition'[r].lines = w.to.lines /\ requisition'[r].total = w.to.total
        /\ requisition'[r].status = w.to.status
        BY <1>3, <2>2, <2>3, MergedAlone
  <2> QED BY <2>2, <2>4 DEF RequisitionSound
<1>7. w.to.status = "converted" =>
        /\ w.order \in Order /\ OrderReserved(p) /\ w.from.status = "approved"
        /\ now.status = "approved"
      BY <1>2 DEF DraftFormed, OrderReserved
<1>8. w.to.status # "converted" => w.order = None BY <1>2 DEF DraftFormed
<1> HIDE DEF now
<1>9. /\ DOMAIN order' = Order
      /\ \A o \in Order : o # w.order => order'[o] = order[o]
      /\ w.to.status = "converted" =>
           /\ order'[w.order].source = r /\ order'[w.order].status = "draft"
           /\ DOMAIN order'[w.order] = OrderFields
      /\ w.to.status # "converted" => order' = order
  <2>1. CASE w.to.status # "converted" BY <1>1, <1>8, <2>1 DEF RequisitionsInv
  <2>2. CASE w.to.status = "converted"
        BY <1>1, <1>7, <2>2, RequisitionsAssumption DEF RequisitionsInv, OrderFields
  <2> QED BY <2>1, <2>2
<1>10. /\ DOMAIN requisitionLock' = Requisition /\ DOMAIN drafting' = Request
       /\ \A q \in Request :
            IF drafting'[q].requisition = None THEN drafting'[q] = NoDraft ELSE DraftFormed(q)'
       BY <1>1, <1>3, <1>9, OthersDraft
<1>11. ConvertedOnce'
  <2>1. ASSUME NEW s \in Requisition, s # r
        PROVE  IF requisition'[s].status = "converted"
               THEN \E o \in Order : \A q \in Order : order'[q].source = s <=> q = o
               ELSE \A o \in Order : order'[o].source # s
    <3>1. \A o \in Order : order'[o].source = s <=> order[o].source = s
      <4>1. w.to.status = "converted" => order[w.order].source # s
            BY <1>7, RequisitionsAssumption DEF OrderReserved, RequisitionsInv
      <4> QED BY <1>9, <2>1, <4>1
    <3> QED BY <1>3, <2>1, <3>1 DEF RequisitionsInv, ConvertedOnce
  <2>2. IF requisition'[r].status = "converted"
        THEN \E o \in Order : \A q \in Order : order'[q].source = r <=> q = o
        ELSE \A o \in Order : order'[o].source # r
    <3>1. CASE w.to.status = "converted"
      <4>1. requisition'[r].status = "converted" BY <1>5, <1>7, <3>1
      <4>2. \A q \in Order : order'[q].source = r <=> q = w.order
            BY <1>7, <1>9, <3>1 DEF OrderReserved
      <4> QED BY <1>7, <3>1, <4>1, <4>2
    <3>2. CASE w.to.status # "converted"
      <4>1. order' = order BY <1>9, <3>2
      <4>2. w.to.status # w.from.status => requisition[r].status = w.from.status /\ w.from.status # "converted"
            BY <1>2 DEF DraftFormed
      <4>3. requisition'[r].status = "converted" <=> requisition[r].status = "converted"
            BY <1>5, <3>2, <4>2 DEF now
      <4> QED BY <1>2, <4>1, <4>3 DEF RequisitionsInv, ConvertedOnce
    <3> QED BY <3>1, <3>2
  <2> QED BY <2>1, <2>2 DEF ConvertedOnce
<1>12. \A s \in Requisition :
         /\ DOMAIN requisition'[s] = RequisitionFields
         /\ s \notin overtaken' => RequisitionSound(requisition'[s])
       BY <1>1, <1>3, <1>4, <1>6 DEF RequisitionsInv
<1>13. \A o \in Order :
         DOMAIN order'[o] = OrderFields /\ (order'[o].status = "none" => order'[o].source = None)
       BY <1>7, <1>8, <1>9 DEF RequisitionsInv
<1>14. ASSUME NEW s \in Requisition
       PROVE  /\ requisition'[s].status = "converted" => requisition[s].status \in {"approved", "converted"}
              /\ s \notin overtaken' /\ requisition[s].status \in Decided =>
                   /\ requisition'[s].lines = requisition[s].lines
                   /\ requisition'[s].total = LineTotal(requisition'[s].lines)
  <2>1. CASE s # r BY <1>1, <1>3, <2>1 DEF RequisitionsInv, RequisitionSound, Decided
  <2>2. CASE s = r BY <1>1, <1>5, <1>6, <1>7, <2>2 DEF now, RequisitionSound
  <2> QED BY <2>1, <2>2
<1> QED BY <1>3, <1>9, <1>10, <1>11, <1>12, <1>13, <1>14 DEF RequisitionsInv

\* An order's own operations leave it where it came from.
LEMMA OrderSet ==
    ASSUME RequisitionsInv, NEW o \in Order, NEW row, SetOrderRow(o, row),
           DOMAIN row = OrderFields, row.status # "none", row.source = order[o].source
    PROVE  RequisitionsInv' /\ UNCHANGED requisition
<1>1. /\ UNCHANGED <<requisition, requisitionLock, drafting, overtaken>>
      /\ order' = [order EXCEPT ![o] = row]
      /\ \A q \in Request : drafting[q].order # o
      BY DEF SetOrderRow
<1>2. /\ DOMAIN order' = Order /\ order'[o] = row
      /\ \A other \in Order \ {o} : order'[other] = order[other]
      BY <1>1 DEF RequisitionsInv
<1>3. \A other \in Order : order'[other].source = order[other].source BY <1>2
<1>4. ASSUME NEW q \in Request, drafting[q].requisition # None PROVE DraftFormed(q)'
  <2>1. DraftFormed(q) BY <1>4 DEF RequisitionsInv
  <2>2. OrderReserved(q) => OrderReserved(q)' BY <1>1, <1>2, <1>3 DEF OrderReserved
  <2> QED BY <1>1, <2>1, <2>2 DEF DraftFormed
<1>5. ConvertedOnce' BY <1>1, <1>3 DEF RequisitionsInv, ConvertedOnce
<1> QED BY <1>1, <1>2, <1>4, <1>5 DEF RequisitionsInv

LEMMA OrderStepKeeps ==
    ASSUME RequisitionsInv, NEW o \in Order, OrderStep(o)
    PROVE  RequisitionsInv' /\ UNCHANGED requisition
<1> DEFINE was == order[o]
<1>1. DOMAIN was = OrderFields /\ (was.status = "none" => was.source = None) BY DEF RequisitionsInv
<1>2. ASSUME NEW lines, CreateOrder(o, lines) PROVE RequisitionsInv' /\ UNCHANGED requisition
  <2> DEFINE row == [NoOrder EXCEPT !.status = "draft", !.lines = lines, !.total = LineTotal(lines)]
  <2>1. SetOrderRow(o, row) /\ was.status = "none" BY <1>2 DEF CreateOrder
  <2>2. DOMAIN row = OrderFields /\ row.status = "draft" /\ row.source = None
        BY DEF NoOrder, OrderFields
  <2> HIDE DEF row
  <2> QED BY <1>1, <2>1, <2>2, OrderSet
<1>3. ASSUME NEW x, NEW cost, SetOrderLine(o, x, cost) PROVE RequisitionsInv' /\ UNCHANGED requisition
  <2>1. PICK lines : SetOrderRow(o, [was EXCEPT !.lines = lines, !.total = LineTotal(lines)])
        BY <1>3 DEF SetOrderLine
  <2> DEFINE row == [was EXCEPT !.lines = lines, !.total = LineTotal(lines)]
  <2>2. was.status = "draft" BY <1>3 DEF SetOrderLine
  <2>3. DOMAIN row = OrderFields /\ row.status = was.status /\ row.source = was.source
        BY <1>1 DEF OrderFields
  <2>4. SetOrderRow(o, row) BY <2>1
  <2> HIDE DEF row
  <2> QED BY <2>2, <2>3, <2>4, OrderSet
<1>4. ASSUME NEW to \in {"issued", "cancelled"}, SetOrderRow(o, [was EXCEPT !.status = to])
      PROVE  RequisitionsInv' /\ UNCHANGED requisition
  <2> DEFINE row == [was EXCEPT !.status = to]
  <2>1. DOMAIN row = OrderFields /\ row.status = to /\ row.source = was.source
        BY <1>1 DEF OrderFields
  <2> HIDE DEF row
  <2> QED BY <1>4, <2>1, OrderSet DEF row
<1> QED BY <1>2, <1>3, <1>4
        DEF OrderStep, AddOrderLine, UpdateOrderLine, DeleteOrderLine, IssueOrderRow, CancelOrderRow

LEMMA RequisitionsStep ==
    ASSUME RequisitionsInv, [RequisitionsNext]_requisitionsVars
    PROVE  /\ RequisitionsInv'
           /\ \A r \in Requisition :
                /\ requisition'[r].status = "converted" => requisition[r].status \in {"approved", "converted"}
                /\ r \notin overtaken' /\ requisition[r].status \in Decided =>
                     /\ requisition'[r].lines = requisition[r].lines
                     /\ requisition'[r].total = LineTotal(requisition'[r].lines)
<1>1. ASSUME overtaken \subseteq overtaken', UNCHANGED requisition, NEW r \in Requisition
      PROVE  /\ requisition'[r].status = "converted" => requisition[r].status \in {"approved", "converted"}
             /\ r \notin overtaken' /\ requisition[r].status \in Decided =>
                  /\ requisition'[r].lines = requisition[r].lines
                  /\ requisition'[r].total = LineTotal(requisition'[r].lines)
      BY <1>1 DEF RequisitionsInv, RequisitionSound, Decided
<1>2. CASE UNCHANGED requisitionsVars
  <2>1. UNCHANGED <<requisition, order, requisitionLock, drafting, overtaken>>
        BY <1>2 DEF requisitionsVars
  <2>2. ASSUME NEW q \in Request, drafting[q].requisition # None PROVE DraftFormed(q)'
    <3>1. DraftFormed(q) BY <2>2 DEF RequisitionsInv
    <3> QED BY <2>1, <3>1 DEF DraftFormed, OrderReserved
  <2>3. RequisitionsInv' BY <2>1, <2>2 DEF RequisitionsInv, ConvertedOnce
  <2> QED BY <1>1, <2>1, <2>3
<1>3. ASSUME NEW p \in Request, NEW r \in Requisition, OperateOn(p, r)
      PROVE  RequisitionsInv' /\ UNCHANGED requisition /\ overtaken \subseteq overtaken'
  <2>1. overtaken \subseteq overtaken'
        BY <1>3 DEF OperateOn, CreateRequisition, AddRequisitionLine, UpdateRequisitionLine,
              DeleteRequisitionLine, SetRequisitionLine, CreateShortageRequest,
              SyncDraftShortageRequest, UpdateRequisition, SubmitRequisition, ApproveRequisition,
              RejectRequisition, CancelRequisition, ConvertRequisition, MoveRequisition,
              LoadForUpdate, LoadUnlocked, Load
  <2> QED BY <1>3, <2>1, OperationKeeps
<1>4. ASSUME NEW p \in Request, AbandonRequisition(p)
      PROVE  RequisitionsInv' /\ UNCHANGED <<requisition, overtaken>>
  <2>1. /\ UNCHANGED <<requisition, order, overtaken>> /\ EndDraft(p, {})
        /\ drafting[p].requisition # None
        BY <1>4 DEF AbandonRequisition
  <2>2. /\ DOMAIN requisitionLock' = Requisition /\ DOMAIN drafting' = Request
        /\ \A q \in Request :
             IF drafting'[q].requisition = None THEN drafting'[q] = NoDraft ELSE DraftFormed(q)'
        BY <2>1, OthersDraft
  <2> QED BY <2>1, <2>2 DEF RequisitionsInv, ConvertedOnce
<1>5. ASSUME NEW o \in Order, OrderStep(o)
      PROVE  RequisitionsInv' /\ UNCHANGED <<requisition, overtaken>>
  <2>1. UNCHANGED overtaken
        BY <1>5 DEF OrderStep, CreateOrder, AddOrderLine, UpdateOrderLine, DeleteOrderLine,
              SetOrderLine, IssueOrderRow, CancelOrderRow, SetOrderRow
  <2> QED BY <1>5, <2>1, OrderStepKeeps
<1> QED BY <1>1, <1>2, <1>3, <1>4, <1>5, RequisitionCommits DEF RequisitionsNext

\* For any requisitions, orders, lines and concurrent requests: a requisition is converted
\* once, into one order that stays its only one.
THEOREM RequisitionsConvertOnce == RequisitionsSpec => []ConvertedOnce
<1>1. RequisitionsInv => ConvertedOnce BY DEF RequisitionsInv
<1>2. RequisitionsInv /\ [RequisitionsNext]_requisitionsVars => RequisitionsInv' BY RequisitionsStep
<1> QED BY <1>1, <1>2, RequisitionsInitially, PTL DEF RequisitionsSpec

\* For any of them too: what is approved is what was submitted, and what is converted is what
\* was approved, unless a request for missing materials crossed another operation.
THEOREM RequisitionTermsStay == RequisitionsSpec => SubmittedTermsStay
<1>1. ASSUME RequisitionsInv, [RequisitionsNext]_requisitionsVars
      PROVE  [\A r \in Requisition \ overtaken' :
                /\ requisition[r].status \in {"submitted", "approved", "converted"} =>
                     /\ requisition'[r].lines = requisition[r].lines
                     /\ requisition'[r].total = LineTotal(requisition'[r].lines)
                /\ requisition'[r].status = "converted" => requisition[r].status \in {"approved", "converted"}
             ]_requisitionsVars
      BY <1>1, RequisitionsStep DEF Decided
<1>2. RequisitionsInv /\ [RequisitionsNext]_requisitionsVars => RequisitionsInv' BY RequisitionsStep
<1> QED BY <1>1, <1>2, RequisitionsInitially, PTL DEF RequisitionsSpec, SubmittedTermsStay

\* The total of lines is a number, and they have the positions they are placed at.
LEMMA LinesTotalled ==
    ASSUME NEW lines \in Costs
    PROVE  LineTotal(lines) \in Nat /\ Placed(lines) \subseteq Position
<1>1. IsFiniteSet(Position) BY RequisitionsAssumption
<1>2. \A x \in Position : lines[x] \in Nat BY DEF Costs
<1>3. LineTotal(lines) \in Nat BY <1>1, <1>2, SumNat DEF LineTotal
<1> QED BY <1>3 DEF Placed

LEMMA CostsKnown ==
    /\ NoCosts \in Costs
    /\ \A lines \in Costs, x \in Position, c \in Nat : [lines EXCEPT ![x] = c] \in Costs
    /\ 0 \in Nat /\ 1 .. MaxCost \subseteq Nat
BY RequisitionsAssumption DEF NoCosts, Costs

LEMMA NoRowsTyped ==
    NoRequisition \in RequisitionRows /\ NoOrder \in OrderRows /\ NoDraft \in Drafts
<1>1. NoRequisition \in RequisitionRows BY CostsKnown DEF NoRequisition, RequisitionRows
<1>2. NoOrder \in OrderRows BY CostsKnown DEF NoOrder, OrderRows
<1> QED BY <1>1, <1>2 DEF NoDraft, Drafts

\* An operation that loads the requisition and is to write a row of its type keeps the types.
LEMMA RequisitionLoadedTyped ==
    ASSUME RequisitionsTypeOK, NEW p \in Request, NEW r \in Requisition, NEW row \in RequisitionRows,
           NEW o \in Order \cup {None}, LoadForUpdate(p, r, row, o) \/ LoadUnlocked(p, r, row)
    PROVE  RequisitionsTypeOK'
<1>1. PICK q \in Order \cup {None} : Load(p, r, row, q)
      BY DEF LoadForUpdate, LoadUnlocked
<1>2. requisition[r] \in RequisitionRows BY DEF RequisitionsTypeOK
<1>3. [requisition |-> r, from |-> requisition[r], to |-> row, order |-> q] \in Drafts
      BY <1>2 DEF Drafts
<1>4. drafting' \in [Request -> Drafts] BY <1>1, <1>3 DEF RequisitionsTypeOK, Load
<1>5. overtaken' \subseteq Requisition BY <1>1 DEF RequisitionsTypeOK, Load
<1>6. requisitionLock' \in [Requisition -> Request \cup {None}]
      BY DEF RequisitionsTypeOK, LoadForUpdate, LoadUnlocked
<1> QED BY <1>1, <1>4, <1>5, <1>6 DEF RequisitionsTypeOK, Load

LEMMA RequisitionMovedTyped ==
    ASSUME RequisitionsTypeOK, NEW p \in Request, NEW r \in Requisition, NEW from,
           NEW to \in {"draft", "submitted", "approved", "rejected", "cancelled"},
           MoveRequisition(p, r, from, to)
    PROVE  RequisitionsTypeOK'
<1> DEFINE row == [requisition[r] EXCEPT !.status = to]
<1>1. requisition[r] \in RequisitionRows BY DEF RequisitionsTypeOK
<1>2. row \in RequisitionRows BY <1>1 DEF RequisitionRows
<1>3. LoadForUpdate(p, r, row, None) BY DEF MoveRequisition
<1> HIDE DEF row
<1> QED BY <1>2, <1>3, RequisitionLoadedTyped

LEMMA NewRequisitionTyped ==
    ASSUME NEW lines \in Costs
    PROVE  NewRequisition(lines) \in RequisitionRows
BY NoRowsTyped, LinesTotalled DEF NewRequisition, RequisitionRows

LEMMA RequisitionLineTyped ==
    ASSUME RequisitionsTypeOK, NEW p \in Request, NEW r \in Requisition, NEW x, NEW cost \in Nat,
           SetRequisitionLine(p, r, x, cost)
    PROVE  RequisitionsTypeOK'
<1> DEFINE lines == [requisition[r].lines EXCEPT ![x] = cost]
           row == [requisition[r] EXCEPT !.lines = lines, !.total = LineTotal(lines),
                                         !.generated = @ \cap Placed(lines)]
<1>1. requisition[r] \in RequisitionRows BY DEF RequisitionsTypeOK
<1>2. x \in Position BY DEF SetRequisitionLine
<1>3. requisition[r].lines \in Costs BY <1>1 DEF RequisitionRows
<1>4. lines \in Costs BY <1>2, <1>3, CostsKnown
<1>5. LoadForUpdate(p, r, row, None) BY DEF SetRequisitionLine
<1> HIDE DEF lines
<1>6. row \in RequisitionRows BY <1>1, <1>4, LinesTotalled DEF RequisitionRows
<1> HIDE DEF row
<1> QED BY <1>5, <1>6, RequisitionLoadedTyped

\* Every operation on a requisition does.
LEMMA RequisitionOperationTyped ==
    ASSUME RequisitionsTypeOK, NEW p \in Request, NEW r \in Requisition, OperateOn(p, r)
    PROVE  RequisitionsTypeOK'
<1>0. requisition[r] \in RequisitionRows BY DEF RequisitionsTypeOK
<1>1. ASSUME NEW lines \in Costs, CreateRequisition(p, r, lines) PROVE RequisitionsTypeOK'
      BY <1>1, NewRequisitionTyped, RequisitionLoadedTyped DEF CreateRequisition
<1>2. ASSUME NEW x \in Position, NEW c \in 1 .. MaxCost, UpdateRequisitionLine(p, r, x, c)
      PROVE  RequisitionsTypeOK'
      BY <1>2, CostsKnown, RequisitionLineTyped DEF UpdateRequisitionLine
<1>3. ASSUME NEW x, NEW c \in 1 .. MaxCost, AddRequisitionLine(p, r, x, c)
      PROVE  RequisitionsTypeOK'
  <2>1. \E at : SetRequisitionLine(p, r, at, c) BY <1>3 DEF AddRequisitionLine
  <2> QED BY <2>1, CostsKnown, RequisitionLineTyped
<1>4. ASSUME NEW x \in Position, DeleteRequisitionLine(p, r, x) PROVE RequisitionsTypeOK'
      BY <1>4, CostsKnown, RequisitionLineTyped DEF DeleteRequisitionLine
<1>5. ASSUME NEW n, NEW c \in 1 .. MaxCost, CreateShortageRequest(p, r, n, c)
      PROVE  RequisitionsTypeOK'
  <2> DEFINE made  == {x \in Position : x < n}
             lines == [x \in Position |-> IF x \in made THEN c ELSE 0]
             row   == [NewRequisition(lines) EXCEPT !.shortage = TRUE, !.generated = made]
  <2>1. lines \in Costs BY CostsKnown DEF Costs
  <2>2. LoadForUpdate(p, r, row, None) BY <1>5 DEF CreateShortageRequest
  <2>3. made \subseteq Position OBVIOUS
  <2> HIDE DEF lines, made
  <2>4. NewRequisition(lines) \in RequisitionRows BY <2>1, NewRequisitionTyped
  <2> DEFINE bare == NewRequisition(lines)
  <2> HIDE DEF bare
  <2>5. [bare EXCEPT !.shortage = TRUE, !.generated = made] \in RequisitionRows
        BY <2>3, <2>4 DEF RequisitionRows, bare
  <2>6. row \in RequisitionRows BY <2>5 DEF bare
  <2> HIDE DEF row
  <2> QED BY <2>2, <2>6, RequisitionLoadedTyped
<1>6. ASSUME NEW n, NEW c \in 1 .. MaxCost, SyncDraftShortageRequest(p, r, n, c)
      PROVE  RequisitionsTypeOK'
  <2> DEFINE was   == requisition[r]
             kept  == Placed(was.lines) \ was.generated
             made  == {x \in Position \ kept : Cardinality({y \in Position \ kept : y < x}) < n}
             lines == [x \in Position |-> IF x \in made THEN c ELSE IF x \in kept THEN was.lines[x] ELSE 0]
             row   == [was EXCEPT !.lines = lines, !.total = LineTotal(lines), !.generated = made]
  <2>1. was.lines \in [Position -> Nat] BY <1>0 DEF RequisitionRows, Costs
  <2>2. LoadUnlocked(p, r, row) BY <1>6 DEF SyncDraftShortageRequest
  <2>3. made \subseteq Position OBVIOUS
  <2> HIDE DEF kept, made
  <2>4. lines \in Costs BY <2>1, CostsKnown DEF Costs
  <2> HIDE DEF lines
  <2>5. row \in RequisitionRows BY <1>0, <2>3, <2>4, LinesTotalled DEF RequisitionRows
  <2> HIDE DEF row
  <2> QED BY <2>2, <2>5, RequisitionLoadedTyped
<1>7. CASE \/ UpdateRequisition(p, r) \/ SubmitRequisition(p, r) \/ ApproveRequisition(p, r)
           \/ RejectRequisition(p, r) \/ CancelRequisition(p, r)
  <2>1. \E from, to : /\ to \in {"draft", "submitted", "approved", "rejected", "cancelled"}
                      /\ MoveRequisition(p, r, from, to)
        BY <1>7 DEF UpdateRequisition, SubmitRequisition, ApproveRequisition, RejectRequisition,
                    CancelRequisition, EditableStatuses
  <2> QED BY <2>1, RequisitionMovedTyped
<1>8. ASSUME NEW o \in Order, ConvertRequisition(p, r, o) PROVE RequisitionsTypeOK'
  <2> DEFINE row == [requisition[r] EXCEPT !.status = "converted"]
  <2>1. row \in RequisitionRows BY <1>0 DEF RequisitionRows
  <2>2. LoadForUpdate(p, r, row, o) BY <1>8 DEF ConvertRequisition
  <2> HIDE DEF row
  <2> QED BY <2>1, <2>2, RequisitionLoadedTyped
<1>9. ASSUME NEW c \in 1 .. MaxCost,
             \/ \E x \in Position : UpdateRequisitionLine(p, r, x, c)
             \/ \E x \in Position : CreateRequisition(p, r, [NoCosts EXCEPT ![x] = c])
             \/ \E x \in Position \cup {None} : AddRequisitionLine(p, r, x, c)
             \/ \E n \in 1 .. Cardinality(Position) :
                  CreateShortageRequest(p, r, n, c) \/ SyncDraftShortageRequest(p, r, n, c)
      PROVE  RequisitionsTypeOK'
  <2>1. \A x \in Position : [NoCosts EXCEPT ![x] = c] \in Costs BY CostsKnown
  <2> QED BY <1>9, <2>1, <1>1, <1>2, <1>3, <1>5, <1>6
<1>10. CASE CreateRequisition(p, r, NoCosts) BY <1>10, <1>1, CostsKnown
<1> QED BY <1>4, <1>7, <1>8, <1>9, <1>10 DEF OperateOn

\* What a commit makes of a row is a row, whatever it has become meanwhile.
LEMMA MergedTyped ==
    ASSUME NEW w \in Drafts, NEW now \in RequisitionRows
    PROVE  Merged(w, now) \in RequisitionRows
<1> DEFINE lines == [x \in Position |->
                    IF x \in Inserted(w) THEN w.to.lines[x]
                    ELSE IF x \in w.from.generated \ now.generated THEN now.lines[x]
                    ELSE Newer(w.from.lines[x], w.to.lines[x], now.lines[x])]
<1>1. w.from \in RequisitionRows /\ w.to \in RequisitionRows BY DEF Drafts
<1>2. /\ w.from.lines \in [Position -> Nat] /\ w.to.lines \in [Position -> Nat]
      /\ now.lines \in [Position -> Nat]
      BY <1>1 DEF RequisitionRows, Costs
<1>3. lines \in Costs BY <1>2 DEF Costs, Newer
<1> HIDE DEF lines
<1>4. Placed(lines) \subseteq Position BY DEF Placed
<1>5. Merged(w, now) = [status    |-> Newer(w.from.status, w.to.status, now.status),
        shortage  |-> w.to.shortage,
        generated |-> ((now.generated \ w.from.generated) \cup w.to.generated) \cap Placed(lines),
        lines     |-> lines,
        total     |-> Newer(w.from.total, w.to.total, now.total)]
      BY DEF Merged, lines
<1>6. w.to.shortage \in BOOLEAN BY <1>1 DEF RequisitionRows
<1> DEFINE S == {"none", "draft", "submitted", "approved", "rejected", "cancelled", "converted"}
<1>7. /\ Newer(w.from.status, w.to.status, now.status) \in S
      /\ Newer(w.from.total, w.to.total, now.total) \in Nat
      BY <1>1 DEF RequisitionRows, Newer
<1> QED BY <1>3, <1>4, <1>5, <1>6, <1>7 DEF RequisitionRows

LEMMA DraftEndsTyped ==
    ASSUME RequisitionsTypeOK, NEW p \in Request, NEW inserted, EndDraft(p, inserted)
    PROVE  /\ requisitionLock' \in [Requisition -> Request \cup {None}]
           /\ drafting' \in [Request -> Drafts]
BY NoRowsTyped DEF RequisitionsTypeOK, EndDraft

LEMMA RequisitionCommitTyped ==
    ASSUME RequisitionsTypeOK, NEW p \in Request, CommitRequisition(p)
    PROVE  RequisitionsTypeOK'
<1> DEFINE w == drafting[p]
           r == w.requisition
<1>1. w \in Drafts BY DEF RequisitionsTypeOK
<1>2. r # None /\ EndDraft(p, Inserted(w)) /\ overtaken' = overtaken BY DEF CommitRequisition
<1>3. /\ r \in Requisition /\ w.order \in Order \cup {None} /\ w.to.lines \in Costs
      BY <1>1, <1>2 DEF Drafts, RequisitionRows
<1>4. requisition' = [requisition EXCEPT ![r] = Merged(w, requisition[r])]
      BY DEF CommitRequisition
<1>5. requisition[r] \in RequisitionRows BY <1>3 DEF RequisitionsTypeOK
<1>6. Merged(w, requisition[r]) \in RequisitionRows BY <1>1, <1>5, MergedTyped
<1> DEFINE made == [status |-> "draft", source |-> r, lines |-> w.to.lines, total |-> LineTotal(w.to.lines)]
<1>7. made \in OrderRows BY <1>3, LinesTotalled DEF OrderRows
<1>8. IF w.order = None THEN order' = order ELSE order' = [order EXCEPT ![w.order] = made]
  <2>1. order' = IF w.order = None THEN order ELSE [order EXCEPT ![w.order] = made]
        BY DEF CommitRequisition
  <2> HIDE DEF made, w
  <2> QED BY <2>1
<1> HIDE DEF made, w, r
<1>9. order' \in [Order -> OrderRows] BY <1>3, <1>7, <1>8 DEF RequisitionsTypeOK
<1>10. requisition' \in [Requisition -> RequisitionRows] BY <1>3, <1>4, <1>6 DEF RequisitionsTypeOK
<1> QED BY <1>2, <1>9, <1>10, DraftEndsTyped DEF RequisitionsTypeOK

\* The operations on an order keep the types too.
LEMMA OrderTyped ==
    ASSUME RequisitionsTypeOK, NEW o \in Order, NEW row \in OrderRows, SetOrderRow(o, row)
    PROVE  RequisitionsTypeOK'
BY DEF RequisitionsTypeOK, SetOrderRow

LEMMA OrderLineTyped ==
    ASSUME RequisitionsTypeOK, NEW o \in Order, NEW x, NEW cost \in Nat, SetOrderLine(o, x, cost)
    PROVE  RequisitionsTypeOK'
<1> DEFINE lines == [order[o].lines EXCEPT ![x] = cost]
           row == [order[o] EXCEPT !.lines = lines, !.total = LineTotal(lines)]
<1>1. order[o] \in OrderRows /\ x \in Position BY DEF RequisitionsTypeOK, SetOrderLine
<1>2. order[o].lines \in Costs BY <1>1 DEF OrderRows
<1>3. lines \in Costs BY <1>1, <1>2, CostsKnown
<1>4. SetOrderRow(o, row) BY DEF SetOrderLine
<1> HIDE DEF lines
<1>5. row \in OrderRows BY <1>1, <1>3, LinesTotalled DEF OrderRows
<1> HIDE DEF row
<1> QED BY <1>4, <1>5, OrderTyped

LEMMA OrderStepTyped ==
    ASSUME RequisitionsTypeOK, NEW o \in Order, OrderStep(o)
    PROVE  RequisitionsTypeOK'
<1>0. order[o] \in OrderRows BY DEF RequisitionsTypeOK
<1>1. CASE CreateOrder(o, NoCosts)
  <2>1. [NoOrder EXCEPT !.status = "draft", !.lines = NoCosts, !.total = LineTotal(NoCosts)] \in OrderRows
        BY NoRowsTyped, CostsKnown, LinesTotalled DEF OrderRows
  <2> QED BY <1>1, <2>1, OrderTyped DEF CreateOrder
<1>2. ASSUME NEW c \in 1 .. MaxCost,
             \/ \E x \in Position : UpdateOrderLine(o, x, c)
             \/ \E x \in Position \cup {None} : AddOrderLine(o, x, c)
      PROVE  RequisitionsTypeOK'
  <2>1. \E at : SetOrderLine(o, at, c) BY <1>2 DEF UpdateOrderLine, AddOrderLine
  <2> QED BY <2>1, CostsKnown, OrderLineTyped
<1>3. ASSUME NEW x \in Position, DeleteOrderLine(o, x) PROVE RequisitionsTypeOK'
      BY <1>3, CostsKnown, OrderLineTyped DEF DeleteOrderLine
<1>4. CASE IssueOrderRow(o) \/ CancelOrderRow(o)
  <2>1. /\ [order[o] EXCEPT !.status = "issued"] \in OrderRows
        /\ [order[o] EXCEPT !.status = "cancelled"] \in OrderRows
        BY <1>0 DEF OrderRows
  <2> QED BY <1>4, <2>1, OrderTyped DEF IssueOrderRow, CancelOrderRow
<1> QED BY <1>1, <1>2, <1>3, <1>4 DEF OrderStep

LEMMA RequisitionsStayTyped == RequisitionsTypeOK /\ [RequisitionsNext]_requisitionsVars => RequisitionsTypeOK'
<1> SUFFICES ASSUME RequisitionsTypeOK, [RequisitionsNext]_requisitionsVars
             PROVE  RequisitionsTypeOK'
    OBVIOUS
<1>1. ASSUME NEW p \in Request, AbandonRequisition(p) PROVE RequisitionsTypeOK'
  <2>1. EndDraft(p, {}) /\ UNCHANGED <<requisition, order, overtaken>> BY <1>1 DEF AbandonRequisition
  <2> QED BY <2>1, DraftEndsTyped DEF RequisitionsTypeOK
<1>2. CASE UNCHANGED requisitionsVars BY <1>2 DEF RequisitionsTypeOK, requisitionsVars
<1> QED BY <1>1, <1>2, RequisitionOperationTyped, RequisitionCommitTyped, OrderStepTyped DEF RequisitionsNext

\* For any requisitions, orders, lines and requests: requisitions, orders and what every
\* request is to write keep their types, also where a request for missing materials writes
\* over what it did not lock (purchase_requisition_service.py).
THEOREM RequisitionsTyped == RequisitionsSpec => []RequisitionsTypeOK
<1>1. RequisitionsInit => RequisitionsTypeOK
      BY NoRowsTyped DEF RequisitionsInit, RequisitionsTypeOK
<1> QED BY <1>1, RequisitionsStayTyped, PTL DEF RequisitionsSpec

-----------------------------------------------------------------------------
(* Bills.                                                                  *)

UnmatchedAsDraft(row) == row.status \in {"none", "draft"} => row.match_status # "matched"

CountsAsReceived(row, arrived) ==
    row.match_status = "matched" => row.quantity <= arrived + row.allowed

BillsInv ==
    /\ delivered \in Nat /\ bill \in [Bill -> Bills]
    /\ \A b \in Bill : UnmatchedAsDraft(bill[b]) /\ CountsAsReceived(bill[b], delivered)

\* A bill that is replaced by one that counts as received leaves the others alone.
LEMMA BillReplaced ==
    ASSUME BillsInv, UNCHANGED delivered, NEW b \in Bill, NEW to \in Bills,
           bill' = [bill EXCEPT ![b] = to], UnmatchedAsDraft(to), CountsAsReceived(to, delivered)
    PROVE  BillsInv'
<1>1. bill' \in [Bill -> Bills] /\ delivered' \in Nat
    BY DEF BillsInv
<1>2. ASSUME NEW c \in Bill
      PROVE  UnmatchedAsDraft(bill'[c]) /\ CountsAsReceived(bill'[c], delivered')
    BY DEF BillsInv
<1>3. QED BY <1>1, <1>2 DEF BillsInv

\* More is delivered: what was received of a bill still was.
LEMMA MoreDelivered ==
    ASSUME BillsInv, UNCHANGED bill, NEW q \in Nat, delivered' = delivered + q
    PROVE  BillsInv'
<1>1. ASSUME NEW b \in Bill
      PROVE  CountsAsReceived(bill[b], delivered + q)
    BY DEF BillsInv, CountsAsReceived, Bills
<1>2. QED BY <1>1 DEF BillsInv

LEMMA BillsStay ==
    ASSUME BillsInv, UNCHANGED <<bill, delivered>>
    PROVE  BillsInv'
<1>1. QED BY DEF BillsInv

LEMMA BillSteps ==
    ASSUME BillsInv, NEW b \in Bill, BillStep(b)
    PROVE  BillsInv'
<1>q. Quantities \subseteq Nat /\ Prices \subseteq Nat /\ 0 .. MaxQuantity \subseteq Nat
    BY SupplierAccountsAssumption DEF Quantities, Prices
<1>b. bill[b] \in Bills /\ UnmatchedAsDraft(bill[b]) /\ CountsAsReceived(bill[b], delivered)
    BY DEF BillsInv
<1>1. ASSUME NEW q \in Nat, NEW price \in Nat, CreateSupplierBill(b, q, price)
      PROVE  BillsInv'
    <2> DEFINE to == [NoBill EXCEPT !.status = "draft", !.quantity = q, !.price = price]
    <2>1. to \in Bills /\ UnmatchedAsDraft(to) /\ CountsAsReceived(to, delivered)
        BY DEF NoBill, Bills, UnmatchedAsDraft, CountsAsReceived
    <2>2. bill' = [bill EXCEPT ![b] = to] /\ UNCHANGED delivered
        BY <1>1 DEF CreateSupplierBill, SetBill
    <2> HIDE DEF to
    <2>3. QED BY <2>1, <2>2, BillReplaced
<1>2. ASSUME NEW q \in Nat, NEW price \in Nat, EnsureDraft(b),
             SetBill(b, [bill[b] EXCEPT !.quantity = q, !.price = price])
      PROVE  BillsInv'
    <2> DEFINE to == [bill[b] EXCEPT !.quantity = q, !.price = price]
    <2>1. to \in Bills /\ UnmatchedAsDraft(to) /\ CountsAsReceived(to, delivered)
        BY <1>b, <1>2 DEF EnsureDraft, Bills, UnmatchedAsDraft, CountsAsReceived
    <2>2. bill' = [bill EXCEPT ![b] = to] /\ UNCHANGED delivered
        BY <1>2 DEF SetBill
    <2> HIDE DEF to
    <2>3. QED BY <2>1, <2>2, BillReplaced
<1>3. ASSUME SubmitSupplierBill(b)
      PROVE  BillsInv'
    <2> DEFINE to == [bill[b] EXCEPT !.status = "submitted", !.match_status = "not_run"]
    <2>1. to \in Bills /\ UnmatchedAsDraft(to) /\ CountsAsReceived(to, delivered)
        BY <1>b DEF Bills, UnmatchedAsDraft, CountsAsReceived
    <2>2. bill' = [bill EXCEPT ![b] = to] /\ UNCHANGED delivered
        BY <1>3 DEF SubmitSupplierBill, SetBill
    <2> HIDE DEF to
    <2>3. QED BY <2>1, <2>2, BillReplaced
<1>4. ASSUME NEW q \in Nat, NEW price \in 0 .. MaxPrice, RunThreeWayMatch(b, q, price)
      PROVE  BillsInv'
    <2> DEFINE result == IF QuantityReceived(b, q) /\ PriceOk(b, price) THEN "matched"
                                                                       ELSE "exception"
               to == [bill[b] EXCEPT !.status = result, !.match_status = result, !.allowed = q]
    <2>1. to \in Bills
        BY <1>b DEF Bills
    <2>2. UnmatchedAsDraft(to)
        BY <1>b DEF Bills, UnmatchedAsDraft
    <2>3. CountsAsReceived(to, delivered)
        BY <1>b DEF Bills, CountsAsReceived, QuantityReceived
    <2>4. bill' = [bill EXCEPT ![b] = to] /\ UNCHANGED delivered
        BY <1>4 DEF RunThreeWayMatch, SetBill
    <2> HIDE DEF to
    <2>5. QED BY <2>1, <2>2, <2>3, <2>4, BillReplaced
<1>5. ASSUME ApproveSupplierBill(b)
      PROVE  BillsInv'
    <2> DEFINE to == [bill[b] EXCEPT !.status = "approved"]
    <2>1. to \in Bills /\ UnmatchedAsDraft(to) /\ CountsAsReceived(to, delivered)
        BY <1>b DEF Bills, UnmatchedAsDraft, CountsAsReceived
    <2>2. bill' = [bill EXCEPT ![b] = to] /\ UNCHANGED delivered
        BY <1>5 DEF ApproveSupplierBill, SetBill
    <2> HIDE DEF to
    <2>3. QED BY <2>1, <2>2, BillReplaced
<1>6. CASE DeleteBillLine(b)
    BY <1>2, <1>6 DEF DeleteBillLine
<1>7. ASSUME NEW q \in Nat, NEW price \in Nat, AddBillLine(b, q, price) \/ UpdateBillLine(b, q, price)
      PROVE  BillsInv'
    BY <1>2, <1>7 DEF AddBillLine, UpdateBillLine
<1>8. QED BY <1>1, <1>3, <1>4, <1>5, <1>6, <1>7, <1>q DEF BillStep

\* A void changes only the status, to one that is not a draft's.
LEMMA VoidKeeps ==
    ASSUME BillsInv, NEW p \in Request, VoidBillRow(p), spend[p].row \in Bill
    PROVE  BillsInv'
<1> DEFINE b == spend[p].row
           to == [bill[b] EXCEPT !.status = "voided"]
<1>1. bill[b] \in Bills /\ UnmatchedAsDraft(bill[b]) /\ CountsAsReceived(bill[b], delivered)
    BY DEF BillsInv
<1>2. to \in Bills /\ UnmatchedAsDraft(to) /\ CountsAsReceived(to, delivered)
    BY <1>1 DEF Bills, UnmatchedAsDraft, CountsAsReceived
<1>3. bill' = [bill EXCEPT ![b] = to] /\ UNCHANGED delivered
    BY DEF VoidBillRow, EndSpend
<1> HIDE DEF to
<1>4. QED BY <1>2, <1>3, BillReplaced

LEMMA VoidElsewhere ==
    ASSUME BillsInv, NEW p \in Request, VoidBillRow(p), spend[p].row \notin Bill
    PROVE  BillsInv'
<1>1. bill' = bill /\ delivered' = delivered
    BY DEF VoidBillRow, EndSpend, BillsInv
<1>2. QED BY <1>1, BillsStay

LEMMA BillsInvInductive ==
    ASSUME BillsInv, [AccountsNext]_accountsVars
    PROVE  BillsInv'
<1>1. CASE UNCHANGED accountsVars
    BY <1>1, BillsStay DEF accountsVars, accounts
<1>2. ASSUME NEW q \in Quantities, ReceiptPosted(q)
      PROVE  BillsInv'
    <2>1. q \in Nat
        BY SupplierAccountsAssumption DEF Quantities
    <2>2. delivered' = delivered + q /\ UNCHANGED bill
        BY <1>2 DEF ReceiptPosted, accounts
    <2>3. QED BY <2>1, <2>2, MoreDelivered
<1>3. CASE OrderIssued \/ OrderCancelled
    BY <1>3, BillsStay DEF OrderIssued, OrderCancelled, MoveOrder, accounts
<1>4. ASSUME NEW d \in DebitNote, NoteStep(d)
      PROVE  BillsInv'
    BY <1>4, BillsStay DEF NoteStep, CreateDebitNote, UpdateDebitNoteLine, DeleteDebitNoteLine,
        AddDebitNoteLine, EditDebitNoteLines, IssueDebitNote, AcknowledgeDebitNote, SetNote
<1>5. ASSUME NEW p \in Request, SpendStep(p)
      PROVE  BillsInv'
    <2>1. CASE VoidBillRow(p)
        BY <2>1, VoidKeeps, VoidElsewhere
    <2>2. CASE ~VoidBillRow(p)
        <3>1. UNCHANGED <<bill, delivered>>
            BY <1>5, <2>2 DEF SpendStep, RecordSupplierPayment, SettleDebitNote, VoidSupplierBill,
                VoidDebitNote, LockFirst, CheckPayment, CheckVoidBill, CheckVoidNote, Checked,
                PostPayment, VoidNoteRow, FailSpend, EndSpend, accounts
        <3>2. QED BY <3>1, BillsStay
    <2>3. QED BY <2>1, <2>2
<1>6. ASSUME NEW n \in SupplierPayment, ReverseSupplierPayment(n) \/ ReverseCreditSettlement(n)
      PROVE  BillsInv'
    BY <1>6, BillsStay DEF ReverseSupplierPayment, ReverseCreditSettlement, Reverse
<1>7. ASSUME NEW b \in Bill, BillStep(b)
      PROVE  BillsInv'
    BY <1>7, BillSteps
<1>8. QED BY <1>1, <1>2, <1>3, <1>4, <1>5, <1>6, <1>7 DEF AccountsNext

LEMMA BillsInvAtFirst ==
    ASSUME AccountsInit
    PROVE  BillsInv
<1>1. QED BY DEF AccountsInit, BillsInv, NoBill, Bills, UnmatchedAsDraft, CountsAsReceived

\* A bill that counts as matched bills no more than was received, beyond its tolerance,
\* however often it is edited and matched and whatever is delivered: for any bills,
\* quantities, payments and requests.
THEOREM MatchedStaysReceived == AccountsSpec => []MatchedIsReceived
<1>1. AccountsInit => BillsInv
    BY BillsInvAtFirst
<1>2. BillsInv /\ [AccountsNext]_accountsVars => BillsInv'
    BY BillsInvInductive
<1>3. BillsInv => MatchedIsReceived
    BY DEF BillsInv, MatchedIsReceived, CountsAsReceived
<1>4. QED BY <1>1, <1>2, <1>3, PTL DEF AccountsSpec

-----------------------------------------------------------------------------
(* What is spent of a bill and of a debit note.                            *)

LEMMA AmountType ==
    ASSUME NEW allocations \in [Bill -> Nat]
    PROVE  Amount(allocations) \in Nat
<1>1. QED BY SumNat, SupplierAccountsAssumption DEF Amount

LEMMA PostedFinite == \A T \in SUBSET SupplierPayment : IsFiniteSet(T)
<1>1. QED BY SupplierAccountsAssumption, FS_Subset

SpentNaturally ==
    /\ \A b \in Bill : ActiveAllocatedTotal(b) \in Nat
    /\ \A d \in DebitNote : ActiveSettlementTotal(d) \in Nat

LEMMA SpentTypes == AccountsTypeOK => SpentNaturally
<1> SUFFICES ASSUME AccountsTypeOK PROVE SpentNaturally OBVIOUS
<1>1. ASSUME NEW b \in Bill
      PROVE  ActiveAllocatedTotal(b) \in Nat
    <2> DEFINE f == [n \in Posted |-> supplierPayment[n].allocations[b]]
    <2>1. IsFiniteSet(Posted)
        BY PostedFinite DEF Posted
    <2>2. \A n \in Posted : f[n] \in Nat
        BY DEF Posted, AccountsTypeOK, SupplierPayments
    <2>3. ActiveAllocatedTotal(b) = SumFunctionOnSet(f, Posted)
        BY DEF ActiveAllocatedTotal, SumFunction
    <2> HIDE DEF f
    <2>4. QED BY <2>1, <2>2, <2>3, SumNat
<1>2. ASSUME NEW d \in DebitNote
      PROVE  ActiveSettlementTotal(d) \in Nat
    <2> DEFINE S == {m \in Posted : supplierPayment[m].note = d}
               f == [n \in S |-> Amount(supplierPayment[n].allocations)]
    <2>1. IsFiniteSet(S)
        BY PostedFinite DEF Posted
    <2>2. \A n \in S : f[n] \in Nat
        <3>1. \A n \in S : supplierPayment[n].allocations \in [Bill -> Nat]
            BY DEF Posted, AccountsTypeOK, SupplierPayments
        <3>2. QED BY <3>1, AmountType
    <2>3. ActiveSettlementTotal(d) = SumFunctionOnSet(f, S)
        BY DEF ActiveSettlementTotal, SumFunction
    <2> HIDE DEF f, S
    <2>4. QED BY <2>1, <2>2, <2>3, SumNat
<1>3. QED BY <1>1, <1>2 DEF SpentNaturally

LEMMA SpentTypesNext == AccountsTypeOK' => SpentNaturally'
<1>1. QED BY SpentTypes, PTL

\* Nothing is spent of a bill no posted payment allocates to.
LEMMA NothingAllocated ==
    ASSUME NEW b \in Bill, NoActivePayment(b)
    PROVE  ActiveAllocatedTotal(b) = 0
<1> DEFINE f == [n \in Posted |-> supplierPayment[n].allocations[b]]
<1>1. IsFiniteSet(Posted) /\ \A n \in Posted : f[n] = 0
    BY PostedFinite DEF Posted, NoActivePayment
<1>2. ActiveAllocatedTotal(b) = SumFunctionOnSet(f, Posted)
    BY DEF ActiveAllocatedTotal, SumFunction
<1> HIDE DEF f
<1>3. QED BY <1>1, <1>2, SumZero

\* A payment row is replaced: what it adds to a bill and a note is what it did not before.
Adding(row, b) == IF row.status = "posted" THEN row.allocations[b] ELSE 0

Crediting(row, d) == IF row.status = "posted" /\ row.note = d THEN Amount(row.allocations) ELSE 0

LEMMA SpentMoves ==
    ASSUME AccountsTypeOK, NEW n \in SupplierPayment, NEW row \in SupplierPayments,
           supplierPayment' = [supplierPayment EXCEPT ![n] = row]
    PROVE  /\ \A b \in Bill :
                ActiveAllocatedTotal(b)' =
                    (ActiveAllocatedTotal(b) - Adding(supplierPayment[n], b)) + Adding(row, b)
           /\ \A d \in DebitNote :
                ActiveSettlementTotal(d)' =
                    (ActiveSettlementTotal(d) - Crediting(supplierPayment[n], d)) + Crediting(row, d)
<1> DEFINE was == supplierPayment[n]
<1>1. /\ supplierPayment'[n] = row /\ \A m \in SupplierPayment \ {n} : supplierPayment'[m] = supplierPayment[m]
      /\ \A m \in SupplierPayment : /\ supplierPayment[m].allocations \in [Bill -> Nat]
                                    /\ supplierPayment'[m].allocations \in [Bill -> Nat]
    BY DEF AccountsTypeOK, SupplierPayments
<1>2. ASSUME NEW b \in Bill
      PROVE  ActiveAllocatedTotal(b)' = (ActiveAllocatedTotal(b) - Adding(was, b)) + Adding(row, b)
    <2> DEFINE S == Posted
               T == Posted'
               f == [m \in S |-> supplierPayment[m].allocations[b]]
               g == [m \in T |-> supplierPayment'[m].allocations[b]]
    <2>1. /\ IsFiniteSet(S) /\ IsFiniteSet(T)
          /\ \A m \in S : f[m] \in Int
          /\ \A m \in T : g[m] \in Int
        BY <1>1, PostedFinite DEF Posted
    <2>2. /\ S \ {n} = T \ {n} /\ \A m \in S \ {n} : f[m] = g[m]
          /\ (IF n \in S THEN f[n] ELSE 0) = Adding(was, b)
          /\ (IF n \in T THEN g[n] ELSE 0) = Adding(row, b)
        BY <1>1 DEF Posted, Adding
    <2>3. /\ ActiveAllocatedTotal(b) = SumFunctionOnSet(f, S)
          /\ ActiveAllocatedTotal(b)' = SumFunctionOnSet(g, T)
        BY DEF ActiveAllocatedTotal, SumFunction
    <2> HIDE DEF f, g, S, T, was
    <2>4. QED BY <2>1, <2>2, <2>3, SumMoves
<1>3. ASSUME NEW d \in DebitNote
      PROVE  ActiveSettlementTotal(d)' = (ActiveSettlementTotal(d) - Crediting(was, d)) + Crediting(row, d)
    <2> DEFINE S == {m \in Posted : supplierPayment[m].note = d}
               T == {m \in Posted' : supplierPayment'[m].note = d}
               f == [m \in S |-> Amount(supplierPayment[m].allocations)]
               g == [m \in T |-> Amount(supplierPayment'[m].allocations)]
    <2>1. IsFiniteSet(S) /\ IsFiniteSet(T)
        BY PostedFinite DEF Posted
    <2>2. /\ \A m \in S : f[m] \in Int
          /\ \A m \in T : g[m] \in Int
        BY <1>1, AmountType DEF Posted
    <2>3. /\ S \ {n} = T \ {n} /\ \A m \in S \ {n} : f[m] = g[m]
          /\ (IF n \in S THEN f[n] ELSE 0) = Crediting(was, d)
          /\ (IF n \in T THEN g[n] ELSE 0) = Crediting(row, d)
        BY <1>1 DEF Posted, Crediting
    <2>4. /\ ActiveSettlementTotal(d) = SumFunctionOnSet(f, S)
          /\ ActiveSettlementTotal(d)' = SumFunctionOnSet(g, T)
        BY DEF ActiveSettlementTotal, SumFunction, Amount
    <2> HIDE DEF f, g, S, T, was
    <2>5. QED BY <2>1, <2>2, <2>3, <2>4, SumMoves
<1>4. QED BY <1>2, <1>3

Paying == {"record_payment", "settle_debit_note"}

\* A request at work has locked its first row; a settlement, then, one of an acknowledged
\* note; and the payment it is to make is not there.
Claimed(p) ==
    LET s == spend[p]
    IN /\ s.phase = "idle" => s = NoSpend
       /\ s.phase # "idle" => s.row \in Row /\ accountLock[s.row] = p
       /\ s.operation = "settle_debit_note" => s.row \in DebitNote /\ note[s.row].status = "acknowledged"
       /\ s.operation = "void_bill" => s.row \in Bill
       /\ s.operation = "void_note" => s.row \in DebitNote
       /\ s.operation \in Paying => s.payment \in SupplierPayment /\ supplierPayment[s.payment].status = "none"
       /\ s.operation \notin Paying => s.payment = None

\* What a request has checked is still so, and the bills it checked it has locked.
StillHolds(p) ==
    LET s == spend[p]
    IN s.phase = "checked" =>
       /\ s.operation \in Paying =>
            \A b \in Allocated(s.allocations) : accountLock[b] = p /\ BillHasLeft(b, s.allocations[b])
       /\ s.operation = "settle_debit_note" => NoteHasLeft(s.row, Amount(s.allocations))
       /\ s.operation = "void_bill" => NoActivePayment(s.row)
       /\ s.operation = "void_note" => ActiveSettlementTotal(s.row) = 0

PaymentsApart ==
    \A p, q \in Request : spend[p].payment = spend[q].payment => p = q \/ spend[p].payment = None

BillKept(b) == IF bill[b].status = "approved" THEN ActiveAllocatedTotal(b) <= Total(b)
                                              ELSE NoActivePayment(b)

NoteKept(d) == IF note[d].status = "acknowledged" THEN ActiveSettlementTotal(d) <= note[d].total
                                                  ELSE ActiveSettlementTotal(d) = 0

SpendInv ==
    /\ AccountsTypeOK
    /\ \A b \in Bill : BillKept(b)
    /\ \A d \in DebitNote : NoteKept(d)
    /\ PaymentsApart
    /\ \A p \in Request : Claimed(p) /\ StillHolds(p)

LEMMA SpendFormed ==
    ASSUME AccountsTypeOK, NEW p \in Request
    PROVE  /\ spend[p] \in Spends /\ spend[p].allocations \in [Bill -> Nat]
           /\ Amount(spend[p].allocations) \in Nat
           /\ \A b \in Bill : Total(b) \in Nat
           /\ p # None
<1>1. spend[p] \in Spends /\ spend[p].allocations \in [Bill -> Nat]
    BY DEF AccountsTypeOK, Spends
<1>2. ASSUME NEW b \in Bill PROVE Total(b) \in Nat
    <2>1. bill[b].quantity \in Nat /\ bill[b].price \in Nat
        BY DEF AccountsTypeOK, Bills
    <2>2. QED BY <2>1 DEF Total
<1>3. QED BY <1>1, <1>2, AmountType, SupplierAccountsAssumption

\* A request that does nothing keeps what it claims and checked, when no other touches the
\* rows it has locked or adds to what is spent of them.
LEMMA HoldsOn ==
    ASSUME SpendInv, AccountsTypeOK', NEW p \in Request, spend'[p] = spend[p],
           \A r \in Row : accountLock[r] = p => accountLock'[r] = p,
           \A b \in Bill : accountLock[b] = p =>
               /\ bill'[b] = bill[b] /\ ActiveAllocatedTotal(b)' <= ActiveAllocatedTotal(b)
               /\ NoActivePayment(b) => NoActivePayment(b)',
           \A d \in DebitNote : accountLock[d] = p =>
               note'[d] = note[d] /\ ActiveSettlementTotal(d)' <= ActiveSettlementTotal(d),
           spend[p].operation \in Paying =>
               supplierPayment'[spend[p].payment].status = supplierPayment[spend[p].payment].status
    PROVE  Claimed(p)' /\ StillHolds(p)'
<1> DEFINE s == spend[p]
<1>1. Claimed(p) /\ StillHolds(p) /\ AccountsTypeOK /\ spend'[p] = s
    BY DEF SpendInv
<1>2. s.phase = "idle" => s.operation = "none"
    BY <1>1 DEF Claimed, NoSpend
<1>3. Claimed(p)'
    <2> HIDE DEF s
    <2>1. QED BY <1>1, <1>2 DEF Claimed, s, Paying
<1>4. ASSUME s.phase = "checked", NEW b \in Bill, accountLock[b] = p, NEW a \in Nat, BillHasLeft(b, a)
      PROVE  (bill'[b].status = "approved" /\ a <= Total(b)' - ActiveAllocatedTotal(b)')
    <2>1. /\ bill'[b] = bill[b] /\ ActiveAllocatedTotal(b)' <= ActiveAllocatedTotal(b)
          /\ Total(b)' = Total(b)
        BY <1>4 DEF Total
    <2>2. ActiveAllocatedTotal(b) \in Nat /\ ActiveAllocatedTotal(b)' \in Nat /\ Total(b) \in Nat
        BY <1>1, <1>4, SpentTypes, SpentTypesNext, SpendFormed DEF SpentNaturally
    <2>3. QED BY <1>4, <2>1, <2>2 DEF BillHasLeft
<1>5. ASSUME s.phase = "checked" PROVE StillHolds(p)'
    <2>1. s.row \in Row /\ accountLock[s.row] = p /\ accountLock'[s.row] = p
          /\ s.allocations \in [Bill -> Nat] /\ Amount(s.allocations) \in Nat
        BY <1>1, <1>5, SpendFormed DEF Claimed
    <2>2. ASSUME s.operation \in Paying, NEW b \in Allocated(s.allocations)
          PROVE  accountLock'[b] = p /\ BillHasLeft(b, s.allocations[b])'
        <3>1. b \in Bill /\ b \in Row /\ s.allocations[b] \in Nat
            BY <2>1 DEF Allocated, Row
        <3>2. accountLock[b] = p /\ BillHasLeft(b, s.allocations[b])
            BY <1>1, <1>5, <2>2 DEF StillHolds
        <3>3. QED BY <1>1, <1>4, <1>5, <3>1, <3>2 DEF BillHasLeft
    <2>3. ASSUME s.operation = "settle_debit_note"
          PROVE  NoteHasLeft(s.row, Amount(s.allocations))'
        <3> DEFINE d == s.row
        <3>1. d \in DebitNote /\ NoteHasLeft(d, Amount(s.allocations))
            BY <1>1, <1>5, <2>3 DEF Claimed, StillHolds
        <3>2. note'[d] = note[d] /\ ActiveSettlementTotal(d)' <= ActiveSettlementTotal(d)
            BY <2>1, <3>1, <1>1
        <3>3. /\ ActiveSettlementTotal(d) \in Nat /\ ActiveSettlementTotal(d)' \in Nat
              /\ note[d].total \in Nat
            BY <1>1, <3>1, SpentTypes, SpentTypesNext DEF SpentNaturally, AccountsTypeOK, Notes
        <3>4. QED BY <1>1, <2>1, <3>1, <3>2, <3>3 DEF NoteHasLeft, Amount
    <2>4. ASSUME s.operation = "void_bill"
          PROVE  NoActivePayment(s.row)'
        <3>1. s.row \in Bill /\ NoActivePayment(s.row)
            BY <1>1, <1>5, <2>4 DEF Claimed, StillHolds
        <3>2. QED BY <1>1, <2>1, <3>1
    <2>5. ASSUME s.operation = "void_note"
          PROVE  ActiveSettlementTotal(s.row)' = 0
        <3>1. s.row \in DebitNote /\ ActiveSettlementTotal(s.row) = 0
            BY <1>1, <1>5, <2>5 DEF Claimed, StillHolds
        <3>2. QED BY <1>1, <2>1, <3>1, SpentTypesNext DEF SpentNaturally
    <2>6. QED BY <1>1, <2>2, <2>3, <2>4, <2>5 DEF StillHolds
<1>6. QED BY <1>1, <1>3, <1>5 DEF StillHolds

\* The order and its receipts do not touch the accounts.
LEMMA SpendOrder ==
    ASSUME SpendInv, AccountsTypeOK', UNCHANGED <<accounts, accountLock, spend>>
    PROVE  SpendInv'
<1>1. UNCHANGED <<bill, supplierPayment, note, accountLock, spend>>
    BY DEF accounts
<1>2. /\ \A b \in Bill : /\ ActiveAllocatedTotal(b)' = ActiveAllocatedTotal(b)
                         /\ NoActivePayment(b)' = NoActivePayment(b) /\ Total(b)' = Total(b)
      /\ \A d \in DebitNote : ActiveSettlementTotal(d)' = ActiveSettlementTotal(d)
    BY <1>1 DEF ActiveAllocatedTotal, ActiveSettlementTotal, NoActivePayment, Posted, Amount, Total
<1>3. \A p \in Request : Claimed(p)' /\ StillHolds(p)'
    <2>1. SpentNaturally
        BY SpentTypes DEF SpendInv
    <2>2. /\ \A b \in Bill : ActiveAllocatedTotal(b)' <= ActiveAllocatedTotal(b)
          /\ \A d \in DebitNote : ActiveSettlementTotal(d)' <= ActiveSettlementTotal(d)
        BY <1>2, <2>1 DEF SpentNaturally
    <2>3. QED BY <1>1, <1>2, <2>2, HoldsOn
<1>4. PaymentsApart'
    BY <1>1 DEF SpendInv, PaymentsApart
<1>5. (\A b \in Bill : BillKept(b)') /\ \A d \in DebitNote : NoteKept(d)'
    BY <1>1, <1>2 DEF SpendInv, BillKept, NoteKept
<1>6. QED BY <1>3, <1>4, <1>5 DEF SpendInv

\* A bill no request has locked becomes another: only an approved one can have been paid, and
\* that one stays as it is.
LEMMA SpendSetBill ==
    ASSUME SpendInv, AccountsTypeOK', NEW b \in Bill, NEW to, SetBill(b, to),
           bill[b].status # "approved"
    PROVE  SpendInv'
<1>1. /\ UNCHANGED <<supplierPayment, note, accountLock, spend>> /\ accountLock[b] = None
      /\ \A c \in Bill \ {b} : bill'[c] = bill[c]
    BY DEF SetBill, Free, SpendInv, AccountsTypeOK
<1>2. /\ \A c \in Bill : /\ ActiveAllocatedTotal(c)' = ActiveAllocatedTotal(c)
                         /\ NoActivePayment(c)' = NoActivePayment(c)
      /\ \A d \in DebitNote : ActiveSettlementTotal(d)' = ActiveSettlementTotal(d)
    BY <1>1 DEF ActiveAllocatedTotal, ActiveSettlementTotal, NoActivePayment, Posted, Amount
<1>3. SpentNaturally /\ SpentNaturally'
    BY SpentTypes, SpentTypesNext DEF SpendInv
<1>4. ASSUME NEW p \in Request PROVE Claimed(p)' /\ StillHolds(p)'
    <2>1. p # None
        BY SupplierAccountsAssumption
    <2>2. /\ spend'[p] = spend[p] /\ \A r \in Row : accountLock[r] = p => accountLock'[r] = p
          /\ \A c \in Bill : accountLock[c] = p => bill'[c] = bill[c]
        BY <1>1, <2>1
    <2>3. /\ \A c \in Bill : ActiveAllocatedTotal(c)' <= ActiveAllocatedTotal(c)
          /\ \A d \in DebitNote : ActiveSettlementTotal(d)' <= ActiveSettlementTotal(d)
        BY <1>2, <1>3 DEF SpentNaturally
    <2>4. QED BY <1>1, <1>2, <2>2, <2>3, HoldsOn
<1>5. ASSUME NEW c \in Bill PROVE BillKept(c)'
    <2>1. CASE c = b
        <3>1. NoActivePayment(b)
            BY DEF SpendInv, BillKept
        <3>2. ActiveAllocatedTotal(b)' = 0 /\ NoActivePayment(b)'
            BY <1>2, <3>1, NothingAllocated
        <3>3. Total(b)' \in Nat
            <4>1. bill'[b].quantity \in Nat /\ bill'[b].price \in Nat
                BY DEF AccountsTypeOK, Bills
            <4>2. QED BY <4>1 DEF Total
        <3>4. QED BY <2>1, <3>2, <3>3 DEF BillKept
    <2>2. CASE c # b
        BY <1>1, <1>2, <2>2 DEF SpendInv, BillKept, Total
    <2>3. QED BY <2>1, <2>2
<1>6. \A d \in DebitNote : NoteKept(d)'
    BY <1>1, <1>2 DEF SpendInv, NoteKept
<1>7. PaymentsApart'
    BY <1>1 DEF SpendInv, PaymentsApart
<1>8. QED BY <1>4, <1>5, <1>6, <1>7 DEF SpendInv

LEMMA SpendBillStep ==
    ASSUME SpendInv, AccountsTypeOK', NEW b \in Bill, BillStep(b)
    PROVE  SpendInv'
<1>1. bill[b].status # "approved"
    BY DEF BillStep, CreateSupplierBill, AddBillLine, UpdateBillLine, DeleteBillLine, EnsureDraft,
        SubmitSupplierBill, ApproveSupplierBill, RunThreeWayMatch
<1>2. \E to : SetBill(b, to)
    BY DEF BillStep, CreateSupplierBill, AddBillLine, UpdateBillLine, DeleteBillLine, EnsureDraft,
        SubmitSupplierBill, ApproveSupplierBill, RunThreeWayMatch
<1>3. QED BY <1>1, <1>2, SpendSetBill

\* A note no request has locked becomes another: only an acknowledged one has been settled
\* with, and that one stays as it is.
LEMMA SpendSetNote ==
    ASSUME SpendInv, AccountsTypeOK', NEW d \in DebitNote, NEW become, NEW total, SetNote(d, become, total),
           note[d].status # "acknowledged"
    PROVE  SpendInv'
<1>1. /\ UNCHANGED <<bill, supplierPayment, accountLock, spend>> /\ accountLock[d] = None
      /\ \A e \in DebitNote \ {d} : note'[e] = note[e]
    BY DEF SetNote, Free, SpendInv, AccountsTypeOK
<1>2. /\ \A c \in Bill : /\ ActiveAllocatedTotal(c)' = ActiveAllocatedTotal(c)
                         /\ NoActivePayment(c)' = NoActivePayment(c) /\ Total(c)' = Total(c)
      /\ \A e \in DebitNote : ActiveSettlementTotal(e)' = ActiveSettlementTotal(e)
    BY <1>1 DEF ActiveAllocatedTotal, ActiveSettlementTotal, NoActivePayment, Posted, Amount, Total
<1>3. SpentNaturally /\ SpentNaturally'
    BY SpentTypes, SpentTypesNext DEF SpendInv
<1>4. ASSUME NEW p \in Request PROVE Claimed(p)' /\ StillHolds(p)'
    <2>1. p # None
        BY SupplierAccountsAssumption
    <2>2. /\ spend'[p] = spend[p] /\ \A r \in Row : accountLock[r] = p => accountLock'[r] = p
          /\ \A e \in DebitNote : accountLock[e] = p => note'[e] = note[e]
        BY <1>1, <2>1
    <2>3. /\ \A c \in Bill : ActiveAllocatedTotal(c)' <= ActiveAllocatedTotal(c)
          /\ \A e \in DebitNote : ActiveSettlementTotal(e)' <= ActiveSettlementTotal(e)
        BY <1>2, <1>3 DEF SpentNaturally
    <2>4. QED BY <1>1, <1>2, <2>2, <2>3, HoldsOn
<1>5. ASSUME NEW e \in DebitNote PROVE NoteKept(e)'
    <2>1. CASE e = d
        <3>1. ActiveSettlementTotal(d)' = 0
            BY <1>2 DEF SpendInv, NoteKept
        <3>2. note'[d].total \in Nat
            BY DEF AccountsTypeOK, Notes
        <3>3. QED BY <2>1, <3>1, <3>2 DEF NoteKept
    <2>2. CASE e # d
        BY <1>1, <1>2, <2>2 DEF SpendInv, NoteKept
    <2>3. QED BY <2>1, <2>2
<1>6. \A c \in Bill : BillKept(c)'
    BY <1>1, <1>2 DEF SpendInv, BillKept
<1>7. PaymentsApart'
    BY <1>1 DEF SpendInv, PaymentsApart
<1>8. QED BY <1>4, <1>5, <1>6, <1>7 DEF SpendInv

LEMMA SpendNoteStep ==
    ASSUME SpendInv, AccountsTypeOK', NEW d \in DebitNote, NoteStep(d)
    PROVE  SpendInv'
<1>1. note[d].status # "acknowledged"
    BY DEF NoteStep, CreateDebitNote, UpdateDebitNoteLine, DeleteDebitNoteLine, AddDebitNoteLine,
        EditDebitNoteLines, IssueDebitNote, AcknowledgeDebitNote
<1>2. \E become, total : SetNote(d, become, total)
    BY DEF NoteStep, CreateDebitNote, UpdateDebitNoteLine, DeleteDebitNoteLine, AddDebitNoteLine,
        EditDebitNoteLines, IssueDebitNote, AcknowledgeDebitNote
<1>3. QED BY <1>1, <1>2, SpendSetNote

\* A payment is reversed: less is spent.
LEMMA SpendReverse ==
    ASSUME SpendInv, AccountsTypeOK', NEW n \in SupplierPayment, Reverse(n)
    PROVE  SpendInv'
<1> DEFINE row == [supplierPayment[n] EXCEPT !.status = "reversed"]
<1>1. /\ UNCHANGED <<bill, note, accountLock, spend>>
      /\ supplierPayment' = [supplierPayment EXCEPT ![n] = row]
      /\ supplierPayment[n].status = "posted" /\ supplierPayment[n] \in SupplierPayments
      /\ AccountsTypeOK
    BY DEF Reverse, SpendInv, AccountsTypeOK
<1>2. row \in SupplierPayments /\ row.status = "reversed"
    BY <1>1 DEF SupplierPayments
<1>3. /\ \A b \in Bill : Adding(row, b) = 0 /\ Adding(supplierPayment[n], b) \in Nat
      /\ \A d \in DebitNote : Crediting(row, d) = 0 /\ Crediting(supplierPayment[n], d) \in Nat
    <2>1. supplierPayment[n].allocations \in [Bill -> Nat]
        BY <1>1 DEF SupplierPayments
    <2>2. QED BY <1>2, <2>1, AmountType DEF Adding, Crediting
<1> HIDE DEF row
<1>4. SpentNaturally /\ SpentNaturally'
    BY SpentTypes, SpentTypesNext DEF SpendInv
<1>5. /\ \A b \in Bill : ActiveAllocatedTotal(b)' <= ActiveAllocatedTotal(b)
      /\ \A d \in DebitNote : ActiveSettlementTotal(d)' <= ActiveSettlementTotal(d)
    <2>1. /\ \A b \in Bill : ActiveAllocatedTotal(b)' =
                (ActiveAllocatedTotal(b) - Adding(supplierPayment[n], b)) + Adding(row, b)
          /\ \A d \in DebitNote : ActiveSettlementTotal(d)' =
                (ActiveSettlementTotal(d) - Crediting(supplierPayment[n], d)) + Crediting(row, d)
        BY <1>1, <1>2, SpentMoves
    <2>2. QED BY <1>3, <1>4, <2>1 DEF SpentNaturally
<1>6. /\ supplierPayment'[n] = row
      /\ \A m \in SupplierPayment \ {n} : supplierPayment'[m] = supplierPayment[m]
    BY <1>1 DEF AccountsTypeOK
<1>7. \A b \in Bill : NoActivePayment(b) => NoActivePayment(b)'
    BY <1>2, <1>6 DEF NoActivePayment, Posted
<1>8. ASSUME NEW p \in Request PROVE Claimed(p)' /\ StillHolds(p)'
    <2>1. spend[p].operation \in Paying =>
              supplierPayment'[spend[p].payment].status = supplierPayment[spend[p].payment].status
        BY <1>1, <1>6 DEF SpendInv, Claimed
    <2>2. QED BY <1>1, <1>5, <1>7, <2>1, HoldsOn
<1>9. \A b \in Bill : BillKept(b)'
    <2> SUFFICES ASSUME NEW b \in Bill PROVE BillKept(b)'
        OBVIOUS
    <2>1. Total(b) \in Nat /\ Total(b)' = Total(b)
        <3>1. bill[b].quantity \in Nat /\ bill[b].price \in Nat
            BY DEF SpendInv, AccountsTypeOK, Bills
        <3>2. QED BY <1>1, <3>1 DEF Total
    <2>2. /\ ActiveAllocatedTotal(b) \in Nat /\ ActiveAllocatedTotal(b)' \in Nat
          /\ ActiveAllocatedTotal(b)' <= ActiveAllocatedTotal(b)
        BY <1>4, <1>5 DEF SpentNaturally
    <2>3. QED BY <1>1, <1>7, <2>1, <2>2 DEF SpendInv, BillKept
<1>10. \A d \in DebitNote : NoteKept(d)'
    <2> SUFFICES ASSUME NEW d \in DebitNote PROVE NoteKept(d)'
        OBVIOUS
    <2>1. /\ ActiveSettlementTotal(d) \in Nat /\ ActiveSettlementTotal(d)' \in Nat
          /\ ActiveSettlementTotal(d)' <= ActiveSettlementTotal(d) /\ note[d].total \in Nat
        BY <1>1, <1>4, <1>5 DEF SpentNaturally, AccountsTypeOK, Notes
    <2>2. QED BY <1>1, <2>1 DEF SpendInv, NoteKept
<1>11. PaymentsApart'
    BY <1>1 DEF SpendInv, PaymentsApart
<1>12. QED BY <1>8, <1>9, <1>10, <1>11 DEF SpendInv

\* A request begins: it locks its first row, and claims a payment no other does.
LEMMA SpendBegins ==
    ASSUME SpendInv, AccountsTypeOK', NEW p \in Request, NEW operation, NEW r \in Row, NEW n,
           NEW allocations, LockFirst(p, operation, r, n, allocations),
           \/ operation = "record_payment" /\ n \in SupplierPayment /\ Fresh(n)
           \/ operation = "settle_debit_note" /\ n \in SupplierPayment /\ Fresh(n)
              /\ r \in DebitNote /\ Acknowledged(r)
           \/ operation = "void_bill" /\ r \in Bill /\ n = None
           \/ operation = "void_note" /\ r \in DebitNote /\ n = None
    PROVE  SpendInv'
<1> DEFINE s == [phase |-> "locked", operation |-> operation, row |-> r,
                 payment |-> n, allocations |-> allocations]
<1>1. /\ UNCHANGED <<bill, supplierPayment, note>> /\ accountLock[r] = None
      /\ spend'[p] = s /\ \A q \in Request \ {p} : spend'[q] = spend[q]
      /\ \A t \in Row : accountLock'[t] = IF t = r THEN p ELSE accountLock[t]
    BY DEF LockFirst, Free, accounts, SpendInv, AccountsTypeOK
<1>2. /\ \A b \in Bill : /\ ActiveAllocatedTotal(b)' = ActiveAllocatedTotal(b)
                         /\ NoActivePayment(b)' = NoActivePayment(b) /\ Total(b)' = Total(b)
      /\ \A d \in DebitNote : ActiveSettlementTotal(d)' = ActiveSettlementTotal(d)
    BY <1>1 DEF ActiveAllocatedTotal, ActiveSettlementTotal, NoActivePayment, Posted, Amount, Total
<1>3. ASSUME NEW q \in Request, q # p PROVE Claimed(q)' /\ StillHolds(q)'
    <2>1. \A t \in Row : accountLock[t] = q => accountLock'[t] = q
        BY <1>1, SupplierAccountsAssumption
    <2>2. SpentNaturally
        BY SpentTypes DEF SpendInv
    <2>3. /\ \A b \in Bill : ActiveAllocatedTotal(b)' <= ActiveAllocatedTotal(b)
          /\ \A d \in DebitNote : ActiveSettlementTotal(d)' <= ActiveSettlementTotal(d)
        BY <1>2, <2>2 DEF SpentNaturally
    <2>4. QED BY <1>1, <1>2, <1>3, <2>1, <2>3, HoldsOn
<1>4. Claimed(p)' /\ StillHolds(p)'
    <2>1. Claimed(p)'
        BY <1>1 DEF Claimed, Paying, Fresh, Acknowledged
    <2>2. StillHolds(p)'
        BY <1>1 DEF StillHolds
    <2>3. QED BY <2>1, <2>2
<1>5. PaymentsApart'
    <2>1. n # None => \A q \in Request : spend[q].payment # n
        BY SupplierAccountsAssumption DEF Fresh
    <2>2. QED BY <1>1, <2>1 DEF SpendInv, PaymentsApart
<1>6. (\A b \in Bill : BillKept(b)') /\ \A d \in DebitNote : NoteKept(d)'
    BY <1>1, <1>2 DEF SpendInv, BillKept, NoteKept
<1>7. \A q \in Request : Claimed(q)' /\ StillHolds(q)'
    BY <1>3, <1>4
<1>8. QED BY <1>5, <1>6, <1>7 DEF SpendInv

\* A request checks: it locks the bills it is to pay, which no other has, and reads.
LEMMA SpendChecks ==
    ASSUME SpendInv, AccountsTypeOK', NEW p \in Request,
           CheckPayment(p) \/ CheckVoidBill(p) \/ CheckVoidNote(p)
    PROVE  SpendInv'
<1> DEFINE s == spend[p]
           bs == IF CheckPayment(p) THEN Allocated(s.allocations) ELSE {}
<1>1. /\ UNCHANGED <<bill, supplierPayment, note>>
      /\ spend'[p] = [s EXCEPT !.phase = "checked"] /\ \A q \in Request \ {p} : spend'[q] = spend[q]
      /\ s.phase = "locked" /\ s \in Spends
    BY DEF CheckPayment, CheckVoidBill, CheckVoidNote, Checked, accounts, SpendInv, AccountsTypeOK
<1>2. /\ \A t \in Row : accountLock'[t] = IF t \in bs THEN p ELSE accountLock[t]
      /\ \A b \in bs : b \in Bill /\ b \in Row /\ accountLock[b] = None
    BY DEF CheckPayment, CheckVoidBill, CheckVoidNote, LockBills, Free, Allocated, Row, SpendInv,
        AccountsTypeOK
<1>3. /\ spend'[p].phase = "checked" /\ spend'[p].operation = s.operation /\ spend'[p].row = s.row
      /\ spend'[p].payment = s.payment /\ spend'[p].allocations = s.allocations
    BY <1>1 DEF Spends
<1>4. /\ \A b \in Bill : /\ ActiveAllocatedTotal(b)' = ActiveAllocatedTotal(b)
                         /\ NoActivePayment(b)' = NoActivePayment(b) /\ Total(b)' = Total(b)
      /\ \A d \in DebitNote : ActiveSettlementTotal(d)' = ActiveSettlementTotal(d)
    BY <1>1 DEF ActiveAllocatedTotal, ActiveSettlementTotal, NoActivePayment, Posted, Amount, Total
<1>5. \A q \in Request : \A t \in Row : accountLock[t] = q => accountLock'[t] = q
    BY <1>2, SupplierAccountsAssumption
<1>6. ASSUME NEW q \in Request, q # p PROVE Claimed(q)' /\ StillHolds(q)'
    <2>1. SpentNaturally
        BY SpentTypes DEF SpendInv
    <2>2. /\ \A b \in Bill : ActiveAllocatedTotal(b)' <= ActiveAllocatedTotal(b)
          /\ \A d \in DebitNote : ActiveSettlementTotal(d)' <= ActiveSettlementTotal(d)
        BY <1>4, <2>1 DEF SpentNaturally
    <2>3. QED BY <1>1, <1>4, <1>5, <1>6, <2>2, HoldsOn
<1>7. Claimed(p)'
    <2>1. Claimed(p)
        BY DEF SpendInv
    <2> HIDE DEF s
    <2>2. QED BY <1>1, <1>3, <1>5, <2>1 DEF Claimed, s
<1>8. StillHolds(p)'
    <2>1. ASSUME s.operation \in Paying, NEW b \in Allocated(s.allocations)
          PROVE  accountLock'[b] = p /\ BillHasLeft(b, s.allocations[b])'
        <3>1. CheckPayment(p) /\ b \in Bill /\ b \in Row
            BY <2>1 DEF CheckVoidBill, CheckVoidNote, Paying, Allocated, Row
        <3>2. BillHasLeft(b, s.allocations[b])
            BY <2>1, <3>1 DEF CheckPayment
        <3>3. BillHasLeft(b, s.allocations[b])'
            BY <1>1, <1>3, <1>4, <3>1, <3>2 DEF BillHasLeft
        <3>4. QED BY <1>2, <2>1, <3>1, <3>3
    <2>2. ASSUME s.operation = "settle_debit_note"
          PROVE  NoteHasLeft(s.row, Amount(s.allocations))'
        <3>1. CheckPayment(p) /\ s.row \in DebitNote
            BY <2>2 DEF CheckVoidBill, CheckVoidNote, SpendInv, Claimed
        <3>2. NoteHasLeft(s.row, Amount(s.allocations))
            BY <2>2, <3>1 DEF CheckPayment
        <3>3. QED BY <1>1, <1>3, <1>4, <3>1, <3>2 DEF NoteHasLeft, Amount
    <2>3. ASSUME s.operation = "void_bill"
          PROVE  NoActivePayment(s.row)'
        <3>1. s.row \in Bill /\ NoActivePayment(s.row)
            BY <2>3 DEF CheckPayment, CheckVoidBill, CheckVoidNote, SpendInv, Claimed
        <3>2. QED BY <1>3, <1>4, <3>1
    <2>4. ASSUME s.operation = "void_note"
          PROVE  ActiveSettlementTotal(s.row)' = 0
        <3>1. s.row \in DebitNote /\ ActiveSettlementTotal(s.row) = 0
            BY <2>4 DEF CheckPayment, CheckVoidBill, CheckVoidNote, SpendInv, Claimed
        <3>2. QED BY <1>3, <1>4, <3>1
    <2>5. QED BY <1>3, <2>1, <2>2, <2>3, <2>4 DEF StillHolds
<1>9. PaymentsApart'
    <2>1. \A q \in Request : spend'[q].payment = spend[q].payment
        BY <1>1, <1>3
    <2>2. QED BY <2>1 DEF SpendInv, PaymentsApart
<1>10. (\A b \in Bill : BillKept(b)') /\ \A d \in DebitNote : NoteKept(d)'
    BY <1>1, <1>4 DEF SpendInv, BillKept, NoteKept
<1>11. QED BY <1>6, <1>7, <1>8, <1>9, <1>10 DEF SpendInv

\* A request ends, and its locks: what the others have locked stays so.
LEMMA SpendEnds ==
    ASSUME SpendInv, NEW p \in Request, EndSpend(p)
    PROVE  /\ spend'[p] = NoSpend /\ \A q \in Request \ {p} : spend'[q] = spend[q]
           /\ \A q \in Request \ {p}, r \in Row : accountLock[r] = q => accountLock'[r] = q
           /\ Claimed(p)' /\ StillHolds(p)' /\ PaymentsApart'
<1>1. /\ spend'[p] = NoSpend /\ \A q \in Request \ {p} : spend'[q] = spend[q]
      /\ \A q \in Request \ {p}, r \in Row : accountLock[r] = q => accountLock'[r] = q
    BY DEF EndSpend, SpendInv, AccountsTypeOK
<1>2. Claimed(p)' /\ StillHolds(p)'
    BY <1>1 DEF Claimed, StillHolds, NoSpend, Paying
<1>3. PaymentsApart'
    BY <1>1 DEF SpendInv, PaymentsApart, NoSpend
<1>4. QED BY <1>1, <1>2, <1>3

\* A bill that nothing is paid of is voided, a note that nothing is settled with, or neither.
LEMMA SpendVoids ==
    ASSUME SpendInv, AccountsTypeOK', NEW p \in Request, VoidBillRow(p) \/ VoidNoteRow(p) \/ FailSpend(p)
    PROVE  SpendInv'
<1> DEFINE s == spend[p]
           bs == IF VoidBillRow(p) THEN {s.row} ELSE {}
           ds == IF VoidNoteRow(p) THEN {s.row} ELSE {}
<1>1. EndSpend(p) /\ UNCHANGED supplierPayment
    BY DEF VoidBillRow, VoidNoteRow, FailSpend, accounts
<1>2. /\ \A b \in Bill \ bs : bill'[b] = bill[b]
      /\ \A d \in DebitNote \ ds : note'[d] = note[d]
    BY DEF VoidBillRow, VoidNoteRow, FailSpend, accounts, SpendInv, AccountsTypeOK
<1>3. \A b \in bs : b \in Bill /\ b \in Row /\ accountLock[b] = p /\ NoActivePayment(b)
                    /\ bill'[b].status = "voided"
    BY DEF VoidBillRow, SpendInv, AccountsTypeOK, Claimed, StillHolds, Bills
<1>4. \A d \in ds : d \in DebitNote /\ d \in Row /\ accountLock[d] = p /\ ActiveSettlementTotal(d) = 0
    BY DEF VoidNoteRow, SpendInv, Claimed, StillHolds
<1>5. /\ \A b \in Bill : /\ ActiveAllocatedTotal(b)' = ActiveAllocatedTotal(b)
                         /\ NoActivePayment(b)' = NoActivePayment(b)
      /\ \A d \in DebitNote : ActiveSettlementTotal(d)' = ActiveSettlementTotal(d)
    BY <1>1 DEF ActiveAllocatedTotal, ActiveSettlementTotal, NoActivePayment, Posted, Amount
<1> HIDE DEF bs, ds
<1>6. ASSUME NEW q \in Request, q # p PROVE Claimed(q)' /\ StillHolds(q)'
    <2>1. SpentNaturally
        BY SpentTypes DEF SpendInv
    <2>2. /\ \A b \in Bill : ActiveAllocatedTotal(b)' <= ActiveAllocatedTotal(b)
          /\ \A d \in DebitNote : ActiveSettlementTotal(d)' <= ActiveSettlementTotal(d)
        BY <1>5, <2>1 DEF SpentNaturally
    <2>3. /\ \A b \in Bill : accountLock[b] = q => bill'[b] = bill[b]
          /\ \A d \in DebitNote : accountLock[d] = q => note'[d] = note[d]
        BY <1>2, <1>3, <1>4, <1>6
    <2>4. spend'[q] = spend[q] /\ \A r \in Row : accountLock[r] = q => accountLock'[r] = q
        BY <1>1, <1>6, SpendEnds
    <2>5. QED BY <1>1, <1>5, <2>2, <2>3, <2>4, HoldsOn
<1>7. Claimed(p)' /\ StillHolds(p)' /\ PaymentsApart'
    BY <1>1, SpendEnds
<1>8. ASSUME NEW b \in Bill PROVE BillKept(b)'
    <2>1. CASE b \in bs
        BY <1>3, <1>5, <2>1 DEF BillKept
    <2>2. CASE b \notin bs
        BY <1>2, <1>5, <2>2 DEF SpendInv, BillKept, Total
    <2>3. QED BY <2>1, <2>2
<1>9. ASSUME NEW d \in DebitNote PROVE NoteKept(d)'
    <2>1. CASE d \in ds
        <3>1. note'[d].total \in Nat
            BY DEF AccountsTypeOK, Notes
        <3>2. QED BY <1>4, <1>5, <2>1, <3>1 DEF NoteKept
    <2>2. CASE d \notin ds
        BY <1>2, <1>5, <2>2 DEF SpendInv, NoteKept
    <2>3. QED BY <2>1, <2>2
<1>10. QED BY <1>6, <1>7, <1>8, <1>9 DEF SpendInv

\* A payment is posted: what it allocates was left of its bills, which it has locked, and
\* its amount was left of its note.
LEMMA SpendPosts ==
    ASSUME SpendInv, AccountsTypeOK', NEW p \in Request, PostPayment(p)
    PROVE  SpendInv'
<1> DEFINE s == spend[p]
           credit == s.operation = "settle_debit_note"
           n == s.payment
           row == [status |-> "posted", allocations |-> s.allocations,
                   note |-> IF credit THEN s.row ELSE None,
                   position |-> IF credit THEN NextSettlementPosition(s.row) ELSE None]
<1>1. /\ EndSpend(p) /\ UNCHANGED <<bill, note>> /\ s.phase = "checked"
      /\ supplierPayment' = [supplierPayment EXCEPT ![n] = row] /\ n # None
    BY DEF PostPayment
<1>2. Claimed(p) /\ StillHolds(p) /\ AccountsTypeOK /\ s.allocations \in [Bill -> Nat]
      /\ Amount(s.allocations) \in Nat
    BY SpendFormed DEF SpendInv
<1>3. /\ s.operation \in Paying /\ n \in SupplierPayment /\ supplierPayment[n].status = "none"
      /\ credit => s.row \in DebitNote /\ note[s.row].status = "acknowledged"
                   /\ s.row \in Row /\ accountLock[s.row] = p
    BY <1>1, <1>2 DEF Claimed
<1>4. /\ supplierPayment'[n] = row
      /\ \A m \in SupplierPayment \ {n} : supplierPayment'[m] = supplierPayment[m]
      /\ row \in SupplierPayments
    <2>1. supplierPayment'[n] = row
        BY <1>1, <1>2, <1>3 DEF AccountsTypeOK
    <2>2. supplierPayment'[n] \in SupplierPayments
        BY <1>3 DEF AccountsTypeOK
    <2> HIDE DEF row
    <2>3. QED BY <1>1, <1>2, <2>1, <2>2 DEF AccountsTypeOK
<1>5. row.status = "posted" /\ row.allocations = s.allocations
      /\ row.note = IF credit THEN s.row ELSE None
    OBVIOUS
<1> HIDE DEF row
<1>6. SpentNaturally /\ SpentNaturally'
    BY SpentTypes, SpentTypesNext DEF SpendInv
<1>7. /\ \A b \in Bill : ActiveAllocatedTotal(b)' = ActiveAllocatedTotal(b) + s.allocations[b]
      /\ \A d \in DebitNote : ActiveSettlementTotal(d)' =
            IF credit /\ s.row = d THEN ActiveSettlementTotal(d) + Amount(s.allocations)
                                   ELSE ActiveSettlementTotal(d)
    <2>1. /\ \A b \in Bill : ActiveAllocatedTotal(b)' =
                (ActiveAllocatedTotal(b) - Adding(supplierPayment[n], b)) + Adding(row, b)
          /\ \A d \in DebitNote : ActiveSettlementTotal(d)' =
                (ActiveSettlementTotal(d) - Crediting(supplierPayment[n], d)) + Crediting(row, d)
        BY <1>1, <1>2, <1>3, <1>4, SpentMoves
    <2>2. /\ \A b \in Bill : Adding(supplierPayment[n], b) = 0 /\ Adding(row, b) = s.allocations[b]
          /\ \A d \in DebitNote : Crediting(supplierPayment[n], d) = 0
        BY <1>3, <1>5 DEF Adding, Crediting
    <2>3. \A d \in DebitNote : Crediting(row, d) = IF credit /\ s.row = d THEN Amount(s.allocations) ELSE 0
        BY <1>5, SupplierAccountsAssumption DEF Crediting
    <2>4. \A b \in Bill : s.allocations[b] \in Nat
        BY <1>2
    <2> HIDE DEF s
    <2>5. \A b \in Bill : ActiveAllocatedTotal(b)' = ActiveAllocatedTotal(b) + s.allocations[b]
        BY <1>6, <2>1, <2>2, <2>4 DEF SpentNaturally
    <2>6. ASSUME NEW d \in DebitNote
          PROVE  ActiveSettlementTotal(d)' = IF credit /\ s.row = d
                                             THEN ActiveSettlementTotal(d) + Amount(s.allocations)
                                             ELSE ActiveSettlementTotal(d)
        BY <1>2, <1>6, <2>1, <2>2, <2>3 DEF SpentNaturally
    <2>7. QED BY <2>5, <2>6
<1>8. \A b \in Bill : NoActivePayment(b) /\ s.allocations[b] = 0 => NoActivePayment(b)'
    BY <1>4, <1>5 DEF NoActivePayment, Posted
<1>9. \A b \in Bill : \/ s.allocations[b] = 0
                      \/ accountLock[b] = p /\ BillHasLeft(b, s.allocations[b])
    BY <1>1, <1>2, <1>3 DEF StillHolds, Allocated
<1>10. ASSUME NEW q \in Request, q # p PROVE Claimed(q)' /\ StillHolds(q)'
    <2>1. spend'[q] = spend[q] /\ \A r \in Row : accountLock[r] = q => accountLock'[r] = q
        BY <1>1, <1>10, SpendEnds
    <2>2. \A b \in Bill : accountLock[b] = q =>
               /\ bill'[b] = bill[b] /\ ActiveAllocatedTotal(b)' <= ActiveAllocatedTotal(b)
               /\ NoActivePayment(b) => NoActivePayment(b)'
        <3> SUFFICES ASSUME NEW b \in Bill, accountLock[b] = q
                     PROVE  /\ ActiveAllocatedTotal(b)' <= ActiveAllocatedTotal(b)
                            /\ NoActivePayment(b) => NoActivePayment(b)'
            BY <1>1
        <3>1. s.allocations[b] = 0
            BY <1>9, <1>10
        <3>2. QED BY <1>6, <1>7, <1>8, <3>1 DEF SpentNaturally
    <2>3. \A d \in DebitNote : accountLock[d] = q =>
               note'[d] = note[d] /\ ActiveSettlementTotal(d)' <= ActiveSettlementTotal(d)
        BY <1>1, <1>3, <1>6, <1>7, <1>10 DEF SpentNaturally
    <2>4. spend[q].operation \in Paying =>
              supplierPayment'[spend[q].payment].status = supplierPayment[spend[q].payment].status
        BY <1>1, <1>4, <1>10 DEF SpendInv, Claimed, PaymentsApart
    <2> HIDE DEF s, n
    <2>5. QED BY <2>1, <2>2, <2>3, <2>4, HoldsOn
<1>11. Claimed(p)' /\ StillHolds(p)' /\ PaymentsApart'
    BY <1>1, SpendEnds
<1>12. ASSUME NEW b \in Bill PROVE BillKept(b)'
    <2>1. Total(b) \in Nat /\ Total(b)' = Total(b) /\ bill'[b] = bill[b] /\ s.allocations[b] \in Nat
        BY <1>1, <1>2, SpendFormed DEF Total
    <2>2. /\ ActiveAllocatedTotal(b) \in Nat
          /\ ActiveAllocatedTotal(b)' = ActiveAllocatedTotal(b) + s.allocations[b]
        BY <1>6, <1>7 DEF SpentNaturally
    <2>3. BillKept(b)
        BY DEF SpendInv
    <2> HIDE DEF s
    <2>4. CASE s.allocations[b] = 0
        BY <1>8, <2>1, <2>2, <2>3, <2>4 DEF BillKept
    <2>5. CASE BillHasLeft(b, s.allocations[b])
        BY <2>1, <2>2, <2>5 DEF BillKept, BillHasLeft
    <2>6. QED BY <1>9, <2>4, <2>5
<1>13. ASSUME NEW d \in DebitNote PROVE NoteKept(d)'
    <2>1. note'[d] = note[d] /\ note[d].total \in Nat /\ ActiveSettlementTotal(d) \in Nat
        BY <1>1, <1>2, <1>6 DEF AccountsTypeOK, Notes, SpentNaturally
    <2>2. NoteKept(d)
        BY DEF SpendInv
    <2>3. CASE credit /\ s.row = d
        <3>1. note[d].status = "acknowledged" /\ NoteHasLeft(d, Amount(s.allocations))
            BY <1>1, <1>2, <1>3, <2>3 DEF StillHolds
        <3>2. ActiveSettlementTotal(d)' = ActiveSettlementTotal(d) + Amount(s.allocations)
            BY <1>7, <2>3
        <3> HIDE DEF s
        <3>3. QED BY <1>2, <2>1, <3>1, <3>2 DEF NoteKept, NoteHasLeft
    <2>4. CASE ~(credit /\ s.row = d)
        BY <1>7, <2>1, <2>2, <2>4 DEF NoteKept
    <2>5. QED BY <2>3, <2>4
<1>14. QED BY <1>10, <1>11, <1>12, <1>13 DEF SpendInv

\* A payment that credits a note has a position.
Numbered ==
    \A n \in SupplierPayment : supplierPayment[n].note # None => supplierPayment[n].position \in Nat

LEMMA PositionIsNumber ==
    ASSUME AccountsTypeOK, Numbered, NEW d \in DebitNote
    PROVE  NextSettlementPosition(d) \in Nat
<1> DEFINE S == {m \in SupplierPayment : supplierPayment[m].note = d}
           used == {supplierPayment[n].position : n \in S}
<1>1. IsFiniteSet(S)
    BY PostedFinite
<1>2. used \in SUBSET Nat
    BY SupplierAccountsAssumption DEF Numbered
<1>3. IsFiniteSet(used)
    <2> DEFINE f == [n \in S |-> supplierPayment[n].position]
    <2>1. f \in Surjection(S, used)
        BY DEF Surjection
    <2>2. QED BY <1>1, <2>1, FS_Surjection
<1>4. NextSettlementPosition(d) = IF used \subseteq {0} THEN 0 ELSE Max(used) + 1
    BY DEF NextSettlementPosition
<1> HIDE DEF used
<1>5. ~(used \subseteq {0}) => Max(used) \in Nat
    <2>1. SUFFICES ASSUME ~(used \subseteq {0}) PROVE Max(used) \in used
        BY <1>2
    <2>2. used \in SUBSET Int /\ used # {}
        BY <1>2, <2>1
    <2>3. QED BY <1>3, <2>2, MaxIn
<1>6. QED BY <1>4, <1>5

LEMMA NumberedNext ==
    ASSUME SpendInv, Numbered, [AccountsNext]_accountsVars
    PROVE  Numbered'
<1>1. CASE UNCHANGED supplierPayment
    BY <1>1 DEF Numbered
<1>2. ASSUME NEW n \in SupplierPayment, Reverse(n)
      PROVE  Numbered'
    <2>1. \A m \in SupplierPayment : /\ supplierPayment'[m].note = supplierPayment[m].note
                                     /\ supplierPayment'[m].position = supplierPayment[m].position
        BY <1>2 DEF Reverse, SpendInv, AccountsTypeOK, SupplierPayments
    <2>2. QED BY <2>1 DEF Numbered
<1>3. ASSUME NEW p \in Request, PostPayment(p)
      PROVE  Numbered'
    <2> DEFINE s == spend[p]
    <2>1. /\ s.operation = "settle_debit_note" => s.row \in DebitNote
          /\ s.payment \in SupplierPayment /\ AccountsTypeOK
        BY <1>3 DEF PostPayment, SpendInv, Claimed
    <2>2. s.operation = "settle_debit_note" => NextSettlementPosition(s.row) \in Nat
        BY <2>1, PositionIsNumber
    <2>3. /\ \A m \in SupplierPayment \ {s.payment} : supplierPayment'[m] = supplierPayment[m]
          /\ supplierPayment'[s.payment].note = IF s.operation = "settle_debit_note" THEN s.row ELSE None
          /\ supplierPayment'[s.payment].position =
                IF s.operation = "settle_debit_note" THEN NextSettlementPosition(s.row) ELSE None
        BY <1>3, <2>1 DEF PostPayment, AccountsTypeOK
    <2> HIDE DEF s
    <2>4. QED BY <2>2, <2>3 DEF Numbered
<1>4. CASE UNCHANGED accountsVars \/ OrderIssued \/ OrderCancelled \/ \E q \in Quantities : ReceiptPosted(q)
    <2>1. UNCHANGED supplierPayment
        BY <1>4 DEF accountsVars, accounts, OrderIssued, OrderCancelled, MoveOrder, ReceiptPosted
    <2>2. QED BY <1>1, <2>1
<1>5. ASSUME NEW b \in Bill, BillStep(b)
      PROVE  Numbered'
    <2>1. UNCHANGED supplierPayment
        BY <1>5 DEF BillStep, CreateSupplierBill, AddBillLine, UpdateBillLine, DeleteBillLine,
            SubmitSupplierBill, ApproveSupplierBill, RunThreeWayMatch, SetBill
    <2>2. QED BY <1>1, <2>1
<1>6. ASSUME NEW d \in DebitNote, NoteStep(d)
      PROVE  Numbered'
    <2>1. UNCHANGED supplierPayment
        BY <1>6 DEF NoteStep, CreateDebitNote, UpdateDebitNoteLine, DeleteDebitNoteLine,
            AddDebitNoteLine, EditDebitNoteLines, IssueDebitNote, AcknowledgeDebitNote, SetNote
    <2>2. QED BY <1>1, <2>1
<1>7. ASSUME NEW p \in Request, SpendStep(p)
      PROVE  Numbered'
    <2>1. CASE ~PostPayment(p)
        <3>1. UNCHANGED supplierPayment
            BY <1>7, <2>1 DEF SpendStep, RecordSupplierPayment, SettleDebitNote, VoidSupplierBill,
                VoidDebitNote, LockFirst, CheckPayment, CheckVoidBill, CheckVoidNote, Checked,
                VoidBillRow, VoidNoteRow, FailSpend, EndSpend, accounts
        <3>2. QED BY <1>1, <3>1
    <2>2. QED BY <1>3, <2>1
<1>8. ASSUME NEW n \in SupplierPayment, ReverseSupplierPayment(n) \/ ReverseCreditSettlement(n)
      PROVE  Numbered'
    BY <1>2, <1>8 DEF ReverseSupplierPayment, ReverseCreditSettlement
<1>9. QED BY <1>4, <1>5, <1>6, <1>7, <1>8 DEF AccountsNext

\* What a step leaves of the types besides those of the bills.
RestTyped ==
    /\ orderStatus' \in {"draft", "issued", "cancelled"}
    /\ supplierPayment' \in [SupplierPayment -> SupplierPayments]
    /\ note' \in [DebitNote -> Notes]
    /\ accountLock' \in [Row -> Request \cup {None}]
    /\ spend' \in [Request -> Spends]

LEMMA NotesTyped ==
    ASSUME AccountsTypeOK, NEW d \in DebitNote, NoteStep(d)
    PROVE  RestTyped
<1>1. \E become \in {"draft", "issued", "acknowledged"}, total \in Nat : SetNote(d, become, total)
    <2>1. note[d].total \in Nat /\ Quantities \in SUBSET Nat
        BY SupplierAccountsAssumption DEF AccountsTypeOK, Notes, Quantities
    <2>2. ASSUME NEW t \in Quantities,
                 \/ CreateDebitNote(d, t) \/ UpdateDebitNoteLine(d, t)
                 \/ DeleteDebitNoteLine(d, t) \/ AddDebitNoteLine(d, t)
          PROVE  \E total \in Nat : SetNote(d, "draft", total)
        <3>1. t \in Nat /\ note[d].total + t \in Nat /\ (t <= note[d].total => note[d].total - t \in Nat)
            BY <2>1
        <3>2. QED BY <2>2, <3>1 DEF CreateDebitNote, UpdateDebitNoteLine, DeleteDebitNoteLine,
            AddDebitNoteLine, EditDebitNoteLines
    <2>3. CASE IssueDebitNote(d) \/ AcknowledgeDebitNote(d)
        BY <2>1, <2>3 DEF IssueDebitNote, AcknowledgeDebitNote
    <2>4. QED BY <2>2, <2>3 DEF NoteStep
<1>2. QED BY <1>1 DEF SetNote, AccountsTypeOK, Notes, RestTyped

LEMMA SpendTyped ==
    ASSUME SpendInv, Numbered, NEW p \in Request, SpendStep(p)
    PROVE  RestTyped
<1>t. AccountsTypeOK /\ Claimed(p) /\ spend[p] \in Spends /\ p # None
    BY SupplierAccountsAssumption DEF SpendInv, AccountsTypeOK
<1>n. Nothing \in [Bill -> Nat] /\ NoSpend \in Spends
    BY DEF NoSpend, Nothing, Spends
<1>1. ASSUME NEW operation \in {"record_payment", "settle_debit_note", "void_bill", "void_note"},
             NEW r \in Row, NEW n \in SupplierPayment \cup {None}, NEW allocations \in [Bill -> Nat],
             LockFirst(p, operation, r, n, allocations)
      PROVE  RestTyped
    <2>1. [phase |-> "locked", operation |-> operation, row |-> r,
           payment |-> n, allocations |-> allocations] \in Spends
        BY DEF Spends
    <2>2. QED BY <1>1, <1>t, <2>1 DEF LockFirst, RestTyped, AccountsTypeOK, accounts
<1>2. ASSUME NEW n \in SupplierPayment, NEW allocations \in [Bill -> 0 .. MaxQuantity],
             \/ RecordSupplierPayment(p, n, allocations)
             \/ \E d \in DebitNote : SettleDebitNote(p, d, n, allocations)
      PROVE  RestTyped
    <2>1. allocations \in [Bill -> Nat]
        BY SupplierAccountsAssumption
    <2>2. QED BY <1>1, <1>2, <2>1 DEF RecordSupplierPayment, SettleDebitNote, Row
<1>3. ASSUME (\E b \in Bill : VoidSupplierBill(p, b)) \/ \E d \in DebitNote : VoidDebitNote(p, d)
      PROVE  RestTyped
    BY <1>1, <1>3, <1>n DEF VoidSupplierBill, VoidDebitNote, Row
<1>4. CASE CheckPayment(p) \/ CheckVoidBill(p) \/ CheckVoidNote(p)
    <2>1. [spend[p] EXCEPT !.phase = "checked"] \in Spends
        BY <1>t DEF Spends
    <2>2. spend' \in [Request -> Spends]
        BY <1>4, <1>t, <2>1 DEF CheckPayment, CheckVoidBill, CheckVoidNote, Checked, AccountsTypeOK
    <2>3. accountLock' \in [Row -> Request \cup {None}]
        BY <1>4, <1>t DEF CheckPayment, CheckVoidBill, CheckVoidNote, LockBills, AccountsTypeOK
    <2>4. QED BY <1>4, <1>t, <2>2, <2>3 DEF CheckPayment, CheckVoidBill, CheckVoidNote, Checked, AccountsTypeOK,
            RestTyped, accounts
<1>5. ASSUME EndSpend(p)
      PROVE  /\ spend' \in [Request -> Spends] /\ accountLock' \in [Row -> Request \cup {None}]
             /\ orderStatus' \in {"draft", "issued", "cancelled"}
    BY <1>5, <1>t, <1>n DEF EndSpend, AccountsTypeOK
<1>6. CASE PostPayment(p)
    <2> DEFINE s == spend[p]
               credit == s.operation = "settle_debit_note"
               row == [status |-> "posted", allocations |-> s.allocations,
                       note |-> IF credit THEN s.row ELSE None,
                       position |-> IF credit THEN NextSettlementPosition(s.row) ELSE None]
    <2>1. s.allocations \in [Bill -> Nat] /\ (credit => s.row \in DebitNote)
        BY <1>t DEF Spends, Claimed
    <2>2. credit => NextSettlementPosition(s.row) \in Nat
        BY <1>t, <2>1, PositionIsNumber
    <2>3. row \in SupplierPayments
        <3> DEFINE noted == IF credit THEN s.row ELSE None
                   placed == IF credit THEN NextSettlementPosition(s.row) ELSE None
        <3>1. noted \in DebitNote \cup {None} /\ placed \in Nat \cup {None}
            BY <2>1, <2>2
        <3>2. row = [status |-> "posted", allocations |-> s.allocations, note |-> noted, position |-> placed]
            OBVIOUS
        <3> HIDE DEF noted, placed, row, s
        <3>3. QED BY <2>1, <3>1, <3>2 DEF SupplierPayments
    <2>4. supplierPayment' = [supplierPayment EXCEPT ![s.payment] = row] /\ note' = note /\ EndSpend(p)
        BY <1>6 DEF PostPayment
    <2> HIDE DEF row
    <2>5. QED BY <1>5, <1>t, <2>3, <2>4 DEF AccountsTypeOK, RestTyped
<1>7. CASE VoidNoteRow(p)
    BY <1>5, <1>7, <1>t DEF VoidNoteRow, AccountsTypeOK, Notes, RestTyped
<1>8. CASE VoidBillRow(p) \/ FailSpend(p)
    BY <1>5, <1>8, <1>t DEF VoidBillRow, FailSpend, AccountsTypeOK, RestTyped, accounts
<1>9. QED BY <1>2, <1>3, <1>4, <1>6, <1>7, <1>8 DEF SpendStep

LEMMA AccountsStayTyped ==
    ASSUME SpendInv, BillsInv, Numbered, [AccountsNext]_accountsVars
    PROVE  AccountsTypeOK'
<1>1. BillsInv'
    BY BillsInvInductive
<1>2. RestTyped
    <2>1. CASE \/ UNCHANGED accountsVars \/ OrderIssued \/ OrderCancelled
               \/ \E q \in Quantities : ReceiptPosted(q)
        BY <2>1 DEF accountsVars, accounts, OrderIssued, OrderCancelled, MoveOrder, ReceiptPosted,
            SpendInv, AccountsTypeOK, RestTyped
    <2>2. ASSUME NEW b \in Bill, BillStep(b)
          PROVE  RestTyped
        BY <2>2 DEF BillStep, CreateSupplierBill, AddBillLine, UpdateBillLine, DeleteBillLine,
            SubmitSupplierBill, ApproveSupplierBill, RunThreeWayMatch, SetBill, SpendInv,
            AccountsTypeOK, RestTyped
    <2>3. ASSUME NEW n \in SupplierPayment, ReverseSupplierPayment(n) \/ ReverseCreditSettlement(n)
          PROVE  RestTyped
        BY <2>3 DEF ReverseSupplierPayment, ReverseCreditSettlement, Reverse, SpendInv, AccountsTypeOK,
            SupplierPayments, RestTyped
    <2>4. QED BY <2>1, <2>2, <2>3, NotesTyped, SpendTyped DEF AccountsNext, SpendInv
<1>3. QED BY <1>1, <1>2 DEF BillsInv, RestTyped, AccountsTypeOK

LEMMA SpendBegun ==
    ASSUME SpendInv, AccountsTypeOK', NEW p \in Request,
           \/ \E n \in SupplierPayment, allocations \in [Bill -> 0 .. MaxQuantity] :
                \/ RecordSupplierPayment(p, n, allocations)
                \/ \E d \in DebitNote : SettleDebitNote(p, d, n, allocations)
           \/ \E b \in Bill : VoidSupplierBill(p, b)
           \/ \E d \in DebitNote : VoidDebitNote(p, d)
    PROVE  SpendInv'
<1>1. ASSUME NEW n \in SupplierPayment, NEW allocations, RecordSupplierPayment(p, n, allocations)
      PROVE  SpendInv'
    <2>1. Supplier \in Row
        BY DEF Row
    <2>2. QED BY <1>1, <2>1, SpendBegins DEF RecordSupplierPayment
<1>2. ASSUME NEW n \in SupplierPayment, NEW allocations, NEW d \in DebitNote,
             SettleDebitNote(p, d, n, allocations)
      PROVE  SpendInv'
    <2>1. d \in Row
        BY DEF Row
    <2>2. QED BY <1>2, <2>1, SpendBegins DEF SettleDebitNote
<1>3. ASSUME NEW b \in Bill, VoidSupplierBill(p, b)
      PROVE  SpendInv'
    <2>1. b \in Row
        BY DEF Row
    <2>2. QED BY <1>3, <2>1, SpendBegins DEF VoidSupplierBill
<1>4. ASSUME NEW d \in DebitNote, VoidDebitNote(p, d)
      PROVE  SpendInv'
    <2>1. d \in Row
        BY DEF Row
    <2>2. QED BY <1>4, <2>1, SpendBegins DEF VoidDebitNote
<1>5. QED BY <1>1, <1>2, <1>3, <1>4

AccountsSound == SpendInv /\ BillsInv /\ Numbered

LEMMA AccountsSteps ==
    ASSUME AccountsSound, [AccountsNext]_accountsVars
    PROVE  AccountsSound'
<1>1. SpendInv /\ AccountsTypeOK' /\ BillsInv' /\ Numbered'
    BY AccountsStayTyped, BillsInvInductive, NumberedNext DEF AccountsSound
<1>2. CASE \/ UNCHANGED accountsVars \/ OrderIssued \/ OrderCancelled
           \/ \E q \in Quantities : ReceiptPosted(q)
    <2>1. UNCHANGED <<accounts, accountLock, spend>>
        BY <1>2 DEF accountsVars, OrderIssued, OrderCancelled, MoveOrder, ReceiptPosted
    <2>2. QED BY <1>1, <2>1, SpendOrder DEF AccountsSound
<1>3. ASSUME NEW p \in Request, SpendStep(p)
      PROVE  SpendInv'
    BY <1>1, <1>3, SpendBegun, SpendChecks, SpendPosts, SpendVoids DEF SpendStep
<1>4. ASSUME NEW n \in SupplierPayment, ReverseSupplierPayment(n) \/ ReverseCreditSettlement(n)
      PROVE  SpendInv'
    BY <1>1, <1>4, SpendReverse DEF ReverseSupplierPayment, ReverseCreditSettlement
<1>5. QED BY <1>1, <1>2, <1>3, <1>4, SpendBillStep, SpendNoteStep DEF AccountsNext, AccountsSound

LEMMA AccountsAtFirst == AccountsInit => AccountsSound
<1> SUFFICES ASSUME AccountsInit PROVE AccountsSound
    OBVIOUS
<1>1. AccountsTypeOK
    <2>1. NoBill \in Bills /\ NoNote \in Notes /\ Nothing \in [Bill -> Nat]
        BY DEF NoBill, Bills, NoNote, Notes, Nothing
    <2>2. NoSupplierPayment \in SupplierPayments /\ NoSpend \in Spends
        BY <2>1 DEF NoSupplierPayment, SupplierPayments, NoSpend, Spends
    <2>3. QED BY <2>1, <2>2 DEF AccountsInit, AccountsTypeOK
<1>2. Posted = {} /\ \A d \in DebitNote : note[d].status = "none"
    BY DEF AccountsInit, Posted, NoSupplierPayment, NoNote
<1>3. \A b \in Bill : BillKept(b)
    BY <1>2 DEF BillKept, NoActivePayment, AccountsInit, NoBill
<1>4. ASSUME NEW d \in DebitNote PROVE NoteKept(d)
    <2> DEFINE S == {m \in Posted : supplierPayment[m].note = d}
               f == [n \in S |-> Amount(supplierPayment[n].allocations)]
    <2>1. S = {} /\ ActiveSettlementTotal(d) = SumFunctionOnSet(f, S)
        BY <1>2 DEF ActiveSettlementTotal, SumFunction
    <2>2. ActiveSettlementTotal(d) = 0
        BY <2>1, SumEmpty
    <2>3. QED BY <1>2, <2>2 DEF NoteKept
<1>5. PaymentsApart /\ \A p \in Request : Claimed(p) /\ StillHolds(p)
    BY DEF AccountsInit, NoSpend, PaymentsApart, Claimed, StillHolds, Paying
<1>6. BillsInv /\ Numbered
    BY BillsInvAtFirst DEF Numbered, AccountsInit, NoSupplierPayment
<1>7. QED BY <1>1, <1>3, <1>4, <1>5, <1>6 DEF AccountsSound, SpendInv

\* However payments, settlements, reversals and voids interleave, what is paid of a bill
\* stays within its total and what a note credits within its own, for any suppliers' bills,
\* notes, payments and requests: what a request summed and the bills' rows cannot change
\* before it writes, for it has locked them.
THEOREM BillsNeverOverspent == AccountsSpec => []NothingOverspent
<1>1. AccountsSound /\ [AccountsNext]_accountsVars => AccountsSound'
    BY AccountsSteps
<1>2. AccountsSound => NothingOverspent
    BY DEF AccountsSound, SpendInv, NothingOverspent, BillKept, NoteKept
<1>3. QED BY <1>1, <1>2, AccountsAtFirst, PTL DEF AccountsSpec

\* For any bills, payments, notes and requests: bills, payments, notes and what every request
\* is to write keep their types (supplier_bill_service.py, supplier_payment_service.py).
THEOREM AccountsTyped == AccountsSpec => []AccountsTypeOK
<1>1. AccountsSound /\ [AccountsNext]_accountsVars => AccountsSound'
    BY AccountsSteps
<1>2. AccountsSound => AccountsTypeOK
    BY DEF AccountsSound, SpendInv
<1>3. QED BY <1>1, <1>2, AccountsAtFirst, PTL DEF AccountsSpec

-----------------------------------------------------------------------------
(* The accounts implement settlements that are whole and at once.          *)

\* A bill once approved and a debit note once acknowledged, told apart where they are alike.
Debt == {<<"bill", b>> : b \in Bill} \cup {<<"note", d>> : d \in DebitNote}

BillOwed(b) == IF bill[b].status = "approved" THEN Total(b) ELSE 0

NoteOwed(d) == IF note[d].status = "acknowledged" THEN note[d].total ELSE 0

Owed == [t \in Debt |-> IF t[1] = "bill" THEN BillOwed(t[2]) ELSE NoteOwed(t[2])]

Balance == [t \in Debt |-> IF t[1] = "bill" THEN ActiveAllocatedTotal(t[2])
                                            ELSE ActiveSettlementTotal(t[2])]

Settling(row) == [t \in Debt |-> IF t[1] = "bill" THEN row.allocations[t[2]]
                                 ELSE IF row.note = t[2] THEN Amount(row.allocations) ELSE 0]

Settlement == [n \in SupplierPayment |-> [status  |-> supplierPayment[n].status,
                                          amounts |-> Settling(supplierPayment[n])]]

Accounts == INSTANCE Settlements WITH Payment <- SupplierPayment, Sum <- Nat,
                                      owed <- Owed, settled <- Balance, payment <- Settlement

\* The mapped state at one debt and one payment, so that no step below need expand it.
LEMMA OfBill ==
    ASSUME NEW b \in Bill
    PROVE  /\ <<"bill", b>> \in Debt
           /\ Owed[<<"bill", b>>] = BillOwed(b) /\ Balance[<<"bill", b>>] = ActiveAllocatedTotal(b)
           /\ \A row : Settling(row)[<<"bill", b>>] = row.allocations[b]
<1>1. QED BY DEF Debt, Owed, Balance, Settling

LEMMA OfNote ==
    ASSUME NEW d \in DebitNote
    PROVE  /\ <<"note", d>> \in Debt
           /\ Owed[<<"note", d>>] = NoteOwed(d)
           /\ Balance[<<"note", d>>] = ActiveSettlementTotal(d)
           /\ \A row : Settling(row)[<<"note", d>>] =
                           IF row.note = d THEN Amount(row.allocations) ELSE 0
<1>1. QED BY DEF Debt, Owed, Balance, Settling

LEMMA Debts ==
    ASSUME NEW t \in Debt
    PROVE  \/ \E b \in Bill : t = <<"bill", b>>
           \/ \E d \in DebitNote : t = <<"note", d>>
<1>1. QED BY DEF Debt

LEMMA SettlementsMapped ==
    /\ DOMAIN Owed = Debt /\ Owed = [t \in Debt |-> Owed[t]]
    /\ DOMAIN Balance = Debt /\ Balance = [t \in Debt |-> Balance[t]]
    /\ \A row : Settling(row) = [t \in Debt |-> Settling(row)[t]]
<1>1. QED BY DEF Owed, Balance, Settling

\* A step that neither moves a payment nor what is owed is no step of the settlements.
LEMMA SettlementsStay ==
    ASSUME UNCHANGED <<bill, supplierPayment, note>>
    PROVE  UNCHANGED Accounts!settlementsVars
<1>1. UNCHANGED Owed
    BY DEF Owed, BillOwed, NoteOwed, Total
<1>2. UNCHANGED Balance
    BY DEF Balance, ActiveAllocatedTotal, ActiveSettlementTotal, Posted, Amount
<1>3. UNCHANGED Settlement
    BY DEF Settlement, Settling, Amount
<1>4. QED BY <1>1, <1>2, <1>3 DEF Accounts!settlementsVars

\* Nor is what is settled, as long as no payment moves.
LEMMA NothingSettles ==
    ASSUME UNCHANGED supplierPayment
    PROVE  UNCHANGED <<Balance, Settlement>>
<1>1. UNCHANGED Balance
    BY DEF Balance, ActiveAllocatedTotal, ActiveSettlementTotal, Posted, Amount
<1>2. UNCHANGED Settlement
    BY DEF Settlement, Settling, Amount
<1>3. QED BY <1>1, <1>2

\* One debt moves that nothing is settled of: it arises, or it is cancelled.
LEMMA OneDebtMoves ==
    ASSUME NEW t \in Debt, UNCHANGED supplierPayment, Balance[t] = 0, Owed'[t] \in Nat,
           \A u \in Debt \ {t} : Owed'[u] = Owed[u], Owed[t] = 0 \/ Owed'[t] = 0
    PROVE  Accounts!SettlementsNext
<1>1. UNCHANGED <<Balance, Settlement>>
    BY NothingSettles
<1>2. Owed' = [Owed EXCEPT ![t] = Owed'[t]]
    <2>1. Owed' = [u \in Debt |-> Owed'[u]]
        BY DEF Owed
    <2>2. DOMAIN Owed = Debt
        BY SettlementsMapped
    <2> QED BY <2>1, <2>2
<1>3. CASE Owed[t] = 0
    <2>1. Accounts!Owe(t, Owed'[t])
        BY <1>1, <1>2, <1>3 DEF Accounts!Owe
    <2>2. QED BY <2>1 DEF Accounts!SettlementsNext
<1>4. CASE Owed'[t] = 0
    <2>1. Accounts!Cancel(t)
        BY <1>1, <1>2, <1>4 DEF Accounts!Cancel
    <2>2. QED BY <2>1 DEF Accounts!SettlementsNext
<1>5. QED BY <1>3, <1>4

\* A bill is edited, matched, approved or voided: only the last finds it approved.
LEMMA BillMoves ==
    ASSUME SpendInv, AccountsTypeOK', NEW b \in Bill, UNCHANGED <<supplierPayment, note>>,
           \A c \in Bill \ {b} : bill'[c] = bill[c], NoActivePayment(b),
           bill[b].status # "approved" \/ bill'[b].status # "approved"
    PROVE  Accounts!SettlementsNext
<1> DEFINE t == <<"bill", b>>
<1>1. t \in Debt /\ Balance[t] = 0
    BY OfBill, NothingAllocated
<1>2. Owed[t] = BillOwed(b) /\ Owed'[t] = BillOwed(b)'
    BY OfBill DEF Owed, Debt
<1>3. BillOwed(b)' \in Nat
    <2>1. bill'[b].quantity \in Nat /\ bill'[b].price \in Nat
        BY DEF AccountsTypeOK, Bills
    <2>2. QED BY <2>1 DEF BillOwed, Total
<1>4. \A u \in Debt \ {t} : Owed'[u] = Owed[u]
    BY DEF Owed, Debt, BillOwed, NoteOwed, Total
<1>5. Owed[t] = 0 \/ Owed'[t] = 0
    BY <1>2 DEF BillOwed
<1> HIDE DEF t
<1>6. QED BY <1>1, <1>2, <1>3, <1>4, <1>5, OneDebtMoves

\* A note is edited, issued, acknowledged or voided.
LEMMA NoteMoves ==
    ASSUME SpendInv, AccountsTypeOK', NEW d \in DebitNote, UNCHANGED <<supplierPayment, bill>>,
           \A e \in DebitNote \ {d} : note'[e] = note[e], ActiveSettlementTotal(d) = 0,
           note[d].status # "acknowledged" \/ note'[d].status # "acknowledged"
    PROVE  Accounts!SettlementsNext
<1> DEFINE t == <<"note", d>>
<1>1. t \in Debt /\ Balance[t] = 0
    BY OfNote
<1>2. Owed[t] = NoteOwed(d) /\ Owed'[t] = NoteOwed(d)'
    BY OfNote DEF Owed, Debt
<1>3. NoteOwed(d)' \in Nat
    BY DEF AccountsTypeOK, Notes, NoteOwed
<1>4. \A u \in Debt \ {t} : Owed'[u] = Owed[u]
    BY DEF Owed, Debt, BillOwed, NoteOwed, Total
<1>5. Owed[t] = 0 \/ Owed'[t] = 0
    BY <1>2 DEF NoteOwed
<1> HIDE DEF t
<1>6. QED BY <1>1, <1>2, <1>3, <1>4, <1>5, OneDebtMoves

\* The row of a payment is replaced: it settles what it did not, or no longer what it did.
LEMMA PaymentMoves ==
    ASSUME AccountsTypeOK, AccountsTypeOK', NEW n \in SupplierPayment, NEW row \in SupplierPayments,
           supplierPayment' = [supplierPayment EXCEPT ![n] = row]
    PROVE  /\ \A t \in Debt : /\ Balance[t] \in Nat /\ Settling(row)[t] \in Nat
                              /\ Settling(supplierPayment[n])[t] \in Nat
           /\ supplierPayment[n].status = "none" /\ row.status = "posted" =>
                Balance' = [t \in Debt |-> Balance[t] + Settling(row)[t]]
           /\ supplierPayment[n].status = "posted" /\ row.status = "reversed" =>
                Balance' = [t \in Debt |-> Balance[t] - Settling(supplierPayment[n])[t]]
           /\ Settlement' = [Settlement EXCEPT ![n] = [status |-> row.status, amounts |-> Settling(row)]]
<1> DEFINE was == supplierPayment[n]
           on  == IF was.status = "posted" THEN 1 ELSE 0
           off == IF row.status = "posted" THEN 1 ELSE 0
<1>1. was \in SupplierPayments
    BY DEF AccountsTypeOK
<1>2. SpentNaturally
    BY SpentTypes
<1>3. \A paid \in SupplierPayments, t \in Debt : Settling(paid)[t] \in Nat
    <2> SUFFICES ASSUME NEW paid \in SupplierPayments, NEW t \in Debt PROVE Settling(paid)[t] \in Nat
        OBVIOUS
    <2>1. paid.allocations \in [Bill -> Nat] /\ Amount(paid.allocations) \in Nat
        BY AmountType DEF SupplierPayments
    <2>2. ASSUME NEW b \in Bill, t = <<"bill", b>> PROVE Settling(paid)[t] \in Nat
        BY <2>1, <2>2, OfBill
    <2>3. ASSUME NEW d \in DebitNote, t = <<"note", d>> PROVE Settling(paid)[t] \in Nat
        BY <2>1, <2>3, OfNote
    <2>4. QED BY <2>2, <2>3, Debts
<1>4. ASSUME NEW t \in Debt
      PROVE  /\ Balance[t] \in Nat
             /\ Balance'[t] = (Balance[t] - (IF was.status = "posted" THEN Settling(was)[t] ELSE 0))
                                  + (IF row.status = "posted" THEN Settling(row)[t] ELSE 0)
    <2>1. CASE \E b \in Bill : t = <<"bill", b>>
        <3>1. PICK b \in Bill : t = <<"bill", b>>
            BY <2>1
        <3>2. /\ Balance[t] = ActiveAllocatedTotal(b) /\ Settling(was)[t] = was.allocations[b]
              /\ Settling(row)[t] = row.allocations[b]
            BY <3>1, OfBill
        <3>3. Balance'[t] = ActiveAllocatedTotal(b)'
            BY <1>4, <3>1 DEF Balance
        <3>4. ActiveAllocatedTotal(b)' = (ActiveAllocatedTotal(b) - Adding(was, b)) + Adding(row, b)
            BY SpentMoves
        <3>5. ActiveAllocatedTotal(b) \in Nat
            BY <1>2 DEF SpentNaturally
        <3> HIDE DEF was
        <3>6. QED BY <3>2, <3>3, <3>4, <3>5 DEF Adding
    <2>2. CASE \E d \in DebitNote : t = <<"note", d>>
        <3>1. PICK d \in DebitNote : t = <<"note", d>>
            BY <2>2
        <3>2. /\ Balance[t] = ActiveSettlementTotal(d)
              /\ Settling(was)[t] = IF was.note = d THEN Amount(was.allocations) ELSE 0
              /\ Settling(row)[t] = IF row.note = d THEN Amount(row.allocations) ELSE 0
            BY <3>1, OfNote
        <3>3. Balance'[t] = ActiveSettlementTotal(d)'
            BY <1>4, <3>1 DEF Balance
        <3>4. ActiveSettlementTotal(d)' =
                  (ActiveSettlementTotal(d) - Crediting(was, d)) + Crediting(row, d)
            BY SpentMoves
        <3>5. ActiveSettlementTotal(d) \in Nat
            BY <1>2 DEF SpentNaturally
        <3> HIDE DEF was
        <3>6. QED BY <3>2, <3>3, <3>4, <3>5 DEF Crediting
    <2>3. QED BY <2>1, <2>2, Debts
<1>5. Balance' = [t \in Debt |-> Balance'[t]]
    BY DEF Balance
<1>6. Settlement' = [Settlement EXCEPT ![n] = [status |-> row.status, amounts |-> Settling(row)]]
    <2>1. \A m \in SupplierPayment : supplierPayment'[m] = IF m = n THEN row ELSE supplierPayment[m]
        BY DEF AccountsTypeOK
    <2>2. Settlement' = [m \in SupplierPayment |-> [status |-> supplierPayment'[m].status,
                                                    amounts |-> Settling(supplierPayment'[m])]]
        BY DEF Settlement, Settling, Amount
    <2>3. QED BY <2>1, <2>2 DEF Settlement
<1> HIDE DEF was
<1>7. ASSUME was.status = "none", row.status = "posted"
      PROVE  Balance' = [t \in Debt |-> Balance[t] + Settling(row)[t]]
    <2>1. \A t \in Debt : Balance'[t] = Balance[t] + Settling(row)[t]
        BY <1>3, <1>4, <1>7
    <2>2. QED BY <1>5, <2>1
<1>8. ASSUME was.status = "posted", row.status = "reversed"
      PROVE  Balance' = [t \in Debt |-> Balance[t] - Settling(was)[t]]
    <2>1. \A t \in Debt : Balance'[t] = Balance[t] - Settling(was)[t]
        BY <1>1, <1>3, <1>4, <1>8
    <2>2. QED BY <1>5, <2>1
<1>9. QED BY <1>1, <1>3, <1>4, <1>6, <1>7, <1>8 DEF was

\* What is settled of a debt is within what is owed.
LEMMA WithinOwed ==
    ASSUME SpendInv, NEW t \in Debt
    PROVE  Owed[t] \in Nat /\ Balance[t] \in Nat /\ Balance[t] <= Owed[t]
<1>1. AccountsTypeOK /\ SpentNaturally
    BY SpentTypes DEF SpendInv
<1>2. ASSUME NEW b \in Bill
      PROVE  /\ BillOwed(b) \in Nat /\ ActiveAllocatedTotal(b) \in Nat
             /\ ActiveAllocatedTotal(b) <= BillOwed(b)
    <2>1. bill[b].quantity \in Nat /\ bill[b].price \in Nat
        BY <1>1 DEF AccountsTypeOK, Bills
    <2>2. Total(b) \in Nat
        BY <2>1 DEF Total
    <2>3. QED BY <1>1, <2>2, NothingAllocated DEF SpendInv, BillKept, BillOwed, SpentNaturally
<1>3. ASSUME NEW d \in DebitNote
      PROVE  /\ NoteOwed(d) \in Nat /\ ActiveSettlementTotal(d) \in Nat
             /\ ActiveSettlementTotal(d) <= NoteOwed(d)
    BY <1>1 DEF SpendInv, NoteKept, NoteOwed, AccountsTypeOK, Notes, SpentNaturally
<1>4. CASE \E b \in Bill : t = <<"bill", b>>
    BY <1>2, <1>4, OfBill
<1>5. CASE \E d \in DebitNote : t = <<"note", d>>
    BY <1>3, <1>5, OfNote
<1>6. QED BY <1>4, <1>5, Debts

\* What a request posts is left of the bills it pays and of the note it settles with.
LEMMA PostFits ==
    ASSUME SpendInv, AccountsTypeOK', NEW p \in Request, PostPayment(p)
    PROVE  \E n \in SupplierPayment, row \in SupplierPayments :
             /\ supplierPayment' = [supplierPayment EXCEPT ![n] = row]
             /\ supplierPayment[n].status = "none" /\ row.status = "posted"
             /\ \A b \in Bill : row.allocations[b] = 0 \/ BillHasLeft(b, row.allocations[b])
             /\ \A d \in DebitNote : row.note = d =>
                  note[d].status = "acknowledged" /\ NoteHasLeft(d, Amount(row.allocations))
<1> DEFINE s == spend[p]
           credit == s.operation = "settle_debit_note"
           n == s.payment
           row == [status |-> "posted", allocations |-> s.allocations,
                   note |-> IF credit THEN s.row ELSE None,
                   position |-> IF credit THEN NextSettlementPosition(s.row) ELSE None]
<1>1. /\ supplierPayment' = [supplierPayment EXCEPT ![n] = row] /\ n # None
      /\ s.phase = "checked"
    BY DEF PostPayment
<1>2. Claimed(p) /\ StillHolds(p) /\ AccountsTypeOK /\ s.allocations \in [Bill -> Nat]
    BY SpendFormed DEF SpendInv
<1>3. /\ s.operation \in Paying /\ n \in SupplierPayment /\ supplierPayment[n].status = "none"
      /\ credit => s.row \in DebitNote /\ note[s.row].status = "acknowledged"
    BY <1>1, <1>2 DEF Claimed
<1>4. row \in SupplierPayments
    <2>1. supplierPayment'[n] = row
        BY <1>1, <1>2, <1>3 DEF AccountsTypeOK
    <2>2. supplierPayment'[n] \in SupplierPayments
        BY <1>3 DEF AccountsTypeOK
    <2> HIDE DEF row
    <2>3. QED BY <2>1, <2>2
<1>5. row.status = "posted" /\ row.allocations = s.allocations
      /\ row.note = IF credit THEN s.row ELSE None
    OBVIOUS
<1> HIDE DEF row
<1>6. \A b \in Bill : row.allocations[b] = 0 \/ BillHasLeft(b, row.allocations[b])
    BY <1>1, <1>2, <1>3, <1>5 DEF StillHolds, Allocated
<1>7. \A d \in DebitNote : row.note = d =>
          note[d].status = "acknowledged" /\ NoteHasLeft(d, Amount(row.allocations))
    BY <1>1, <1>2, <1>3, <1>5, SupplierAccountsAssumption DEF StillHolds
<1>8. QED BY <1>1, <1>3, <1>4, <1>5, <1>6, <1>7

LEMMA PostPays ==
    ASSUME SpendInv, AccountsTypeOK', NEW p \in Request, PostPayment(p)
    PROVE  Accounts!SettlementsNext
<1>1. PICK n \in SupplierPayment, row \in SupplierPayments :
          /\ supplierPayment' = [supplierPayment EXCEPT ![n] = row]
          /\ supplierPayment[n].status = "none" /\ row.status = "posted"
          /\ \A b \in Bill : row.allocations[b] = 0 \/ BillHasLeft(b, row.allocations[b])
          /\ \A d \in DebitNote : row.note = d =>
               note[d].status = "acknowledged" /\ NoteHasLeft(d, Amount(row.allocations))
    BY PostFits
<1> DEFINE amounts == Settling(row)
<1>2. AccountsTypeOK /\ UNCHANGED <<bill, note>>
    BY DEF PostPayment, SpendInv
<1>3. /\ Balance' = [t \in Debt |-> Balance[t] + amounts[t]]
      /\ Settlement' = [Settlement EXCEPT ![n] = [status |-> "posted", amounts |-> amounts]]
      /\ \A t \in Debt : amounts[t] \in Nat
    BY <1>1, <1>2, PaymentMoves
<1>4. amounts \in [Debt -> Nat]
    BY <1>3, SettlementsMapped
<1>5. ASSUME NEW t \in Debt PROVE amounts[t] <= Owed[t] - Balance[t]
    <2>1. amounts[t] = 0 \/ amounts[t] <= Owed[t] - Balance[t]
        <3>1. ASSUME NEW b \in Bill, t = <<"bill", b>> PROVE amounts[t] = 0 \/ amounts[t] <= Owed[t] - Balance[t]
            BY <1>1, <3>1, OfBill DEF BillHasLeft, BillOwed
        <3>2. ASSUME NEW d \in DebitNote, t = <<"note", d>>
              PROVE  amounts[t] = 0 \/ amounts[t] <= Owed[t] - Balance[t]
            BY <1>1, <3>2, OfNote DEF NoteHasLeft, NoteOwed
        <3>3. QED BY <3>1, <3>2, Debts
    <2> HIDE DEF amounts
    <2>2. QED BY <1>3, <2>1, WithinOwed
<1>6. UNCHANGED Owed
    BY <1>2 DEF Owed, BillOwed, NoteOwed, Total
<1>7. Settlement[n].status = "none"
    BY <1>1 DEF Settlement
<1> HIDE DEF amounts
<1>8. Accounts!Pay(n, amounts)
    BY <1>3, <1>5, <1>6, <1>7 DEF Accounts!Pay, Accounts!Left
<1>9. QED BY <1>4, <1>8 DEF Accounts!SettlementsNext

LEMMA ReverseTakesBack ==
    ASSUME SpendInv, AccountsTypeOK', NEW n \in SupplierPayment, Reverse(n)
    PROVE  Accounts!SettlementsNext
<1> DEFINE was == supplierPayment[n]
           row == [was EXCEPT !.status = "reversed"]
<1>1. /\ UNCHANGED <<bill, note>> /\ supplierPayment' = [supplierPayment EXCEPT ![n] = row]
      /\ was.status = "posted" /\ was \in SupplierPayments /\ AccountsTypeOK
    BY DEF Reverse, SpendInv, AccountsTypeOK
<1>2. row \in SupplierPayments /\ row.status = "reversed" /\ row.allocations = was.allocations
      /\ row.note = was.note
    BY <1>1 DEF SupplierPayments
<1>3. Settling(row) = Settling(was)
    BY <1>2 DEF Settling
<1> HIDE DEF row
<1>4. /\ Balance' = [t \in Debt |-> Balance[t] - Settling(was)[t]]
      /\ Settlement' = [Settlement EXCEPT ![n] = [status |-> "reversed", amounts |-> Settling(was)]]
    BY <1>1, <1>2, <1>3, PaymentMoves
<1>5. Settlement[n] = [status |-> "posted", amounts |-> Settling(was)]
    BY <1>1 DEF Settlement
<1>6. UNCHANGED Owed
    BY <1>1 DEF Owed, BillOwed, NoteOwed, Total
<1> HIDE DEF was
<1>7. Settlement' = [Settlement EXCEPT ![n].status = "reversed"]
    <2>1. [Settlement[n] EXCEPT !.status = "reversed"] = [status |-> "reversed", amounts |-> Settling(was)]
        BY <1>5
    <2>2. QED BY <1>4, <2>1
<1>8. Settlement[n].status = "posted" /\ Settlement[n].amounts = Settling(was)
    BY <1>5
<1>9. Balance' = [t \in Debt |-> Balance[t] - Settlement[n].amounts[t]]
    BY <1>4, <1>8
<1>10. Accounts!TakeBack(n)
    BY <1>6, <1>7, <1>8, <1>9 DEF Accounts!TakeBack
<1>11. QED BY <1>10 DEF Accounts!SettlementsNext

\* What a step of the accounts does to the settlements: one step of theirs, or nothing.
Settles == [Accounts!SettlementsNext]_(Accounts!settlementsVars)

LEMMA BillSettles ==
    ASSUME SpendInv, AccountsTypeOK', NEW b \in Bill, BillStep(b)
    PROVE  Settles
<1>1. bill[b].status # "approved" /\ \E to : SetBill(b, to)
    BY DEF BillStep, CreateSupplierBill, AddBillLine, UpdateBillLine, DeleteBillLine, EnsureDraft,
        SubmitSupplierBill, ApproveSupplierBill, RunThreeWayMatch
<1>2. UNCHANGED <<supplierPayment, note>> /\ \A c \in Bill \ {b} : bill'[c] = bill[c]
    BY <1>1 DEF SetBill, SpendInv, AccountsTypeOK
<1>3. NoActivePayment(b)
    BY <1>1 DEF SpendInv, BillKept
<1>4. QED BY <1>1, <1>2, <1>3, BillMoves DEF Settles

LEMMA NoteSettles ==
    ASSUME SpendInv, AccountsTypeOK', NEW d \in DebitNote, NoteStep(d)
    PROVE  Settles
<1>1. note[d].status # "acknowledged" /\ \E become, total : SetNote(d, become, total)
    BY DEF NoteStep, CreateDebitNote, UpdateDebitNoteLine, DeleteDebitNoteLine, AddDebitNoteLine,
        EditDebitNoteLines, IssueDebitNote, AcknowledgeDebitNote
<1>2. UNCHANGED <<supplierPayment, bill>> /\ \A e \in DebitNote \ {d} : note'[e] = note[e]
    BY <1>1 DEF SetNote, SpendInv, AccountsTypeOK
<1>3. ActiveSettlementTotal(d) = 0
    BY <1>1 DEF SpendInv, NoteKept
<1>4. QED BY <1>1, <1>2, <1>3, NoteMoves DEF Settles

LEMMA SpendSettles ==
    ASSUME SpendInv, AccountsTypeOK', NEW p \in Request, SpendStep(p)
    PROVE  Settles
<1> DEFINE r == spend[p].row
<1>1. CASE PostPayment(p)
    BY <1>1, PostPays DEF Settles
<1>2. CASE VoidBillRow(p)
    <2>1. r \in Bill /\ NoActivePayment(r) /\ UNCHANGED <<supplierPayment, note>>
          /\ bill'[r].status = "voided" /\ \A c \in Bill \ {r} : bill'[c] = bill[c]
        BY <1>2 DEF VoidBillRow, SpendInv, AccountsTypeOK, Bills, Claimed, StillHolds
    <2>2. QED BY <2>1, BillMoves DEF Settles
<1>3. CASE VoidNoteRow(p)
    <2>1. r \in DebitNote /\ ActiveSettlementTotal(r) = 0 /\ UNCHANGED <<supplierPayment, bill>>
          /\ note'[r].status = "voided" /\ \A e \in DebitNote \ {r} : note'[e] = note[e]
        BY <1>3 DEF VoidNoteRow, SpendInv, AccountsTypeOK, Notes, Claimed, StillHolds
    <2>2. QED BY <2>1, NoteMoves DEF Settles
<1>4. CASE ~(PostPayment(p) \/ VoidBillRow(p) \/ VoidNoteRow(p))
    <2>1. UNCHANGED <<bill, supplierPayment, note>>
        BY <1>4 DEF SpendStep, RecordSupplierPayment, SettleDebitNote, VoidSupplierBill,
            VoidDebitNote, LockFirst, CheckPayment, CheckVoidBill, CheckVoidNote, Checked,
            FailSpend, accounts
    <2>2. QED BY <2>1, SettlementsStay DEF Settles
<1>5. QED BY <1>1, <1>2, <1>3, <1>4

LEMMA AccountsSettle ==
    ASSUME AccountsSound, [AccountsNext]_accountsVars
    PROVE  Settles
<1>1. SpendInv /\ AccountsTypeOK'
    BY AccountsStayTyped DEF AccountsSound
<1>2. CASE \/ UNCHANGED accountsVars \/ OrderIssued \/ OrderCancelled
           \/ \E q \in Quantities : ReceiptPosted(q)
    <2>1. UNCHANGED <<bill, supplierPayment, note>>
        BY <1>2 DEF accountsVars, accounts, OrderIssued, OrderCancelled, MoveOrder, ReceiptPosted
    <2>2. QED BY <2>1, SettlementsStay DEF Settles
<1>3. ASSUME NEW n \in SupplierPayment, ReverseSupplierPayment(n) \/ ReverseCreditSettlement(n)
      PROVE  Settles
    BY <1>1, <1>3, ReverseTakesBack DEF ReverseSupplierPayment, ReverseCreditSettlement, Settles
<1>4. QED BY <1>1, <1>2, <1>3, BillSettles, NoteSettles, SpendSettles DEF AccountsNext

LEMMA SettlementsAtFirst == AccountsInit => Accounts!SettlementsInit
<1> SUFFICES ASSUME AccountsInit PROVE Accounts!SettlementsInit
    OBVIOUS
<1>1. \A t \in Debt : Owed[t] = 0
    BY DEF AccountsInit, Debt, Owed, BillOwed, NoteOwed, NoBill, NoNote
<1>2. \A t \in Debt : Balance[t] = 0
    <2>1. SpendInv
        BY AccountsAtFirst DEF AccountsSound
    <2>2. QED BY <1>1, <2>1, WithinOwed
<1>3. Owed = Accounts!Zero /\ Balance = Accounts!Zero
    BY <1>1, <1>2, SettlementsMapped DEF Accounts!Zero
<1>4. Settling(NoSupplierPayment) = Accounts!Zero
    BY SupplierAccountsAssumption DEF Settling, NoSupplierPayment, Nothing, Debt, Accounts!Zero
<1>5. Settlement = [n \in SupplierPayment |-> [status |-> "none", amounts |-> Accounts!Zero]]
    <2>1. NoSupplierPayment.status = "none"
        BY DEF NoSupplierPayment
    <2>2. Settlement = [n \in SupplierPayment |-> [status |-> NoSupplierPayment.status,
                                                   amounts |-> Settling(NoSupplierPayment)]]
        BY DEF AccountsInit, Settlement
    <2>3. QED BY <1>4, <2>1, <2>2
<1>6. QED BY <1>3, <1>5 DEF Accounts!SettlementsInit

\* For any bills, payments, notes and requests, the accounts implement settlements made whole
\* and at once: though a payment is locked, summed and written in three steps among those of
\* others, it takes effect as if it had found every balance as it left it, what is owed never
\* changes while anything of it is settled, and a reversal gives back what was taken
\* (supplier_payment_service.py, supplier_return_service.py).
THEOREM AccountsImplementSettlements == AccountsSpec => Accounts!SettlementsSpec
<1>1. AccountsSound /\ [AccountsNext]_accountsVars => AccountsSound'
    BY AccountsSteps
<1>2. AccountsSound /\ [AccountsNext]_accountsVars => Settles
    BY AccountsSettle
<1>3. QED BY <1>1, <1>2, AccountsAtFirst, SettlementsAtFirst, PTL
          DEF AccountsSpec, Accounts!SettlementsSpec, Settles

-----------------------------------------------------------------------------
(* Documents.                                                              *)

Agreeing(row) == (row.integrity_status = "mismatch") = (row.upload_state = "quarantined")

DocumentsSound ==
    /\ document \in [Document -> DocumentRows]
    /\ version \in [Document -> Seq(VersionRows)]
    /\ \A d \in Document : document[d].current_version_number = Len(version[d])
    /\ \A d \in Document : document[d].status = "none" => Len(version[d]) = 0
    /\ \A d \in Document : \A n \in 1 .. Len(version[d]) :
         <<d, n>> \notin verified => Agreeing(version[d][n])

\* What is filed of a document is alone, and numbers its version next.
DocumentFiled(p) ==
    LET f == filing[p]
        d == f.document
    IN f.step = "document" =>
         /\ d \in Document
         /\ f.number \in {0, Len(version[d]) + 1}
         /\ f.row.current_version_number = IF f.number = 0 THEN Len(version[d]) ELSE f.number
         /\ f.number # 0 => document[d].status = "active"
         /\ f.row.status # "none"
         /\ \A q \in Request \ {p} : filing[q].step = "document" => filing[q].document # d

\* A verification that does not overlap saw the version as it is, and what evidence
\* rests on is still reliable.
VersionFiled(p) ==
    LET f == filing[p]
        d == f.document
        n == f.number
    IN f.step \in {"verify", "locked", "evidence"} =>
         /\ d \in Document /\ n \in 1 .. Len(version[d])
         /\ <<d, n>> \notin verified =>
              /\ IF f.step = "evidence" THEN Reliable(version[d][n]) ELSE f.seen = version[d][n]
              /\ \A q \in Request \ {p} :
                   ~(/\ filing[q].document = d /\ filing[q].number = n
                     /\ filing[q].step \in {"verify", "locked"})

DocumentsInv ==
    /\ filing \in [Request -> Filings]
    /\ DocumentsSound
    /\ \A p \in Request : DocumentFiled(p) /\ VersionFiled(p)

LEMMA NothingFiled ==
    /\ NotFiling \in Filings /\ NotFiling.step = "none"
    /\ NoDocument \in DocumentRows /\ NewVersion \in VersionRows /\ Agreeing(NewVersion)
<1>1. QED BY DEF NotFiling, Filings, NoDocument, DocumentRows, NewVersion, VersionRows, Agreeing

\* A request that files something: what the others filed stays as it was, and what is
\* filed now must be right and, of a document, alone.
LEMMA Filed ==
    ASSUME DocumentsInv, UNCHANGED <<document, version>>, verified \subseteq verified',
           NEW p \in Request, NEW f \in Filings, filing' = [filing EXCEPT ![p] = f],
           DocumentFiled(p)', VersionFiled(p)',
           f.step = "document" =>
               \A q \in Request \ {p} : filing[q].step = "document" => filing[q].document # f.document,
           f.step \in {"verify", "locked"} /\ <<f.document, f.number>> \notin verified' =>
               \A q \in Request \ {p} :
                   ~(/\ filing[q].document = f.document /\ filing[q].number = f.number
                     /\ filing[q].step \in {"verify", "locked", "evidence"})
    PROVE  DocumentsInv'
<1>1. filing' \in [Request -> Filings]
    BY DEF DocumentsInv
<1>2. DocumentsSound'
    BY DEF DocumentsInv, DocumentsSound
<1>3. filing'[p] = f /\ \A q \in Request \ {p} : filing'[q] = filing[q]
    BY DEF DocumentsInv
<1>4. ASSUME NEW q \in Request, q # p
      PROVE  DocumentFiled(q)'
    BY <1>3, <1>4 DEF DocumentsInv, DocumentFiled
<1>5. ASSUME NEW q \in Request, q # p
      PROVE  VersionFiled(q)'
    BY <1>3, <1>5 DEF DocumentsInv, VersionFiled
<1>6. QED BY <1>1, <1>2, <1>4, <1>5 DEF DocumentsInv

LEMMA Unfiled ==
    ASSUME DocumentsInv, UNCHANGED <<document, version, verified>>,
           NEW p \in Request, filing' = [filing EXCEPT ![p] = NotFiling]
    PROVE  DocumentsInv'
<1>1. filing'[p] = NotFiling
    BY DEF DocumentsInv
<1>2. DocumentFiled(p)' /\ VersionFiled(p)'
    BY <1>1, NothingFiled DEF DocumentFiled, VersionFiled
<1>3. QED BY <1>2, NothingFiled, Filed

LEMMA DocumentLocking ==
    ASSUME DocumentsInv, NEW p \in Request, NEW d \in Document, NEW row \in DocumentRows,
           NEW number \in Nat, LockDocument(p, d, row, number),
           number \in {0, Len(version[d]) + 1},
           row.current_version_number = IF number = 0 THEN Len(version[d]) ELSE number,
           number # 0 => document[d].status = "active", row.status # "none"
    PROVE  DocumentsInv'
<1> DEFINE f == [NotFiling EXCEPT !.step = "document", !.document = d, !.row = row,
                                  !.number = number]
<1>1. f \in Filings /\ f.step = "document" /\ f.document = d /\ f.row = row /\ f.number = number
    BY DEF NotFiling, Filings, NewVersion, VersionRows
<1>2. filing' = [filing EXCEPT ![p] = f] /\ UNCHANGED <<document, version, verified>>
    BY DEF LockDocument, File
<1>3. \A q \in Request \ {p} : filing[q].step = "document" => filing[q].document # f.document
    BY <1>1 DEF LockDocument, DocumentLocked
<1> HIDE DEF f
<1>4. filing'[p] = f /\ \A q \in Request \ {p} : filing'[q] = filing[q]
    BY <1>2 DEF DocumentsInv
<1>5. DocumentFiled(p)'
    BY <1>1, <1>2, <1>3, <1>4 DEF DocumentFiled
<1>6. VersionFiled(p)'
    BY <1>1, <1>4 DEF VersionFiled
<1>7. QED BY <1>1, <1>2, <1>3, <1>5, <1>6, Filed

LEMMA DocumentLockings ==
    ASSUME DocumentsInv, NEW p \in Request, NEW d \in Document,
           \/ CreateDocument(p, d) \/ UpdateDocument(p, d) \/ CreateVersion(p, d)
           \/ ArchiveDocument(p, d) \/ RestoreDocument(p, d)
    PROVE  DocumentsInv'
<1>1. /\ document[d] \in DocumentRows /\ document[d].current_version_number = Len(version[d])
      /\ Len(version[d]) \in Nat
      /\ document[d].status = "none" => Len(version[d]) = 0
    BY LenProperties DEF DocumentsInv, DocumentsSound
<1>2. CASE CreateDocument(p, d)
    <2> DEFINE row == [NoDocument EXCEPT !.status = "active"]
    <2>1. row \in DocumentRows /\ row.status # "none" /\ row.current_version_number = 0
        BY DEF NoDocument, DocumentRows
    <2>2. LockDocument(p, d, row, 0) /\ Len(version[d]) = 0
        BY <1>1, <1>2 DEF CreateDocument
    <2> HIDE DEF row
    <2>3. QED BY <2>1, <2>2, DocumentLocking
<1>3. CASE UpdateDocument(p, d) \/ ArchiveDocument(p, d) \/ RestoreDocument(p, d)
    <2>1. PICK s \in {"archived", "active"} :
             LockDocument(p, d, [document[d] EXCEPT !.status = s], 0)
        <3>1. document[d].status = "active" => [document[d] EXCEPT !.status = "active"] = document[d]
            BY <1>1 DEF DocumentRows
        <3>2. QED BY <1>3, <3>1 DEF UpdateDocument, Active, ArchiveDocument, RestoreDocument
    <2> DEFINE row == [document[d] EXCEPT !.status = s]
    <2>2. /\ row \in DocumentRows /\ row.current_version_number = Len(version[d])
          /\ row.status # "none"
        BY <1>1 DEF DocumentRows
    <2>3. LockDocument(p, d, row, 0)
        BY <2>1
    <2> HIDE DEF row
    <2>4. QED BY <2>2, <2>3, DocumentLocking
<1>4. CASE CreateVersion(p, d)
    <2> DEFINE n   == NextVersionNumber(d)
               row == [document[d] EXCEPT !.current_version_number = n]
    <2>1. n = Len(version[d]) + 1 /\ n \in Nat /\ n # 0
        BY <1>1 DEF NextVersionNumber
    <2>2. LockDocument(p, d, row, n) /\ document[d].status = "active"
        BY <1>4 DEF CreateVersion, Active
    <2>3. /\ row \in DocumentRows /\ row.current_version_number = n
          /\ row.status # "none"
        BY <1>1, <2>1, <2>2 DEF DocumentRows
    <2> HIDE DEF row, n
    <2>4. QED BY <2>1, <2>2, <2>3, DocumentLocking
<1>5. QED BY <1>2, <1>3, <1>4

\* A version that comes to a document is numbered next, and the others stay.
LEMMA VersionAppended ==
    ASSUME NEW versions \in Seq(VersionRows)
    PROVE  LET longer == Append(versions, NewVersion)
           IN /\ longer \in Seq(VersionRows) /\ Len(longer) = Len(versions) + 1
              /\ \A n \in 1 .. Len(versions) : longer[n] = versions[n]
              /\ longer[Len(versions) + 1] = NewVersion
<1>1. QED BY NothingFiled, AppendProperties

LEMMA DocumentCommitted ==
    ASSUME DocumentsInv, NEW p \in Request, CommitDocument(p)
    PROVE  /\ DocumentsInv'
           /\ \A d \in Document : document[d].status = "archived" => version'[d] = version[d]
<1> DEFINE f == filing[p]
           d == f.document
<1>1. f \in Filings /\ f.step = "document" /\ DocumentFiled(p)
    BY DEF DocumentsInv, CommitDocument
<1>2. d \in Document /\ f.row \in DocumentRows /\ version[d] \in Seq(VersionRows)
    BY <1>1 DEF DocumentFiled, Filings, DocumentsInv, DocumentsSound
<1>3. /\ document' = [document EXCEPT ![d] = f.row]
      /\ version' = IF f.number = 0 THEN version
                    ELSE [version EXCEPT ![d] = Append(version[d], NewVersion)]
      /\ filing' = [filing EXCEPT ![p] = NotFiling] /\ UNCHANGED verified
    BY DEF CommitDocument
<1>4. /\ version' \in [Document -> Seq(VersionRows)]
      /\ \A e \in Document \ {d} : version'[e] = version[e] /\ document'[e] = document[e]
      /\ document'[d] = f.row /\ document' \in [Document -> DocumentRows]
    BY <1>2, <1>3, VersionAppended DEF DocumentsInv, DocumentsSound
<1>5. /\ f.number = 0 => version'[d] = version[d]
      /\ f.number # 0 => /\ Len(version'[d]) = Len(version[d]) + 1
                         /\ \A n \in 1 .. Len(version[d]) : version'[d][n] = version[d][n]
                         /\ version'[d][Len(version[d]) + 1] = NewVersion
    BY <1>2, <1>3, VersionAppended DEF DocumentsInv, DocumentsSound
<1>6. Len(version[d]) \in Nat /\ Len(version[d]) <= Len(version'[d])
    BY <1>2, <1>5, LenProperties
<1>7. /\ filing' \in [Request -> Filings] /\ filing'[p] = NotFiling
      /\ \A q \in Request \ {p} : filing'[q] = filing[q]
    BY <1>3, NothingFiled DEF DocumentsInv
<1>8. f.row.current_version_number = Len(version'[d])
    <2>1. f.number \in {0, Len(version[d]) + 1}
        BY <1>1 DEF DocumentFiled
    <2>2. f.row.current_version_number = IF f.number = 0 THEN Len(version[d]) ELSE f.number
        BY <1>1 DEF DocumentFiled
    <2>3. QED BY <1>5, <1>6, <2>1, <2>2
<1>9. DocumentsSound'
    <2>1. ASSUME NEW e \in Document
          PROVE  document'[e].current_version_number = Len(version'[e])
        BY <1>4, <1>8 DEF DocumentsInv, DocumentsSound
    <2>2. ASSUME NEW e \in Document, document'[e].status = "none"
          PROVE  Len(version'[e]) = 0
        <3>1. f.row.status # "none"
            BY <1>1 DEF DocumentFiled
        <3>2. e # d
            BY <1>4, <2>2, <3>1
        <3>3. QED BY <1>4, <2>2, <3>2 DEF DocumentsInv, DocumentsSound
    <2>3. ASSUME NEW e \in Document, NEW n \in 1 .. Len(version'[e]), <<e, n>> \notin verified'
          PROVE  Agreeing(version'[e][n])
        <3>1. CASE n \in 1 .. Len(version[e]) /\ version'[e][n] = version[e][n]
            BY <1>3, <2>3, <3>1 DEF DocumentsInv, DocumentsSound
        <3>2. CASE n = Len(version[d]) + 1 /\ e = d /\ f.number # 0
            BY <1>5, <3>2, NothingFiled
        <3>3. QED
            <4>1. CASE e # d
                BY <1>4, <2>3, <3>1, <4>1
            <4>2. CASE e = d /\ f.number = 0
                BY <1>5, <2>3, <3>1, <4>2
            <4>3. CASE e = d /\ f.number # 0
                <5>1. n \in 1 .. Len(version[d]) + 1
                    BY <1>5, <2>3, <4>3
                <5>2. n \in 1 .. Len(version[d]) \/ n = Len(version[d]) + 1
                    BY <1>6, <5>1
                <5>3. QED BY <1>5, <3>1, <3>2, <4>3, <5>2
            <4>4. QED BY <4>1, <4>2, <4>3
    <2>4. QED BY <1>4, <2>1, <2>2, <2>3 DEF DocumentsSound
<1>10. ASSUME NEW q \in Request
       PROVE  DocumentFiled(q)'
    <2>1. CASE q = p
        BY <1>7, <2>1, NothingFiled DEF DocumentFiled
    <2>2. CASE q # p /\ filing[q].step # "document"
        BY <1>7, <2>2 DEF DocumentFiled
    <2>3. CASE q # p /\ filing[q].step = "document"
        <3>1. DocumentFiled(q)
            BY DEF DocumentsInv
        <3>2. filing[q].document \in Document \ {d}
            BY <1>1, <2>3, <3>1 DEF DocumentFiled
        <3>3. QED BY <1>4, <1>7, <2>3, <3>1, <3>2, NothingFiled DEF DocumentFiled
    <2>4. QED BY <2>1, <2>2, <2>3
<1>11. ASSUME NEW q \in Request
       PROVE  VersionFiled(q)'
    <2>1. CASE q = p
        BY <1>7, <2>1, NothingFiled DEF VersionFiled
    <2>2. CASE q # p /\ filing[q].step \notin {"verify", "locked", "evidence"}
        BY <1>7, <2>2 DEF VersionFiled
    <2>3. CASE q # p /\ filing[q].step \in {"verify", "locked", "evidence"}
        <3> DEFINE e == filing[q].document
                   n == filing[q].number
        <3>1. VersionFiled(q)
            BY DEF DocumentsInv
        <3>2. e \in Document /\ n \in 1 .. Len(version[e])
            BY <2>3, <3>1 DEF VersionFiled
        <3>3. n \in 1 .. Len(version'[e]) /\ version'[e][n] = version[e][n]
            <4>1. CASE e # d
                BY <1>4, <3>2, <4>1
            <4>2. CASE e = d
                <5>1. version'[d][n] = version[d][n]
                    BY <1>5, <3>2, <4>2
                <5>2. Len(version'[d]) \in Nat
                    BY <1>2, <1>4, LenProperties
                <5>3. QED BY <1>6, <3>2, <4>2, <5>1, <5>2
            <4>3. QED BY <4>1, <4>2
        <3>4. QED BY <1>3, <1>7, <2>3, <3>1, <3>2, <3>3, NothingFiled DEF VersionFiled
    <2>4. QED BY <2>1, <2>2, <2>3
<1>12. ASSUME NEW e \in Document, document[e].status = "archived"
       PROVE  version'[e] = version[e]
    <2>1. f.number # 0 => document[d].status = "active"
        BY <1>1 DEF DocumentFiled
    <2>2. QED BY <1>4, <1>5, <1>12, <2>1
<1>13. QED BY <1>7, <1>9, <1>10, <1>11, <1>12 DEF DocumentsInv

LEMMA Verifying ==
    ASSUME DocumentsInv, NEW p \in Request, NEW d \in Document, NEW n \in Numbers,
           NEW matched \in BOOLEAN, VerifyVersion(p, d, n, matched)
    PROVE  DocumentsInv'
<1> DEFINE f == [NotFiling EXCEPT !.step = "verify", !.document = d, !.number = n,
                                  !.seen = version[d][n], !.matched = matched]
<1>1. version[d] \in Seq(VersionRows) /\ n \in 1 .. Len(version[d])
    BY LenProperties DEF VerifyVersion, DocumentsInv, DocumentsSound
<1>2. version[d][n] \in VersionRows /\ n \in Nat
    BY <1>1, ElementOfSeq, LenProperties
<1>3. /\ f \in Filings /\ f.step = "verify" /\ f.document = d /\ f.number = n
      /\ f.seen = version[d][n]
    BY <1>2 DEF NotFiling, Filings, NoDocument, DocumentRows
<1>4. /\ filing' = [filing EXCEPT ![p] = f] /\ UNCHANGED <<document, version>>
      /\ filing[p] = NotFiling
    BY DEF VerifyVersion, File
<1>5. /\ verified \subseteq verified'
      /\ <<d, n>> \notin verified' => ~Others(d, n, {"verify", "locked", "evidence"})
    BY DEF VerifyVersion, Overlap
<1> HIDE DEF f
<1>6. <<d, n>> \notin verified' =>
        \A q \in Request \ {p} :
            ~(/\ filing[q].document = d /\ filing[q].number = n
              /\ filing[q].step \in {"verify", "locked", "evidence"})
    BY <1>5 DEF Others
<1>7. filing'[p] = f /\ \A q \in Request \ {p} : filing'[q] = filing[q]
    BY <1>4 DEF DocumentsInv
<1>8. DocumentFiled(p)'
    BY <1>3, <1>7 DEF DocumentFiled
<1>9. VersionFiled(p)'
    BY <1>1, <1>3, <1>4, <1>6, <1>7 DEF VersionFiled
<1>10. QED BY <1>3, <1>4, <1>5, <1>6, <1>8, <1>9, Filed

LEMMA Locking ==
    ASSUME DocumentsInv, NEW p \in Request, LockVersion(p)
    PROVE  DocumentsInv'
<1> DEFINE f == [filing[p] EXCEPT !.step = "locked"]
<1>1. filing[p] \in Filings /\ filing[p].step = "verify" /\ VersionFiled(p)
    BY DEF DocumentsInv, LockVersion
<1>2. /\ f \in Filings /\ f.step = "locked" /\ f.document = filing[p].document
      /\ f.number = filing[p].number /\ f.seen = filing[p].seen
    BY <1>1 DEF Filings
<1>3. filing' = [filing EXCEPT ![p] = f] /\ UNCHANGED <<document, version, verified>>
    BY DEF LockVersion
<1> HIDE DEF f
<1>4. filing'[p] = f /\ \A q \in Request \ {p} : filing'[q] = filing[q]
    BY <1>3 DEF DocumentsInv
<1>5. <<f.document, f.number>> \notin verified =>
        \A q \in Request \ {p} :
            ~(/\ filing[q].document = f.document /\ filing[q].number = f.number
              /\ filing[q].step \in {"verify", "locked", "evidence"})
    <2>1. ASSUME <<f.document, f.number>> \notin verified, NEW q \in Request \ {p},
                 filing[q].document = f.document, filing[q].number = f.number,
                 filing[q].step \in {"verify", "locked", "evidence"}
          PROVE  FALSE
        <3>1. VersionFiled(q)
            BY DEF DocumentsInv
        <3>2. QED BY <1>1, <1>2, <2>1, <3>1 DEF VersionFiled
    <2>2. QED BY <2>1
<1>6. DocumentFiled(p)'
    BY <1>2, <1>4 DEF DocumentFiled
<1>7. VersionFiled(p)'
    BY <1>1, <1>2, <1>3, <1>4 DEF VersionFiled
<1>8. QED BY <1>2, <1>3, <1>5, <1>6, <1>7, Filed

\* The columns a verification writes over the version it saw are its outcome.
LEMMA WrittenOver ==
    ASSUME NEW row \in VersionRows, NEW seen \in VersionRows, NEW matched \in BOOLEAN
    PROVE  LET written == Overwritten(row, Changed(seen, Outcome(matched)))
           IN /\ written \in VersionRows
              /\ seen = row => Agreeing(written)
<1> DEFINE o == Outcome(matched)
           columns == Changed(seen, o)
           written == Overwritten(row, columns)
<1>1. /\ o \in VersionRows /\ Agreeing(o)
      /\ DOMAIN o = {"integrity_status", "upload_state"}
    BY DEF Outcome, VersionRows, Agreeing
<1>2. DOMAIN row = {"integrity_status", "upload_state"}
    BY DEF VersionRows
<1>3. written = [c \in {"integrity_status", "upload_state"} |->
                    IF o[c] # seen[c] THEN o[c] ELSE row[c]]
    <2> HIDE DEF o
    <2>1. /\ columns = [c \in {"integrity_status", "upload_state"} \cap {c \in DOMAIN o : seen[c] # o[c]} |-> o[c]]
        BY <1>1 DEF Changed
    <2>2. QED BY <1>1, <1>2, <2>1 DEF Overwritten
<1> HIDE DEF written, columns
<1>4. /\ written.integrity_status = IF o.integrity_status # seen.integrity_status
                                    THEN o.integrity_status ELSE row.integrity_status
      /\ written.upload_state = IF o.upload_state # seen.upload_state
                                THEN o.upload_state ELSE row.upload_state
    BY <1>3
<1>5. written = [integrity_status |-> written.integrity_status, upload_state |-> written.upload_state]
    BY <1>3
<1>6. written \in VersionRows
    <2>1. /\ o.integrity_status \in {"unverified", "verified", "mismatch"}
          /\ row.integrity_status \in {"unverified", "verified", "mismatch"}
          /\ o.upload_state \in {"available", "quarantined"}
          /\ row.upload_state \in {"available", "quarantined"}
        BY <1>1 DEF VersionRows
    <2>2. /\ written.integrity_status \in {"unverified", "verified", "mismatch"}
          /\ written.upload_state \in {"available", "quarantined"}
        BY <1>4, <2>1
    <2>3. QED BY <1>5, <2>2 DEF VersionRows
<1>7. seen = row => Agreeing(written)
    BY <1>1, <1>4 DEF Agreeing
<1>8. QED BY <1>6, <1>7 DEF written, columns

LEMMA VerificationCommitted ==
    ASSUME DocumentsInv, NEW p \in Request, CommitVerification(p)
    PROVE  /\ DocumentsInv'
           /\ \A d \in Document : Len(version'[d]) = Len(version[d])
<1> DEFINE f == filing[p]
           d == f.document
           n == f.number
           written == Overwritten(version[d][n], Changed(f.seen, Outcome(f.matched)))
<1>1. f \in Filings /\ f.step = "locked" /\ VersionFiled(p)
    BY DEF DocumentsInv, CommitVerification
<1>2. /\ d \in Document /\ n \in 1 .. Len(version[d]) /\ version[d] \in Seq(VersionRows)
      /\ f.seen \in VersionRows /\ f.matched \in BOOLEAN
    BY <1>1 DEF VersionFiled, Filings, DocumentsInv, DocumentsSound
<1>3. version[d][n] \in VersionRows
    BY <1>2, ElementOfSeq
<1>4. /\ written \in VersionRows
      /\ f.seen = version[d][n] => Agreeing(written)
    BY <1>2, <1>3, WrittenOver
<1>5. /\ version' = [version EXCEPT ![d] = [version[d] EXCEPT ![n] = written]]
      /\ filing' = [filing EXCEPT ![p] = NotFiling] /\ UNCHANGED <<document, verified>>
    BY DEF CommitVerification
<1> HIDE DEF written
<1>6. [version[d] EXCEPT ![n] = written] \in Seq(VersionRows)
    BY <1>2, <1>4, ExceptSeq
<1>7. /\ Len([version[d] EXCEPT ![n] = written]) = Len(version[d])
      /\ [version[d] EXCEPT ![n] = written][n] = written
      /\ \A m \in 1 .. Len(version[d]) \ {n} : [version[d] EXCEPT ![n] = written][m] = version[d][m]
    BY <1>2, <1>4, ExceptSeq
<1>8. /\ version' \in [Document -> Seq(VersionRows)]
      /\ \A e \in Document : Len(version'[e]) = Len(version[e])
      /\ version'[d][n] = written
      /\ \A e \in Document : \A m \in 1 .. Len(version[e]) :
           <<e, m>> # <<d, n>> => version'[e][m] = version[e][m]
    BY <1>2, <1>5, <1>6, <1>7 DEF DocumentsInv, DocumentsSound
<1>9. /\ filing' \in [Request -> Filings] /\ filing'[p] = NotFiling
      /\ \A q \in Request \ {p} : filing'[q] = filing[q]
    BY <1>5, NothingFiled DEF DocumentsInv
<1>10. <<d, n>> \notin verified => Agreeing(written)
    BY <1>1, <1>4 DEF VersionFiled
<1>11. DocumentsSound'
    <2>1. ASSUME NEW e \in Document, NEW m \in 1 .. Len(version'[e]), <<e, m>> \notin verified'
          PROVE  Agreeing(version'[e][m])
        <3>1. CASE <<e, m>> = <<d, n>>
            BY <1>5, <1>8, <1>10, <2>1, <3>1
        <3>2. CASE <<e, m>> # <<d, n>>
            BY <1>5, <1>8, <2>1, <3>2 DEF DocumentsInv, DocumentsSound
        <3>3. QED BY <3>1, <3>2
    <2>2. QED BY <1>5, <1>8, <2>1 DEF DocumentsInv, DocumentsSound
<1>12. ASSUME NEW q \in Request
       PROVE  DocumentFiled(q)'
    <2>1. DocumentFiled(q)
        BY DEF DocumentsInv
    <2>2. QED BY <1>5, <1>8, <1>9, <2>1, NothingFiled DEF DocumentFiled
<1>13. ASSUME NEW q \in Request
       PROVE  VersionFiled(q)'
    <2>1. VersionFiled(q)
        BY DEF DocumentsInv
    <2>2. CASE q = p \/ filing[q].step \notin {"verify", "locked", "evidence"}
        BY <1>9, <2>2, NothingFiled DEF VersionFiled
    <2>3. CASE q # p /\ filing[q].step \in {"verify", "locked", "evidence"}
        <3> DEFINE e == filing[q].document
                   m == filing[q].number
        <3>1. e \in Document /\ m \in 1 .. Len(version[e])
            BY <2>1, <2>3 DEF VersionFiled
        <3>2. <<e, m>> \notin verified => <<e, m>> # <<d, n>>
            BY <1>1, <2>1, <2>3 DEF VersionFiled
        <3>3. <<e, m>> \notin verified => version'[e][m] = version[e][m]
            BY <1>8, <3>1, <3>2
        <3>4. m \in 1 .. Len(version'[e])
            BY <1>8, <3>1
        <3>5. QED BY <1>5, <1>9, <2>1, <2>3, <3>1, <3>3, <3>4, NothingFiled DEF VersionFiled
    <2>4. QED BY <2>2, <2>3
<1>14. QED BY <1>8, <1>9, <1>11, <1>12, <1>13 DEF DocumentsInv

LEMMA Relying ==
    ASSUME DocumentsInv, NEW p \in Request, NEW d \in Document, NEW n \in Numbers,
           CreateApprovalEvidence(p, d, n)
    PROVE  DocumentsInv'
<1> DEFINE f == [NotFiling EXCEPT !.step = "evidence", !.document = d, !.number = n]
<1>1. version[d] \in Seq(VersionRows) /\ n \in 1 .. Len(version[d]) /\ Reliable(version[d][n])
    BY LenProperties DEF CreateApprovalEvidence, DocumentsInv, DocumentsSound
<1>2. n \in Nat
    BY <1>1, LenProperties
<1>3. f \in Filings /\ f.step = "evidence" /\ f.document = d /\ f.number = n
    BY <1>2 DEF NotFiling, Filings, NoDocument, DocumentRows, NewVersion, VersionRows
<1>4. filing' = [filing EXCEPT ![p] = f] /\ UNCHANGED <<document, version>>
    BY DEF CreateApprovalEvidence, File
<1>5. /\ verified \subseteq verified'
      /\ <<d, n>> \notin verified' => ~Others(d, n, {"verify", "locked"})
    BY DEF CreateApprovalEvidence, Overlap
<1> HIDE DEF f
<1>6. <<d, n>> \notin verified' =>
        \A q \in Request \ {p} :
            ~(/\ filing[q].document = d /\ filing[q].number = n
              /\ filing[q].step \in {"verify", "locked"})
    BY <1>5 DEF Others
<1>7. filing'[p] = f /\ \A q \in Request \ {p} : filing'[q] = filing[q]
    BY <1>4 DEF DocumentsInv
<1>8. DocumentFiled(p)'
    BY <1>3, <1>7 DEF DocumentFiled
<1>9. VersionFiled(p)'
    BY <1>1, <1>3, <1>4, <1>6, <1>7 DEF VersionFiled
<1>10. QED BY <1>3, <1>4, <1>5, <1>8, <1>9, Filed

LEMMA DocumentSteps ==
    ASSUME DocumentsInv, [DocumentsNext]_documentsVars
    PROVE  DocumentsInv'
<1>1. CASE UNCHANGED documentsVars
    BY <1>1 DEF documentsVars, DocumentsInv, DocumentsSound, DocumentFiled, VersionFiled
<1>2. ASSUME NEW p \in Request, NEW d \in Document,
             \/ CreateDocument(p, d) \/ UpdateDocument(p, d) \/ CreateVersion(p, d)
             \/ ArchiveDocument(p, d) \/ RestoreDocument(p, d)
      PROVE  DocumentsInv'
    BY <1>2, DocumentLockings
<1>3. ASSUME NEW p \in Request, NEW d \in Document, NEW n \in Numbers, NEW matched \in BOOLEAN,
             VerifyVersion(p, d, n, matched)
      PROVE  DocumentsInv'
    BY <1>3, Verifying
<1>4. ASSUME NEW p \in Request, NEW d \in Document, NEW n \in Numbers,
             CreateApprovalEvidence(p, d, n)
      PROVE  DocumentsInv'
    BY <1>4, Relying
<1>5. ASSUME NEW p \in Request, CommitDocument(p)
      PROVE  DocumentsInv'
    BY <1>5, DocumentCommitted
<1>6. ASSUME NEW p \in Request, LockVersion(p)
      PROVE  DocumentsInv'
    BY <1>6, Locking
<1>7. ASSUME NEW p \in Request, CommitVerification(p)
      PROVE  DocumentsInv'
    BY <1>7, VerificationCommitted
<1>8. ASSUME NEW p \in Request, CommitEvidence(p) \/ AbandonFiling(p)
      PROVE  DocumentsInv'
    BY <1>8, Unfiled DEF CommitEvidence, AbandonFiling
<1>9. QED BY <1>1, <1>2, <1>3, <1>4, <1>5, <1>6, <1>7, <1>8 DEF DocumentsNext

\* Only the commit of a document changes how many versions there are.
LEMMA LengthsStay ==
    ASSUME DocumentsInv, [DocumentsNext]_documentsVars, NEW d \in Document,
           document[d].status = "archived"
    PROVE  Len(version'[d]) = Len(version[d])
<1>1. ASSUME NEW p \in Request, CommitDocument(p)
      PROVE  Len(version'[d]) = Len(version[d])
    BY <1>1, DocumentCommitted
<1>2. ASSUME NEW p \in Request, CommitVerification(p)
      PROVE  Len(version'[d]) = Len(version[d])
    BY <1>2, VerificationCommitted
<1>3. CASE \A p \in Request : ~CommitDocument(p) /\ ~CommitVerification(p)
    <2>1. UNCHANGED version
        BY <1>3, ZenonT(60) DEF DocumentsNext, documentsVars, CreateDocument, UpdateDocument, CreateVersion,
            ArchiveDocument, RestoreDocument, LockDocument, File, VerifyVersion, LockVersion,
            CreateApprovalEvidence, CommitEvidence, AbandonFiling
    <2>2. QED BY <2>1
<1>4. QED BY <1>1, <1>2, <1>3

LEMMA EvidenceRests ==
    ASSUME DocumentsInv, [DocumentsNext]_documentsVars,
           NEW x \in (evidence' \ evidence) \ verified
    PROVE  Reliable(version[x[1]][x[2]])
<1>1. PICK p \in Request : CommitEvidence(p)
    BY ZenonT(60) DEF DocumentsNext, documentsVars, CreateDocument, UpdateDocument, CreateVersion,
        ArchiveDocument, RestoreDocument, LockDocument, File, VerifyVersion, LockVersion,
        CreateApprovalEvidence, CommitDocument, CommitVerification, AbandonFiling
<1>2. filing[p].step = "evidence" /\ x = <<filing[p].document, filing[p].number>>
    BY <1>1 DEF CommitEvidence
<1>3. VersionFiled(p)
    BY DEF DocumentsInv
<1>4. QED BY <1>2, <1>3 DEF VersionFiled

LEMMA DocumentsAtFirst ==
    ASSUME DocumentsInit
    PROVE  DocumentsInv
<1>1. filing = [p \in Request |-> NotFiling] /\ \A p \in Request : filing[p].step = "none"
    BY NothingFiled DEF DocumentsInit
<1>2. /\ document \in [Document -> DocumentRows] /\ version \in [Document -> Seq(VersionRows)]
      /\ \A d \in Document : Len(version[d]) = 0 /\ document[d].current_version_number = 0
    BY NothingFiled DEF DocumentsInit, NoDocument
<1>3. DocumentsSound
    BY <1>2 DEF DocumentsSound
<1>4. QED BY <1>1, <1>3, NothingFiled DEF DocumentsInv, DocumentFiled, VersionFiled

\* A document numbers its versions as they come and gains none while archived, a version
\* whose checksum did not match is quarantined, and evidence rests on one whose checksum
\* did, unless verifications of it overlapped: for any documents, versions and requests.
THEOREM DocumentsStand == DocumentsSpec => DocumentsHold
<1>1. DocumentsInit => DocumentsInv
    BY DocumentsAtFirst
<1>2. DocumentsInv /\ [DocumentsNext]_documentsVars => DocumentsInv'
    BY DocumentSteps
<1> DEFINE Held == /\ \A d \in Document :
                        /\ document[d].current_version_number = Len(version[d])
                        /\ document[d].status = "archived" => Len(version'[d]) = Len(version[d])
                        /\ \A n \in DOMAIN version[d] : <<d, n>> \notin verified =>
                             (version[d][n].integrity_status = "mismatch")
                                = (version[d][n].upload_state = "quarantined")
                   /\ \A x \in (evidence' \ evidence) \ verified :
                        Reliable(version[x[1]][x[2]])
<1>3. DocumentsInv /\ [DocumentsNext]_documentsVars => [Held]_documentsVars
    <2>1. ASSUME DocumentsInv, NEW d \in Document
          PROVE  /\ document[d].current_version_number = Len(version[d])
                 /\ \A n \in DOMAIN version[d] : <<d, n>> \notin verified => Agreeing(version[d][n])
        <3>1. DOMAIN version[d] = 1 .. Len(version[d])
            BY <2>1, LenProperties DEF DocumentsInv, DocumentsSound
        <3>2. QED BY <2>1, <3>1 DEF DocumentsInv, DocumentsSound
    <2>2. QED BY <2>1, LengthsStay, EvidenceRests DEF Agreeing
<1> HIDE DEF Held
<1>4. DocumentsSpec => [][Held]_documentsVars
    BY <1>1, <1>2, <1>3, PTL DEF DocumentsSpec
<1>5. QED BY <1>4 DEF DocumentsHold, Held

\* What is filed of a document is numbered within the bound.
FiledWithin(p) == filing[p].step = "document" => filing[p].number <= MaxVersions

\* The versions there are, those verified together and those evidence rests on are numbered
\* within the bound.
NumbersKept ==
    /\ \A d \in Document : Len(version[d]) <= MaxVersions
    /\ \A p \in Request : FiledWithin(p)
    /\ evidence \subseteq Versions
    /\ verified \subseteq Versions

LEMMA NumbersStay ==
    ASSUME DocumentsInv, NumbersKept, [DocumentsNext]_documentsVars
    PROVE  NumbersKept'
<1>1. CASE UNCHANGED documentsVars
    BY <1>1 DEF documentsVars, NumbersKept, FiledWithin
<1>2. ASSUME NEW p \in Request, NEW f, filing' = [filing EXCEPT ![p] = f],
             f.step = "document" => f.number <= MaxVersions, UNCHANGED <<version, evidence>>,
             verified' \subseteq Versions
      PROVE  NumbersKept'
    <2>1. \A q \in Request : filing'[q] = IF q = p THEN f ELSE filing[q]
        BY <1>2 DEF DocumentsInv
    <2>2. QED BY <1>2, <2>1 DEF NumbersKept, FiledWithin
<1>3. 0 <= MaxVersions /\ NotFiling.number = 0 /\ NotFiling.step = "none"
    BY DocumentsAssumption DEF NotFiling
<1>4. ASSUME NEW p \in Request, NEW d \in Document,
             \/ CreateDocument(p, d) \/ UpdateDocument(p, d) \/ CreateVersion(p, d)
             \/ ArchiveDocument(p, d) \/ RestoreDocument(p, d)
      PROVE  NumbersKept'
    <2>1. \E row, n : n <= MaxVersions /\ LockDocument(p, d, row, n)
        BY <1>3, <1>4 DEF CreateDocument, UpdateDocument, CreateVersion, ArchiveDocument, RestoreDocument
    <2>2. PICK row, n : n <= MaxVersions /\ LockDocument(p, d, row, n)
        BY <2>1
    <2> DEFINE f == [NotFiling EXCEPT !.step = "document", !.document = d, !.row = row, !.number = n]
    <2>3. f.number = n
        BY DEF NotFiling
    <2>4. filing' = [filing EXCEPT ![p] = f] /\ UNCHANGED <<version, evidence, verified>>
        BY <2>2 DEF LockDocument, File
    <2> HIDE DEF f
    <2>5. QED BY <1>2, <2>2, <2>3, <2>4 DEF NumbersKept
<1>5. ASSUME NEW p \in Request, NEW d \in Document, NEW n \in Numbers, NEW steps, Overlap(d, n, steps)
      PROVE  verified' \subseteq Versions
    BY <1>5 DEF Overlap, NumbersKept, Versions
<1>6. ASSUME NEW p \in Request, NEW d \in Document, NEW n \in Numbers, NEW matched \in BOOLEAN,
             VerifyVersion(p, d, n, matched)
      PROVE  NumbersKept'
    <2> DEFINE f == [NotFiling EXCEPT !.step = "verify", !.document = d, !.number = n,
                                      !.seen = version[d][n], !.matched = matched]
    <2>1. f.step = "verify"
        BY DEF NotFiling
    <2>2. filing' = [filing EXCEPT ![p] = f] /\ UNCHANGED <<version, evidence>>
        BY <1>6 DEF VerifyVersion, File
    <2>3. verified' \subseteq Versions
        BY <1>5, <1>6 DEF VerifyVersion
    <2> HIDE DEF f
    <2>4. QED BY <1>2, <2>1, <2>2, <2>3
<1>7. ASSUME NEW p \in Request, NEW d \in Document, NEW n \in Numbers,
             CreateApprovalEvidence(p, d, n)
      PROVE  NumbersKept'
    <2> DEFINE f == [NotFiling EXCEPT !.step = "evidence", !.document = d, !.number = n]
    <2>1. f.step = "evidence"
        BY DEF NotFiling
    <2>2. filing' = [filing EXCEPT ![p] = f] /\ UNCHANGED <<version, evidence>>
        BY <1>7 DEF CreateApprovalEvidence, File
    <2>3. verified' \subseteq Versions
        BY <1>5, <1>7 DEF CreateApprovalEvidence
    <2> HIDE DEF f
    <2>4. QED BY <1>2, <2>1, <2>2, <2>3
<1>8. ASSUME NEW p \in Request, CommitDocument(p)
      PROVE  NumbersKept'
    <2> DEFINE d == filing[p].document
    <2>1. filing[p].step = "document" /\ DocumentFiled(p) /\ FiledWithin(p)
        BY <1>8 DEF DocumentsInv, NumbersKept, CommitDocument
    <2>2. d \in Document /\ version[d] \in Seq(VersionRows) /\ filing[p].number <= MaxVersions
        BY <2>1 DEF DocumentFiled, FiledWithin, DocumentsInv, DocumentsSound
    <2>3. \A e \in Document : Len(version'[e]) <= MaxVersions
        <3>1. CASE filing[p].number = 0
            BY <1>8, <3>1 DEF CommitDocument, NumbersKept
        <3>2. CASE filing[p].number # 0
            <4>1. /\ filing[p].number = Len(version[d]) + 1
                  /\ version' = [version EXCEPT ![d] = Append(version[d], NewVersion)]
                BY <1>8, <3>2 DEF CommitDocument, NextVersionNumber
            <4>2. Len(Append(version[d], NewVersion)) = Len(version[d]) + 1
                BY <2>2, VersionAppended
            <4>3. QED BY <2>2, <4>1, <4>2 DEF NumbersKept, DocumentsInv, DocumentsSound
        <3>3. QED BY <3>1, <3>2
    <2>4. filing' = [filing EXCEPT ![p] = NotFiling] /\ UNCHANGED <<evidence, verified>>
        BY <1>8 DEF CommitDocument
    <2>5. \A q \in Request : FiledWithin(q)'
        BY <1>3, <2>4 DEF NumbersKept, FiledWithin, DocumentsInv
    <2>6. QED BY <2>3, <2>4, <2>5 DEF NumbersKept
<1>9. ASSUME NEW p \in Request, CommitVerification(p)
      PROVE  NumbersKept'
    <2>1. filing' = [filing EXCEPT ![p] = NotFiling] /\ UNCHANGED <<evidence, verified>>
        BY <1>9 DEF CommitVerification
    <2>2. \A q \in Request : FiledWithin(q)'
        BY <1>3, <2>1 DEF NumbersKept, FiledWithin, DocumentsInv
    <2>3. \A d \in Document : Len(version'[d]) = Len(version[d])
        BY <1>9, VerificationCommitted
    <2>4. QED BY <2>1, <2>2, <2>3 DEF NumbersKept
<1>10. ASSUME NEW p \in Request, LockVersion(p)
       PROVE  NumbersKept'
    <2> DEFINE f == [filing[p] EXCEPT !.step = "locked"]
    <2>1. f.step = "locked"
        BY DEF DocumentsInv, Filings
    <2>2. filing' = [filing EXCEPT ![p] = f] /\ UNCHANGED <<version, evidence, verified>>
        BY <1>10 DEF LockVersion
    <2> HIDE DEF f
    <2>3. QED BY <1>2, <2>1, <2>2 DEF NumbersKept
<1>11. ASSUME NEW p \in Request, CommitEvidence(p) \/ AbandonFiling(p)
       PROVE  NumbersKept'
    <2>1. /\ filing' = [filing EXCEPT ![p] = NotFiling] /\ UNCHANGED <<version, verified>>
          /\ \/ evidence' = evidence
             \/ /\ filing[p].step = "evidence"
                /\ evidence' = evidence \cup {<<filing[p].document, filing[p].number>>}
        BY <1>11 DEF CommitEvidence, AbandonFiling
    <2>2. filing[p].step = "evidence" => <<filing[p].document, filing[p].number>> \in Versions
        <3> SUFFICES ASSUME filing[p].step = "evidence"
                     PROVE  <<filing[p].document, filing[p].number>> \in Versions
            OBVIOUS
        <3> DEFINE d == filing[p].document
                   n == filing[p].number
        <3>1. d \in Document /\ n \in 1 .. Len(version[d])
            BY DEF DocumentsInv, VersionFiled
        <3>2. Len(version[d]) <= MaxVersions /\ Len(version[d]) \in Nat
            BY <3>1, LenProperties DEF NumbersKept, DocumentsInv, DocumentsSound
        <3>3. n \in Numbers
            BY <3>1, <3>2, DocumentsAssumption DEF Numbers
        <3>4. QED BY <3>1, <3>3 DEF Versions
    <2>3. \A q \in Request : FiledWithin(q)'
        BY <1>3, <2>1 DEF NumbersKept, FiledWithin, DocumentsInv
    <2>4. QED BY <2>1, <2>2, <2>3 DEF NumbersKept
<1>12. QED BY <1>1, <1>4, <1>6, <1>7, <1>8, <1>9, <1>10, <1>11 DEF DocumentsNext

\* For any documents, versions and requests: documents, their versions and what is filed keep
\* their types, and evidence rests only on versions there may be
\* (procurement_document_service.py).
THEOREM DocumentsTyped == DocumentsSpec => []DocumentsTypeOK
<1>1. DocumentsInit => DocumentsInv /\ NumbersKept
    <2>1. ASSUME DocumentsInit PROVE NumbersKept
        <3>1. \A d \in Document : Len(version[d]) = 0
            BY <2>1 DEF DocumentsInit
        <3>2. \A p \in Request : filing[p].step = "none"
            BY <2>1, NothingFiled DEF DocumentsInit
        <3>3. QED BY <2>1, <3>1, <3>2, DocumentsAssumption DEF DocumentsInit, NumbersKept, FiledWithin
    <2>2. QED BY <2>1, DocumentsAtFirst
<1>2. DocumentsInv /\ NumbersKept /\ [DocumentsNext]_documentsVars => DocumentsInv' /\ NumbersKept'
    BY DocumentSteps, NumbersStay
<1>3. DocumentsInv /\ NumbersKept => DocumentsTypeOK
    BY DEF DocumentsInv, DocumentsSound, NumbersKept, DocumentsTypeOK
<1>4. QED BY <1>1, <1>2, <1>3, PTL DEF DocumentsSpec

-----------------------------------------------------------------------------
(* Supplier returns.                                                       *)

Dispatching(p) == dispatch[p].phase # "idle"

\* A request that dispatches holds the lock of a draft, and of the stock as soon as it takes
\* any of it; what it takes is neither reserved nor gone.
DispatchFormed(p) ==
    /\ ~Dispatching(p) => dispatch[p] = NoDispatch
    /\ Dispatching(p) =>
         /\ dispatch[p].supplierReturn \in Return
         /\ returnLock[dispatch[p].supplierReturn] = p
         /\ supplierReturn[dispatch[p].supplierReturn].status = "draft"
    /\ dispatch[p].taken > 0 => stockLock = p
    /\ dispatch[p].taken <= stock.on_hand - stock.reserved

\* The lines it is through with are still left of the receipt.
LinesFit(p) ==
    Dispatching(p) =>
        \A x \in ReturnedParts(dispatch[p].supplierReturn) \ dispatch[p].todo :
            Remaining(x, supplierReturn[dispatch[p].supplierReturn].lines[x])

\* As long as no two dispatches overlapped there is one at most.
Unrivalled ==
    /\ \A p, q \in Request : Dispatching(p) /\ Dispatching(q) => p = q
    /\ \A p \in Request : LinesFit(p)
    /\ \A x \in Part : ReturnedQuantity(x) <= ReceivedAs[x]

ReturnsInv ==
    /\ ReturnsTypeOK
    /\ stock.reserved <= stock.on_hand
    /\ \A p \in Request : DispatchFormed(p)
    /\ ~rivalled => Unrivalled

\* What counts of a return, and how replacing it changes the sum of a part.
Counting(row, x) == IF row.status \in {"dispatched", "completed"} THEN row.lines[x] ELSE 0

LEMMA ReturnedMoves ==
    ASSUME ReturnsTypeOK, NEW r \in Return, NEW to \in Returns, NEW x \in Part,
           supplierReturn' = [supplierReturn EXCEPT ![r] = to]
    PROVE  /\ ReturnedQuantity(x) \in Int
           /\ ReturnedQuantity(x)' = (ReturnedQuantity(x) - Counting(supplierReturn[r], x)) + Counting(to, x)
<1> DEFINE was == supplierReturn[r]
           S == {k \in Return : supplierReturn[k].status \in {"dispatched", "completed"}}
           T == {k \in Return : supplierReturn'[k].status \in {"dispatched", "completed"}}
           f == [k \in S |-> supplierReturn[k].lines[x]]
           g == [k \in T |-> supplierReturn'[k].lines[x]]
<1>1. /\ supplierReturn'[r] = to /\ \A k \in Return \ {r} : supplierReturn'[k] = supplierReturn[k]
      /\ \A k \in Return : supplierReturn[k].lines[x] \in Nat /\ supplierReturn'[k].lines[x] \in Nat
    BY DEF ReturnsTypeOK, Returns, ReturnLines
<1>2. IsFiniteSet(S) /\ IsFiniteSet(T)
    BY FS_Subset, SupplierReturnsAssumption
<1>3. (\A k \in S : f[k] \in Int) /\ (\A k \in T : g[k] \in Int)
    BY <1>1
<1>4. /\ S \ {r} = T \ {r} /\ \A k \in S \ {r} : f[k] = g[k]
      /\ (IF r \in S THEN f[r] ELSE 0) = Counting(was, x)
      /\ (IF r \in T THEN g[r] ELSE 0) = Counting(to, x)
    BY <1>1 DEF Counting
<1>5. ReturnedQuantity(x) = SumFunctionOnSet(f, S) /\ ReturnedQuantity(x)' = SumFunctionOnSet(g, T)
    BY DEF ReturnedQuantity, SumFunction
<1> HIDE DEF S, T, f, g, was
<1>6. SumFunctionOnSet(f, S) \in Int
    BY <1>2, <1>3, SumType
<1>7. SumFunctionOnSet(g, T) = (SumFunctionOnSet(f, S) - (IF r \in S THEN f[r] ELSE 0))
                                    + (IF r \in T THEN g[r] ELSE 0)
    BY <1>2, <1>3, <1>4, SumMoves
<1>8. QED BY <1>4, <1>5, <1>6, <1>7 DEF was

\* Nothing moves but the stock, which nobody has locked.
LEMMA ReturnsMoveStock ==
    ASSUME ReturnsInv, StockStep
    PROVE  ReturnsInv'
<1>1. PICK to : MoveStock(to) /\ to \in [on_hand : Nat, reserved : Nat]
    <2>1. stock.on_hand \in Nat /\ stock.reserved \in Nat /\ stock \in [on_hand : Nat, reserved : Nat]
        BY DEF ReturnsInv, ReturnsTypeOK
    <2>2. QED BY <2>1 DEF StockStep
<1>2. /\ stock' = to /\ to.reserved <= to.on_hand /\ to.on_hand \in Nat /\ to.reserved \in Nat
      /\ stockLock = None
      /\ UNCHANGED <<supplierReturn, returnLock, stockLock, dispatch, rivalled>>
    BY <1>1 DEF MoveStock
<1>3. ReturnsTypeOK'
    BY <1>1, <1>2 DEF ReturnsInv, ReturnsTypeOK
<1>4. \A p \in Request : DispatchFormed(p)'
    <2> SUFFICES ASSUME NEW p \in Request PROVE DispatchFormed(p)'
        OBVIOUS
    <2>1. p # None /\ DispatchFormed(p) /\ dispatch[p].taken \in Nat
        BY SupplierReturnsAssumption DEF ReturnsInv, ReturnsTypeOK, Dispatches
    <2>2. dispatch[p].taken = 0
        BY <1>2, <2>1 DEF DispatchFormed
    <2>3. QED BY <1>2, <2>1, <2>2 DEF DispatchFormed, Dispatching
<1>5. ~rivalled' => Unrivalled'
    BY <1>2, SMTT(30) DEF ReturnsInv, Unrivalled, Dispatching, LinesFit, ReturnedParts, Remaining, ReturnedQuantity
<1>6. QED BY <1>2, <1>3, <1>4, <1>5 DEF ReturnsInv

\* A return no dispatch has locked is replaced by one that counts as it did.
LEMMA ReturnsSet ==
    ASSUME ReturnsInv, NEW r \in Return, NEW to \in Returns, SetReturn(r, to),
           \A x \in Part : Counting(to, x) = Counting(supplierReturn[r], x)
    PROVE  ReturnsInv'
<1>1. /\ supplierReturn' = [supplierReturn EXCEPT ![r] = to] /\ returnLock[r] = None
      /\ UNCHANGED <<stock, returnLock, stockLock, dispatch, rivalled>>
      /\ ReturnsTypeOK
    BY DEF SetReturn, ReturnsInv
<1>2. ReturnsTypeOK'
    BY <1>1 DEF ReturnsTypeOK
<1>3. \A k \in Return \ {r} : supplierReturn'[k] = supplierReturn[k]
    BY <1>1 DEF ReturnsTypeOK
<1>4. ASSUME NEW p \in Request, Dispatching(p)
      PROVE  supplierReturn'[dispatch[p].supplierReturn] = supplierReturn[dispatch[p].supplierReturn]
    <2>1. p # None /\ DispatchFormed(p)
        BY SupplierReturnsAssumption DEF ReturnsInv
    <2>2. QED BY <1>1, <1>3, <1>4, <2>1 DEF DispatchFormed
<1>5. \A p \in Request : DispatchFormed(p)'
    BY <1>1, <1>4 DEF ReturnsInv, DispatchFormed, Dispatching
<1>6. \A x \in Part : ReturnedQuantity(x)' = ReturnedQuantity(x)
    <2> SUFFICES ASSUME NEW x \in Part PROVE ReturnedQuantity(x)' = ReturnedQuantity(x)
        OBVIOUS
    <2>1. Counting(to, x) = Counting(supplierReturn[r], x) /\ Counting(to, x) \in Int
        BY DEF Counting, Returns, ReturnLines
    <2>2. /\ ReturnedQuantity(x) \in Int
          /\ ReturnedQuantity(x)' = (ReturnedQuantity(x) - Counting(supplierReturn[r], x)) + Counting(to, x)
        BY <1>1, ReturnedMoves
    <2>3. QED BY <2>1, <2>2
<1>7. ~rivalled' => Unrivalled'
    BY <1>1, <1>4, <1>6 DEF ReturnsInv, Unrivalled, Dispatching, LinesFit, ReturnedParts, Remaining
<1>8. QED BY <1>1, <1>2, <1>5, <1>7 DEF ReturnsInv

LEMMA ReturnsDraft ==
    ASSUME ReturnsInv, NEW r \in Return, DraftStep(r)
    PROVE  ReturnsInv'
<1> DEFINE was == supplierReturn[r]
<1>1. was \in Returns /\ was.lines \in [Part -> Nat]
    BY DEF ReturnsInv, ReturnsTypeOK, Returns, ReturnLines
<1>2. NoReturn.lines \in [Part -> Nat] /\ \A x \in Part : Returnable(x) \subseteq Nat
    BY SupplierReturnsAssumption DEF NoReturn, Returnable
<1>3. ASSUME NEW lines \in [Part -> Nat], CreateSupplierReturn(r, lines)
      PROVE  ReturnsInv'
    <2>1. [status |-> "draft", lines |-> lines] \in Returns
        BY DEF Returns, ReturnLines
    <2>2. QED BY <1>3, <2>1, ReturnsSet DEF CreateSupplierReturn, Counting
<1>4. ASSUME NEW x \in Part, NEW q \in Nat, EditLine(r, x, q)
      PROVE  ReturnsInv'
    <2>1. [was EXCEPT !.lines[x] = q] \in Returns /\ was.status = "draft"
        BY <1>1, <1>4 DEF EditLine, Returns, ReturnLines
    <2>2. [was EXCEPT !.lines[x] = q].status = "draft"
        BY <1>1, <2>1 DEF Returns
    <2>3. QED BY <1>4, <2>1, <2>2, ReturnsSet DEF EditLine, Counting
<1>5. CASE CancelSupplierReturn(r)
    <2>1. /\ [was EXCEPT !.status = "cancelled"] \in Returns
          /\ [was EXCEPT !.status = "cancelled"].status = "cancelled" /\ was.status = "draft"
        BY <1>1, <1>5 DEF CancelSupplierReturn, Returns
    <2>2. QED BY <1>5, <2>1, ReturnsSet DEF CancelSupplierReturn, Counting
<1>6. CASE CompleteSupplierReturn(r)
    <2>1. /\ [was EXCEPT !.status = "completed"] \in Returns
          /\ [was EXCEPT !.status = "completed"].status = "completed" /\ was.status = "dispatched"
          /\ [was EXCEPT !.status = "completed"].lines = was.lines
        BY <1>1, <1>6 DEF CompleteSupplierReturn, Returns
    <2>2. \A x \in Part : Counting([was EXCEPT !.status = "completed"], x) = Counting(was, x)
        BY <2>1 DEF Counting
    <2>3. SetReturn(r, [was EXCEPT !.status = "completed"])
        BY <1>6 DEF CompleteSupplierReturn
    <2> HIDE DEF was
    <2>4. QED BY <2>1, <2>2, <2>3, ReturnsSet DEF was
<1>7. ASSUME NEW x \in Part, NEW q \in Returnable(x),
             \/ CreateSupplierReturn(r, [NoReturn.lines EXCEPT ![x] = q])
             \/ AddReturnLine(r, x, q) \/ UpdateReturnLine(r, x, q)
      PROVE  ReturnsInv'
    <2>1. q \in Nat /\ [NoReturn.lines EXCEPT ![x] = q] \in [Part -> Nat]
        BY <1>2
    <2>2. QED BY <1>3, <1>4, <1>7, <2>1 DEF AddReturnLine, UpdateReturnLine
<1>8. QED BY <1>2, <1>3, <1>4, <1>5, <1>6, <1>7 DEF DraftStep, DeleteReturnLine

\* A dispatch of a draft begins; a second one is remembered.
LEMMA DispatchBegins ==
    ASSUME ReturnsInv, NEW p \in Request, NEW r \in Return, DispatchSupplierReturn(p, r)
    PROVE  ReturnsInv'
<1> DEFINE d == [phase |-> "lines", supplierReturn |-> r, todo |-> ReturnedParts(r), taken |-> 0]
<1>1. /\ dispatch[p].phase = "idle" /\ supplierReturn[r].status = "draft" /\ returnLock[r] = None
      /\ returnLock' = [returnLock EXCEPT ![r] = p] /\ dispatch' = [dispatch EXCEPT ![p] = d]
      /\ rivalled' = (rivalled \/ \E q \in Request : Dispatching(q))
      /\ UNCHANGED <<supplierReturn, stock, stockLock>> /\ ReturnsTypeOK
    BY DEF DispatchSupplierReturn, Dispatching, ReturnsInv
<1>2. d \in Dispatches
    BY DEF Dispatches, ReturnedParts
<1>3. ReturnsTypeOK'
    BY <1>1, <1>2 DEF ReturnsTypeOK
<1>4. /\ dispatch'[p] = d /\ \A q \in Request \ {p} : dispatch'[q] = dispatch[q]
      /\ returnLock'[r] = p /\ \A k \in Return \ {r} : returnLock'[k] = returnLock[k]
    BY <1>1 DEF ReturnsTypeOK
<1>5. d.phase = "lines" /\ d.supplierReturn = r /\ d.todo = ReturnedParts(r) /\ d.taken = 0
    OBVIOUS
<1> HIDE DEF d
<1>6. ASSUME NEW q \in Request, q # p PROVE DispatchFormed(q)'
    <2>1. DispatchFormed(q) /\ q # None
        BY SupplierReturnsAssumption DEF ReturnsInv
    <2>2. QED BY <1>1, <1>4, <1>6, <2>1 DEF DispatchFormed, Dispatching
<1>7. DispatchFormed(p)'
    <2>1. stock.on_hand \in Nat /\ stock.reserved \in Nat /\ stock.reserved <= stock.on_hand
        BY DEF ReturnsInv, ReturnsTypeOK
    <2>2. QED BY <1>1, <1>4, <1>5, <2>1 DEF DispatchFormed, Dispatching
<1>8. ASSUME ~rivalled' PROVE Unrivalled'
    <2>1. Unrivalled /\ \A q \in Request : ~Dispatching(q)
        BY <1>1, <1>8 DEF ReturnsInv, ReturnsTypeOK
    <2>2. \A q \in Request \ {p} : ~Dispatching(q)'
        BY <1>4, <2>1 DEF Dispatching
    <2>3. LinesFit(p)'
        BY <1>1, <1>4, <1>5 DEF LinesFit, ReturnedParts
    <2>4. \A x \in Part : ReturnedQuantity(x)' = ReturnedQuantity(x)
        BY <1>1 DEF ReturnedQuantity
    <2>5. QED BY <2>1, <2>2, <2>3, <2>4 DEF Unrivalled, LinesFit
<1>9. QED BY <1>1, <1>3, <1>6, <1>7, <1>8 DEF ReturnsInv

\* A line is checked against the receipt, and one of accepted goods against the stock.
LEMMA DispatchGoesOn ==
    ASSUME ReturnsInv, NEW p \in Request, NEW x \in Part, DispatchLine(p, x)
    PROVE  ReturnsInv'
<1> DEFINE r == dispatch[p].supplierReturn
           q == supplierReturn[r].lines[x]
           takes == x[2] = "accepted"
<1>1. /\ x \in dispatch[p].todo /\ Remaining(x, q) /\ ReturnsTypeOK /\ dispatch[p] \in Dispatches
      /\ UNCHANGED <<supplierReturn, stock, returnLock, rivalled>>
    BY DEF DispatchLine, ReturnsInv, ReturnsTypeOK
<1>2. /\ dispatch[p].phase = "lines" /\ r \in Return
      /\ q \in Nat /\ DispatchFormed(p)
    <2>1. DispatchFormed(p)
        BY DEF ReturnsInv
    <2>2. Dispatching(p)
        BY <1>1, <2>1 DEF DispatchFormed, NoDispatch
    <2>3. QED BY <1>1, <2>1, <2>2 DEF DispatchFormed, Dispatching, Dispatches, ReturnsTypeOK, Returns, ReturnLines
<1>3. /\ dispatch[p].todo \subseteq Part /\ dispatch[p].taken \in Nat
      /\ stock.on_hand \in Nat /\ stock.reserved \in Nat
    BY <1>1 DEF Dispatches, ReturnsTypeOK
<1> DEFINE w(t) == [dispatch[p] EXCEPT !.todo = @ \ {x}, !.taken = t]
<1>4. PICK taken \in Nat :
          /\ dispatch' = [dispatch EXCEPT ![p] = w(taken)]
          /\ \/ stockLock' = stockLock /\ taken = dispatch[p].taken
             \/ stockLock \in {None, p} /\ stockLock' = p /\ taken <= stock.on_hand - stock.reserved
    <2>1. CASE takes
        <3>1. /\ stockLock \in {None, p} /\ stockLock' = p
              /\ q <= stock.on_hand - dispatch[p].taken - stock.reserved
              /\ dispatch' = [dispatch EXCEPT ![p].todo = @ \ {x}, ![p].taken = @ + q]
            BY <2>1 DEF DispatchLine, LockBalance, Available
        <3>2. dispatch' = [dispatch EXCEPT ![p] = w(dispatch[p].taken + q)]
            BY <1>1, <3>1 DEF Dispatches, ReturnsTypeOK
        <3>3. dispatch[p].taken + q \in Nat /\ dispatch[p].taken + q <= stock.on_hand - stock.reserved
            BY <1>2, <1>3, <3>1
        <3> HIDE DEF w, q
        <3>4. QED BY <3>1, <3>2, <3>3
    <2>2. CASE ~takes
        <3>1. dispatch' = [dispatch EXCEPT ![p].todo = @ \ {x}] /\ stockLock' = stockLock
            BY <2>2 DEF DispatchLine
        <3>2. dispatch' = [dispatch EXCEPT ![p] = w(dispatch[p].taken)]
            BY <1>1, <3>1 DEF Dispatches, ReturnsTypeOK
        <3> HIDE DEF w
        <3>3. QED BY <1>3, <3>1, <3>2
    <2>3. QED BY <2>1, <2>2
<1> DEFINE d == w(taken)
<1>5. /\ d \in Dispatches /\ d.phase = "lines" /\ d.supplierReturn = r
      /\ d.todo = dispatch[p].todo \ {x} /\ d.taken = taken
    BY <1>1, <1>2, <1>3 DEF Dispatches
<1>6. dispatch' = [dispatch EXCEPT ![p] = d]
    BY <1>4
<1> HIDE DEF d
<1>7. dispatch'[p] = d /\ \A k \in Request \ {p} : dispatch'[k] = dispatch[k]
    BY <1>1, <1>6 DEF ReturnsTypeOK
<1>8. ReturnsTypeOK'
    BY <1>1, <1>4, <1>5, <1>6 DEF ReturnsTypeOK
<1>9. ASSUME NEW k \in Request, k # p PROVE DispatchFormed(k)'
    <2>1. DispatchFormed(k) /\ k # None
        BY SupplierReturnsAssumption DEF ReturnsInv
    <2>2. QED BY <1>1, <1>4, <1>7, <1>9, <2>1 DEF DispatchFormed, Dispatching
<1>10. DispatchFormed(p)'
    <2>1. taken > 0 => stockLock' = p
        BY <1>2, <1>4 DEF DispatchFormed
    <2>2. taken <= stock.on_hand - stock.reserved
        BY <1>2, <1>4 DEF DispatchFormed
    <2>3. QED BY <1>1, <1>2, <1>5, <1>7, <2>1, <2>2 DEF DispatchFormed, Dispatching
<1>11. ASSUME ~rivalled' PROVE Unrivalled'
    <2>1. Unrivalled
        BY <1>1, <1>11 DEF ReturnsInv
    <2>2. \A k \in Request : Dispatching(k)' = Dispatching(k)
        BY <1>2, <1>5, <1>7 DEF Dispatching
    <2>3. \A y \in Part, n \in Nat : ReturnedQuantity(y)' = ReturnedQuantity(y) /\ Remaining(y, n)' = Remaining(y, n)
        BY <1>1 DEF ReturnedQuantity, Remaining
    <2>4. \A y \in ReturnedParts(r) : y \in Part /\ supplierReturn[r].lines[y] \in Nat
        <3>1. supplierReturn[r].lines \in [Part -> Nat]
            BY <1>1, <1>2 DEF ReturnsTypeOK, Returns, ReturnLines
        <3>2. QED BY <3>1 DEF ReturnedParts
    <2>5. LinesFit(p)'
        <3> SUFFICES ASSUME NEW y \in ReturnedParts(r) \ (dispatch[p].todo \ {x})
                     PROVE  Remaining(y, supplierReturn[r].lines[y])
            BY <1>1, <1>5, <1>7, <2>3, <2>4 DEF LinesFit, ReturnedParts
        <3>1. Dispatching(p)
            BY <1>2 DEF Dispatching
        <3>2. QED BY <1>1, <2>1, <3>1 DEF Unrivalled, LinesFit
    <2>6. \A k \in Request \ {p} : LinesFit(k)'
        <3>1. \A k \in Request \ {p} : ~Dispatching(k)
            BY <1>2, <2>1 DEF Unrivalled, Dispatching
        <3>2. QED BY <2>2, <3>1 DEF LinesFit
    <2>7. QED BY <2>1, <2>2, <2>3, <2>5, <2>6 DEF Unrivalled
<1>12. QED BY <1>1, <1>8, <1>9, <1>10, <1>11 DEF ReturnsInv

\* A dispatch ends, and its locks; the others keep theirs.
LEMMA DispatchEnds ==
    ASSUME ReturnsInv, NEW p \in Request, EndDispatch(p)
    PROVE  /\ dispatch'[p] = NoDispatch /\ ~Dispatching(p)'
           /\ \A q \in Request \ {p} : dispatch'[q] = dispatch[q] /\ Dispatching(q)' = Dispatching(q)
           /\ \A q \in Request \ {p}, r \in Return : returnLock[r] = q => returnLock'[r] = q
           /\ \A q \in Request \ {p} : stockLock = q => stockLock' = q
           /\ dispatch' \in [Request -> Dispatches] /\ returnLock' \in [Return -> Request \cup {None}]
           /\ stockLock' \in Request \cup {None} /\ rivalled' = rivalled
<1>1. NoDispatch \in Dispatches
    BY DEF NoDispatch, Dispatches
<1>2. QED BY <1>1 DEF EndDispatch, ReturnsInv, ReturnsTypeOK, Dispatching, NoDispatch

\* All lines fit: the goods go out, and out of the stock.
LEMMA DispatchFinishes ==
    ASSUME ReturnsInv, NEW p \in Request, FinishDispatch(p)
    PROVE  ReturnsInv'
<1> DEFINE r == dispatch[p].supplierReturn
           was == supplierReturn[r]
           to == [was EXCEPT !.status = "dispatched"]
<1>1. /\ dispatch[p].phase = "lines" /\ dispatch[p].todo = {} /\ EndDispatch(p)
      /\ supplierReturn' = [supplierReturn EXCEPT ![r].status = "dispatched"]
      /\ stock' = [stock EXCEPT !.on_hand = @ - dispatch[p].taken]
      /\ ReturnsTypeOK /\ DispatchFormed(p)
    BY DEF FinishDispatch, ReturnsInv
<1>2. r \in Return /\ was \in Returns /\ was.status = "draft" /\ returnLock[r] = p
    BY <1>1 DEF DispatchFormed, Dispatching, ReturnsTypeOK
<1>3. /\ to \in Returns /\ to.status = "dispatched" /\ to.lines = was.lines
      /\ supplierReturn' = [supplierReturn EXCEPT ![r] = to]
    BY <1>1, <1>2 DEF Returns
<1>4. /\ stock'.on_hand = stock.on_hand - dispatch[p].taken /\ stock'.reserved = stock.reserved
      /\ dispatch[p].taken \in Nat /\ stock.on_hand \in Nat /\ stock.reserved \in Nat
      /\ dispatch[p].taken <= stock.on_hand - stock.reserved
    BY <1>1 DEF ReturnsTypeOK, Dispatches, DispatchFormed
<1>5. stock' \in [on_hand : Nat, reserved : Nat] /\ stock'.reserved <= stock'.on_hand
    <2>1. stock.on_hand - dispatch[p].taken \in Nat
        BY <1>4
    <2>2. stock' \in [on_hand : Nat, reserved : Nat]
        BY <1>1, <2>1 DEF ReturnsTypeOK
    <2>3. QED BY <1>4, <2>2
<1> HIDE DEF to
<1>6. ReturnsTypeOK'
    BY <1>1, <1>2, <1>3, <1>5, DispatchEnds DEF ReturnsTypeOK
<1>7. \A k \in Return \ {r} : supplierReturn'[k] = supplierReturn[k]
    BY <1>3 DEF ReturnsTypeOK
<1>8. ASSUME NEW q \in Request, q # p PROVE DispatchFormed(q)'
    <2>1. DispatchFormed(q) /\ q # None
        BY SupplierReturnsAssumption DEF ReturnsInv
    <2>2. /\ dispatch'[q] = dispatch[q] /\ Dispatching(q)' = Dispatching(q)
          /\ \A k \in Return : returnLock[k] = q => returnLock'[k] = q
          /\ stockLock = q => stockLock' = q
        BY <1>1, <1>8, DispatchEnds
    <2>3. dispatch[q].taken <= stock'.on_hand - stock'.reserved
        <3>1. dispatch[q].taken \in Nat /\ stock'.on_hand \in Nat /\ stock'.reserved \in Nat
            BY <1>1, <1>5 DEF ReturnsTypeOK, Dispatches
        <3>2. CASE dispatch[q].taken = 0
            BY <1>5, <3>1, <3>2
        <3>3. CASE dispatch[q].taken > 0
            <4>1. dispatch[p].taken = 0
                BY <1>1, <1>4, <1>8, <2>1, <3>3 DEF DispatchFormed
            <4>2. QED BY <1>4, <2>1, <4>1 DEF DispatchFormed
        <3>4. QED BY <3>1, <3>2, <3>3
    <2>4. Dispatching(q) => supplierReturn'[dispatch[q].supplierReturn] = supplierReturn[dispatch[q].supplierReturn]
        BY <1>2, <1>7, <1>8, <2>1 DEF DispatchFormed
    <2>5. QED BY <2>1, <2>2, <2>3, <2>4 DEF DispatchFormed
<1>9. DispatchFormed(p)'
    <2>1. dispatch'[p] = NoDispatch /\ ~Dispatching(p)' /\ NoDispatch.taken = 0
        BY <1>1, DispatchEnds DEF NoDispatch
    <2>2. stock'.on_hand \in Nat /\ stock'.reserved \in Nat
        BY <1>5
    <2>3. QED BY <1>5, <2>1, <2>2 DEF DispatchFormed
<1>10. ASSUME ~rivalled' PROVE Unrivalled'
    <2>1. Unrivalled /\ Dispatching(p) /\ LinesFit(p)
        BY <1>1, <1>10, DispatchEnds DEF ReturnsInv, Dispatching, Unrivalled
    <2>2. \A q \in Request : ~Dispatching(q)'
        BY <1>1, <2>1, DispatchEnds DEF Unrivalled
    <2>3. ASSUME NEW x \in Part PROVE ReturnedQuantity(x)' <= ReceivedAs[x]
        <3>1. /\ ReturnedQuantity(x) \in Int
              /\ ReturnedQuantity(x)' = (ReturnedQuantity(x) - Counting(was, x)) + Counting(to, x)
            BY <1>1, <1>2, <1>3, ReturnedMoves
        <3>2. Counting(was, x) = 0 /\ Counting(to, x) = was.lines[x]
            BY <1>2, <1>3 DEF Counting
        <3>3. was.lines[x] \in Nat /\ ReceivedAs[x] \in Nat
            BY <1>2, SupplierReturnsAssumption DEF Returns, ReturnLines
        <3>4. was.lines[x] > 0 => was.lines[x] <= ReceivedAs[x] - ReturnedQuantity(x)
            BY <1>1, <2>1 DEF LinesFit, ReturnedParts, Remaining
        <3>5. ReturnedQuantity(x) <= ReceivedAs[x]
            BY <2>1 DEF Unrivalled
        <3> HIDE DEF was
        <3>6. QED BY <3>1, <3>2, <3>3, <3>4, <3>5
    <2>4. QED BY <2>2, <2>3 DEF Unrivalled, LinesFit
<1>11. QED BY <1>5, <1>6, <1>8, <1>9, <1>10 DEF ReturnsInv

LEMMA DispatchFails ==
    ASSUME ReturnsInv, NEW p \in Request, FailDispatch(p)
    PROVE  ReturnsInv'
<1>1. EndDispatch(p) /\ UNCHANGED <<supplierReturn, stock>>
    BY DEF FailDispatch
<1>2. ReturnsTypeOK' /\ stock'.reserved <= stock'.on_hand
    BY <1>1, DispatchEnds DEF ReturnsInv, ReturnsTypeOK
<1>3. ASSUME NEW q \in Request, q # p PROVE DispatchFormed(q)'
    <2>1. DispatchFormed(q) /\ q # None
        BY SupplierReturnsAssumption DEF ReturnsInv
    <2>2. /\ dispatch'[q] = dispatch[q] /\ Dispatching(q)' = Dispatching(q)
          /\ \A k \in Return : returnLock[k] = q => returnLock'[k] = q
          /\ stockLock = q => stockLock' = q
        BY <1>1, <1>3, DispatchEnds
    <2>3. QED BY <1>1, <2>1, <2>2 DEF DispatchFormed
<1>4. DispatchFormed(p)'
    BY <1>1, <1>2, DispatchEnds DEF DispatchFormed, NoDispatch, ReturnsTypeOK
<1>5. ASSUME ~rivalled' PROVE Unrivalled'
    <2>1. Unrivalled
        BY <1>1, <1>5, DispatchEnds DEF ReturnsInv
    <2>2. /\ ~Dispatching(p)'
          /\ \A q \in Request \ {p} : dispatch'[q] = dispatch[q] /\ Dispatching(q)' = Dispatching(q)
        BY <1>1, DispatchEnds
    <2>3. QED BY <1>1, <2>1, <2>2 DEF Unrivalled, LinesFit, ReturnedParts, Remaining, ReturnedQuantity
<1>6. QED BY <1>2, <1>3, <1>4, <1>5 DEF ReturnsInv

LEMMA ReturnsStep ==
    ASSUME ReturnsInv, [ReturnsNext]_returnsVars
    PROVE  ReturnsInv'
<1>1. CASE UNCHANGED returnsVars
    <2>1. UNCHANGED <<supplierReturn, stock, returnLock, stockLock, dispatch, rivalled>>
        BY <1>1 DEF returnsVars
    <2>2. ReturnsTypeOK' = ReturnsTypeOK
        BY <2>1 DEF ReturnsTypeOK
    <2>3. \A p \in Request : DispatchFormed(p)' = DispatchFormed(p)
        BY <2>1 DEF DispatchFormed, Dispatching
    <2>4. Unrivalled' = Unrivalled
        BY <2>1 DEF Unrivalled, Dispatching, LinesFit, ReturnedParts, Remaining, ReturnedQuantity
    <2>5. QED BY <2>1, <2>2, <2>3, <2>4 DEF ReturnsInv
<1>2. ASSUME NEW p \in Request, DispatchStep(p)
      PROVE  ReturnsInv'
    BY <1>2, DispatchBegins, DispatchGoesOn, DispatchFinishes, DispatchFails DEF DispatchStep
<1>3. QED BY <1>1, <1>2, ReturnsMoveStock, ReturnsDraft DEF ReturnsNext

LEMMA ReturnsAtFirst == ReturnsInit => ReturnsInv
<1> SUFFICES ASSUME ReturnsInit PROVE ReturnsInv
    OBVIOUS
<1>1. ReturnsTypeOK
    BY DEF ReturnsInit, ReturnsTypeOK, NoReturn, Returns, ReturnLines, NoDispatch, Dispatches
<1>2. stock.on_hand = 0 /\ stock.reserved = 0 /\ \A p \in Request : dispatch[p] = NoDispatch
    BY DEF ReturnsInit
<1>3. \A p \in Request : DispatchFormed(p) /\ ~Dispatching(p)
    <2>1. NoDispatch.phase = "idle" /\ NoDispatch.taken = 0
        BY DEF NoDispatch
    <2>2. stock.on_hand - stock.reserved = 0
        BY <1>2
    <2>3. ASSUME NEW p \in Request PROVE DispatchFormed(p) /\ ~Dispatching(p)
        <3>1. dispatch[p] = NoDispatch /\ ~Dispatching(p) /\ dispatch[p].taken = 0
            BY <1>2, <2>1 DEF Dispatching
        <3>2. QED BY <2>2, <3>1 DEF DispatchFormed
    <2>4. QED BY <2>3
<1>4. ASSUME NEW x \in Part PROVE ReturnedQuantity(x) <= ReceivedAs[x]
    <2> DEFINE S == {k \in Return : supplierReturn[k].status \in {"dispatched", "completed"}}
               f == [k \in S |-> supplierReturn[k].lines[x]]
    <2>1. S = {} /\ ReturnedQuantity(x) = SumFunctionOnSet(f, S)
        BY DEF ReturnsInit, NoReturn, ReturnedQuantity, SumFunction
    <2>2. ReturnedQuantity(x) = 0
        BY <2>1, SumEmpty
    <2>3. QED BY <2>2, SupplierReturnsAssumption
<1>5. QED BY <1>1, <1>2, <1>3, <1>4 DEF ReturnsInv, Unrivalled, LinesFit

\* For any returns, lines and requests: what went out stays within what was received of each
\* line as long as no two dispatches overlapped, and never takes what is reserved, whether
\* they did or not.
THEOREM ReturnsWithinReceipt == ReturnsSpec => []ReturnsStayWithin
<1>1. ReturnsInv /\ [ReturnsNext]_returnsVars => ReturnsInv'
    BY ReturnsStep
<1>2. ReturnsInv => ReturnsStayWithin
    BY DEF ReturnsInv, Unrivalled, ReturnsStayWithin
<1>3. QED BY <1>1, <1>2, ReturnsAtFirst, PTL DEF ReturnsSpec

\* For any returns, lines and requests: returns, stock and every dispatch under way keep
\* their types (supplier_return_service.py).
THEOREM ReturnsTyped == ReturnsSpec => []ReturnsTypeOK
<1>1. ReturnsInv /\ [ReturnsNext]_returnsVars => ReturnsInv'
    BY ReturnsStep
<1>2. ReturnsInv => ReturnsTypeOK
    BY DEF ReturnsInv
<1>3. QED BY <1>1, <1>2, ReturnsAtFirst, PTL DEF ReturnsSpec

-----------------------------------------------------------------------------
(* Goods receipts.                                                         *)
(*                                                                         *)
(* A posting loses its locks with its first commit, so what it loaded says *)
(* nothing of the rows it writes.  What remains true of it is that it      *)
(* holds no more than was ordered of a line, and that once it has lost the *)
(* lock of the order something is received, for good: a posting only       *)
(* writes lines of which it received something.                            *)
(*                                                                         *)
(* What was moved never shrinks, so a copy, however old, claims no more    *)
(* than that (PhantomInv).  Until postings overlap the one that is under   *)
(* way is alone and its copy is the order but for the lines it has not     *)
(* committed (Faithful), so order and stock grow together (SerialInv).     *)

-----------------------------------------------------------------------------
(* Types.                                                                  *)

\* A posting is one of a receipt, of the lines it has, and holds no more of a line than was
\* ordered of it.
Bounded(posting) ==
    /\ posting.phase # "idle" => posting.receipt \in Receipt
    /\ \A l \in posting.todo : posting.accepted[l] # None
    /\ \A l \in Line : posting.received[l] <= Ordered[l]

TypeInv == TypeOK /\ \A p \in Request : Bounded(post[p])

LEMMA Idle ==
    /\ NoPosting \in Postings /\ NoPosting.phase = "idle" /\ NoPosting.dirty = {}
    /\ Bounded(NoPosting)
<1>1. QED BY GoodsReceiptsAssumption DEF NoPosting, Postings, NoLines, Lines, OrderStatus, Bounded

LEMMA TypeAtFirst == Init => TypeInv
<1> SUFFICES ASSUME Init PROVE TypeInv OBVIOUS
<1>1. NoLines \in Lines /\ "draft" \in OrderStatus
    BY DEF NoLines, Lines, OrderStatus
<1>2. \A l \in Line : received[l] = 0 /\ 0 <= Ordered[l]
    BY GoodsReceiptsAssumption DEF Init
<1>3. TypeOK
    BY <1>1, <1>2, Idle DEF Init, TypeOK
<1>4. \A p \in Request : Bounded(post[p])
    BY Idle DEF Init
<1>5. QED BY <1>3, <1>4 DEF TypeInv

LEMMA ReceiptTypes ==
    ASSUME TypeInv, NEW r \in Receipt, ReceiptStep(r)
    PROVE  TypeInv'
<1>1. /\ UNCHANGED <<status, received, moved, locks, post>>
      /\ overlapped' \in BOOLEAN
    BY DEF ReceiptStep, CreateReceipt, AddLine, UpdateLine, DeleteLine, SetLine, CancelReceipt,
        TypeInv, TypeOK
<1>2. receipt' \in [Receipt -> {"none", "draft", "posted", "cancelled"}]
    BY DEF ReceiptStep, CreateReceipt, AddLine, UpdateLine, DeleteLine, SetLine, CancelReceipt,
        TypeInv, TypeOK
<1>3. accepted' \in [Receipt -> Lines]
    <2>1. \A l \in Line : Quantity(l) \subseteq Nat
        BY GoodsReceiptsAssumption DEF Quantity
    <2>2. ASSUME NEW d \in Deliveries, CreateReceipt(r, d)
          PROVE  accepted' \in [Receipt -> Lines]
        <3>1. d \in Lines
            BY <2>1 DEF Deliveries, Lines
        <3>2. QED BY <2>2, <3>1 DEF CreateReceipt, TypeInv, TypeOK
    <2>3. ASSUME NEW l \in Line, NEW q \in Nat \cup {None}, SetLine(r, l, q)
          PROVE  accepted' \in [Receipt -> Lines]
        BY <2>3 DEF SetLine, TypeInv, TypeOK, Lines
    <2>4. CASE CancelReceipt(r)
        BY <2>4 DEF CancelReceipt, TypeInv, TypeOK
    <2>5. QED BY <2>1, <2>2, <2>3, <2>4 DEF ReceiptStep, AddLine, UpdateLine, DeleteLine
<1>4. QED BY <1>1, <1>2, <1>3 DEF TypeInv, TypeOK, locks

LEMMA WrittenTypes ==
    ASSUME TypeInv, NEW p \in Request
    PROVE  Written(p) \in [Line -> Nat] /\ \A l \in Line : Written(p)[l] <= Ordered[l]
<1>1. post[p].received \in [Line -> Nat]
    BY DEF TypeInv, TypeOK, Postings
<1>2. QED BY <1>1 DEF Written, TypeInv, TypeOK, Bounded

LEMMA UnlockTypes ==
    ASSUME TypeInv, NEW p \in Request, Unlock(p)
    PROVE  /\ orderLock' \in Request \cup {None}
           /\ receiptLock' \in [Receipt -> Request \cup {None}]
           /\ lineLock' \in [Line -> Request \cup {None}]
<1>1. QED BY DEF Unlock, TypeInv, TypeOK

\* A request whose posting becomes f.
LEMMA PostingTypes ==
    ASSUME TypeInv, NEW p \in Request, NEW f \in Postings, Bounded(f),
           post' = [post EXCEPT ![p] = f]
    PROVE  post' \in [Request -> Postings] /\ \A q \in Request : Bounded(post'[q])
<1>1. QED BY DEF TypeInv, TypeOK

\* A line on its turn, with what it adds to what its posting has received of it.
LEMMA LineTypes ==
    ASSUME TypeInv, NEW p \in Request, NEW l \in Line, Turn(p, l), Fits(p, l, post[p].accepted[l]),
           NEW dirty \in SUBSET Line
    PROVE  LET q == post[p].accepted[l]
               f == [post[p] EXCEPT !.received[l] = @ + q, !.todo = @ \ {l}, !.dirty = dirty]
           IN /\ q \in Nat /\ post[p].receipt \in Receipt /\ post[p] \in Postings
              /\ post[p].received[l] + q \in Nat /\ post[p].received[l] + q <= Ordered[l]
              /\ f \in Postings /\ Bounded(f)
<1> DEFINE q == post[p].accepted[l]
           f == [post[p] EXCEPT !.received[l] = @ + q, !.todo = @ \ {l}, !.dirty = dirty]
<1>1. post[p] \in Postings /\ Bounded(post[p]) /\ post[p].phase = "lines" /\ l \in post[p].todo
    BY DEF TypeInv, TypeOK, Turn
<1>2. q \in Nat /\ post[p].receipt \in Receipt
    BY <1>1 DEF Postings, Lines, Bounded
<1>3. /\ post[p].received[l] \in Nat /\ Ordered[l] \in Nat
      /\ post[p].received[l] + q \in Nat /\ post[p].received[l] + q <= Ordered[l]
    <2>1. post[p].received[l] \in Nat /\ Ordered[l] \in Nat
        BY <1>1, GoodsReceiptsAssumption DEF Postings
    <2>2. QED BY <1>2, <2>1 DEF Fits
<1>4. /\ f.received = [post[p].received EXCEPT ![l] = @ + q] /\ f.todo = post[p].todo \ {l}
      /\ f.accepted = post[p].accepted /\ f.receipt = post[p].receipt
      /\ f \in Postings
    BY <1>1, <1>3 DEF Postings
<1>5. Bounded(f)
    <2>1. \A m \in Line : f.received[m] <= Ordered[m]
        BY <1>1, <1>3, <1>4 DEF Bounded, Postings
    <2>2. QED BY <1>1, <1>2, <1>4, <2>1 DEF Bounded
<1>6. QED BY <1>1, <1>2, <1>3, <1>4, <1>5

LEMMA LockReceiptTypes ==
    ASSUME TypeInv, NEW p \in Request, NEW r \in Receipt, LockReceipt(p, r)
    PROVE  TypeInv'
<1> DEFINE f == [NoPosting EXCEPT !.phase = "order", !.receipt = r]
<1>1. f \in Postings /\ Bounded(f)
    BY Idle DEF Postings, Bounded
<1>2. /\ post' = [post EXCEPT ![p] = f] /\ UNCHANGED <<rows, orderLock, lineLock>>
      /\ receiptLock' = [receiptLock EXCEPT ![r] = p] /\ overlapped' \in BOOLEAN
    BY DEF LockReceipt, TypeInv, TypeOK
<1> HIDE DEF f
<1>3. post' \in [Request -> Postings] /\ \A q \in Request : Bounded(post'[q])
    BY <1>1, <1>2, PostingTypes
<1>4. QED BY <1>2, <1>3 DEF TypeInv, TypeOK, rows

LEMMA LockOrderTypes ==
    ASSUME TypeInv, NEW p \in Request, LockOrder(p)
    PROVE  TypeInv'
<1> DEFINE lines == accepted[post[p].receipt]
           f == [post[p] EXCEPT !.phase = "lines", !.status = status, !.received = received,
                                !.accepted = lines, !.todo = Present(lines)]
<1>1. post[p] \in Postings /\ post[p].receipt \in Receipt
    BY DEF LockOrder, TypeInv, TypeOK, Bounded
<1>2. lines \in Lines /\ Present(lines) \subseteq Line
      /\ \A l \in Present(lines) : lines[l] # None
    BY <1>1 DEF TypeInv, TypeOK, Present
<1>3. /\ post' = [post EXCEPT ![p] = f] /\ UNCHANGED <<rows, receiptLock, lineLock, overlapped>>
      /\ orderLock' = p
    BY DEF LockOrder
<1> HIDE DEF lines
<1>4. f \in Postings /\ Bounded(f)
    BY <1>1, <1>2 DEF Postings, TypeInv, TypeOK, Bounded
<1> HIDE DEF f
<1>5. post' \in [Request -> Postings] /\ \A q \in Request : Bounded(post'[q])
    BY <1>3, <1>4, PostingTypes
<1>6. QED BY <1>3, <1>5 DEF TypeInv, TypeOK, rows

LEMMA PostLineTypes ==
    ASSUME TypeInv, NEW p \in Request, NEW l \in Line, PostLine(p, l)
    PROVE  TypeInv'
<1> DEFINE q == post[p].accepted[l]
           dirty == IF q > 0 THEN post[p].dirty \cup {l} ELSE post[p].dirty
           f == [post[p] EXCEPT !.received[l] = @ + q, !.todo = @ \ {l}, !.dirty = dirty]
<1>1. dirty \in SUBSET Line
    BY DEF TypeInv, TypeOK, Postings
<1>2. /\ post' = [post EXCEPT ![p] = f] /\ UNCHANGED <<rows, orderLock, receiptLock, overlapped>>
      /\ lineLock' = [lineLock EXCEPT ![l] = p]
    BY DEF PostLine
<1>3. f \in Postings /\ Bounded(f)
    <2> HIDE DEF dirty
    <2>1. Turn(p, l) /\ Fits(p, l, q)
        BY DEF PostLine
    <2>2. QED BY <1>1, <2>1, LineTypes
<1> HIDE DEF f
<1>4. post' \in [Request -> Postings] /\ \A r \in Request : Bounded(post'[r])
    BY <1>2, <1>3, PostingTypes
<1>5. QED BY <1>2, <1>4 DEF TypeInv, TypeOK, rows

LEMMA MoveLineTypes ==
    ASSUME TypeInv, NEW p \in Request, NEW l \in Line, MoveLine(p, l)
    PROVE  TypeInv'
<1> DEFINE q == post[p].accepted[l]
           r == post[p].receipt
           f == [post[p] EXCEPT !.received[l] = @ + q, !.todo = @ \ {l}, !.dirty = {}]
<1>1. /\ q \in Nat /\ r \in Receipt
      /\ post[p].received[l] + q \in Nat /\ post[p].received[l] + q <= Ordered[l]
      /\ f \in Postings /\ Bounded(f)
    <2>1. Turn(p, l) /\ Fits(p, l, q) /\ {} \in SUBSET Line
        BY DEF MoveLine
    <2>2. QED BY <2>1, LineTypes
<1>2. /\ post' = [post EXCEPT ![p] = f] /\ Unlock(p)
      /\ moved' = [moved EXCEPT ![r][l] = @ + q]
      /\ received' = [Written(p) EXCEPT ![l] = post[p].received[l] + q]
      /\ UNCHANGED <<status, receipt, accepted, overlapped>>
    BY DEF MoveLine, Received
<1> HIDE DEF f
<1>3. post' \in [Request -> Postings] /\ \A n \in Request : Bounded(post'[n])
    BY <1>1, <1>2, PostingTypes
<1>4. received' \in [Line -> Nat] /\ \A m \in Line : received'[m] <= Ordered[m]
    BY <1>1, <1>2, WrittenTypes
<1>5. moved' \in [Receipt -> [Line -> Nat]]
    BY <1>1, <1>2 DEF TypeInv, TypeOK
<1>6. QED BY <1>2, <1>3, <1>4, <1>5, UnlockTypes DEF TypeInv, TypeOK

LEMMA EndTypes ==
    ASSUME TypeInv, NEW p \in Request, FinishPosting(p) \/ FailPosting(p)
    PROVE  TypeInv'
<1>1. post' \in [Request -> Postings] /\ \A n \in Request : Bounded(post'[n])
    BY Idle, PostingTypes DEF FinishPosting, FailPosting
<1>2. CASE FinishPosting(p)
    <2>1. post[p] \in Postings /\ post[p].receipt \in Receipt
        BY <1>2 DEF FinishPosting, TypeInv, TypeOK, Bounded
    <2>2. status' \in OrderStatus
        BY <1>2, <2>1 DEF FinishPosting, Progress, TypeInv, TypeOK, Postings, OrderStatus, Receivable
    <2>3. receipt' \in [Receipt -> {"none", "draft", "posted", "cancelled"}]
        BY <1>2, <2>1 DEF FinishPosting, TypeInv, TypeOK
    <2>4. received' \in [Line -> Nat] /\ \A m \in Line : received'[m] <= Ordered[m]
        BY <1>2, WrittenTypes DEF FinishPosting
    <2>5. Unlock(p) /\ UNCHANGED <<accepted, moved, overlapped>>
        BY <1>2 DEF FinishPosting
    <2>6. QED BY <1>1, <2>2, <2>3, <2>4, <2>5, UnlockTypes DEF TypeInv, TypeOK
<1>3. CASE FailPosting(p)
    <2>1. Unlock(p) /\ UNCHANGED <<rows, overlapped>>
        BY <1>3 DEF FailPosting
    <2>2. QED BY <1>1, <2>1, UnlockTypes DEF TypeInv, TypeOK, rows
<1>4. QED BY <1>2, <1>3

LEMMA TypeInductive ==
    ASSUME TypeInv, [Next]_vars
    PROVE  TypeInv'
<1>1. CASE UNCHANGED vars
    BY <1>1 DEF vars, rows, locks, TypeInv, TypeOK
<1>2. CASE IssueOrder \/ AcknowledgeOrder \/ CancelOrder \/ CloseOrder
    BY <1>2 DEF IssueOrder, AcknowledgeOrder, CancelOrder, CloseOrder, SetOrder, locks,
        TypeInv, TypeOK, OrderStatus, Receivable
<1>3. ASSUME NEW r \in Receipt, ReceiptStep(r)
      PROVE  TypeInv'
    BY <1>3, ReceiptTypes
<1>4. ASSUME NEW p \in Request, PostingStep(p)
      PROVE  TypeInv'
    BY <1>4, LockReceiptTypes, LockOrderTypes, PostLineTypes, MoveLineTypes, EndTypes
    DEF PostingStep
<1>5. QED BY <1>1, <1>2, <1>3, <1>4 DEF Next

\* However postings interleave and fail, the order has received of no line more than was
\* ordered of it: for any lines, quantities, receipts and requests.
THEOREM NeverOverReceived == Spec => []TypeOK
<1>1. TypeInv /\ [Next]_vars => TypeInv'
    BY TypeInductive
<1>2. TypeInv => TypeOK
    BY DEF TypeInv
<1>3. QED BY <1>1, <1>2, TypeAtFirst, PTL DEF Spec

-----------------------------------------------------------------------------
(* Cancellation.                                                           *)

CancelledReceivesNothing ==
    status = "cancelled" =>
        \A l \in Line : received[l] = 0 /\ \A r \in Receipt : moved[r][l] = 0

SomethingReceived == \E l \in Line : received[l] > 0

\* What went into stock was received; a posting that works on lines of which it wrote none
\* keeps the order from being cancelled by its lock, another one by what it received; and
\* what it is to write of a line is more than nothing.
CancelInv ==
    /\ TypeInv
    /\ status = "cancelled" => ~SomethingReceived
    /\ (\E r \in Receipt, l \in Line : moved[r][l] > 0) => SomethingReceived
    /\ \A p \in Request :
         /\ post[p].phase = "lines" /\ orderLock = p => status # "cancelled"
         /\ post[p].phase = "lines" /\ orderLock # p => SomethingReceived
         /\ \A l \in post[p].dirty : post[p].received[l] > 0
         /\ post[p].phase # "lines" => post[p].dirty = {}

LEMMA CancelAtFirst == Init => CancelInv
<1>1. Init => TypeInv
    BY TypeAtFirst
<1>2. QED BY <1>1, Idle DEF Init, CancelInv, SomethingReceived

\* The rows of the order and the postings stay, or the lines do and nobody cancels.
LEMMA CancelKept ==
    ASSUME CancelInv, TypeInv', UNCHANGED <<received, moved, orderLock, post>>,
           status' = "cancelled" => ~SomethingReceived /\ (status = "cancelled" \/ orderLock = None)
    PROVE  CancelInv'
<1>1. \A p \in Request : p # None
    BY GoodsReceiptsAssumption
<1>2. QED BY <1>1 DEF CancelInv, SomethingReceived

\* A posting starts, or ends with what it has not written forgotten.
LEMMA CancelPosting ==
    ASSUME CancelInv, TypeInv', NEW p \in Request, NEW f \in Postings,
           post' = [post EXCEPT ![p] = f], UNCHANGED <<status, received, moved>>,
           \A q \in Request \ {p} : (orderLock' = q) = (orderLock = q),
           f.phase = "lines" => \/ orderLock' = p /\ status # "cancelled"
                                \/ orderLock' = orderLock /\ post[p].phase = "lines",
           f.phase # "lines" => f.dirty = {},
           \A l \in f.dirty : f.received[l] > 0
    PROVE  CancelInv'
<1>1. post'[p] = f /\ \A q \in Request \ {p} : post'[q] = post[q]
    BY DEF CancelInv, TypeInv, TypeOK
<1>2. ASSUME NEW q \in Request
      PROVE  /\ post'[q].phase = "lines" /\ orderLock' = q => status' # "cancelled"
             /\ post'[q].phase = "lines" /\ orderLock' # q => SomethingReceived'
             /\ \A l \in post'[q].dirty : post'[q].received[l] > 0
             /\ post'[q].phase # "lines" => post'[q].dirty = {}
    BY <1>1 DEF CancelInv, SomethingReceived
<1>3. QED BY <1>2 DEF CancelInv, SomethingReceived

\* A posting that works on lines finds the order not cancelled, and writes more of it.
LEMMA NotCancelled ==
    ASSUME CancelInv, NEW p \in Request, post[p].phase = "lines"
    PROVE  /\ status # "cancelled"
           /\ \A l \in Line : received[l] > 0 => Written(p)[l] > 0
<1>1. QED BY DEF CancelInv, Written

LEMMA CancelMoveLine ==
    ASSUME CancelInv, TypeInv', NEW p \in Request, NEW l \in Line, MoveLine(p, l)
    PROVE  CancelInv'
<1> DEFINE q == post[p].accepted[l]
           f == [post[p] EXCEPT !.received[l] = @ + q, !.todo = @ \ {l}, !.dirty = {}]
<1>1. post[p].phase = "lines" /\ status' = status /\ post' = [post EXCEPT ![p] = f] /\ Unlock(p)
    BY DEF MoveLine, Turn
<1>2. status # "cancelled"
    BY <1>1, NotCancelled
<1>3. post[p].received[l] + q \in Nat /\ post[p].received[l] + q > 0
    <2>1. post[p].received[l] \in Nat /\ q \in Nat
        <3>1. Turn(p, l) /\ Fits(p, l, q) /\ {} \in SUBSET Line /\ TypeInv
            BY DEF MoveLine, CancelInv
        <3>2. post[p] \in Postings
            BY <3>1 DEF TypeInv, TypeOK
        <3>3. QED BY <3>1, <3>2, LineTypes DEF Postings
    <2>2. q > 0
        BY DEF MoveLine, MovesStock
    <2>3. QED BY <2>1, <2>2
<1>4. SomethingReceived'
    <2>1. received' = [Written(p) EXCEPT ![l] = post[p].received[l] + q]
        BY DEF MoveLine, Received
    <2>2. received'[l] > 0
        BY <1>3, <2>1, WrittenTypes DEF CancelInv
    <2>3. QED BY <2>2 DEF SomethingReceived
<1>5. post'[p].dirty = {} /\ \A n \in Request \ {p} : post'[n] = post[n]
    <2>1. post[p] \in Postings
        BY DEF CancelInv, TypeInv, TypeOK
    <2>2. f.dirty = {}
        BY <2>1 DEF Postings
    <2>3. QED BY <1>1, <2>2 DEF CancelInv, TypeInv, TypeOK
<1>6. QED BY <1>1, <1>2, <1>4, <1>5 DEF CancelInv

LEMMA CancelFinish ==
    ASSUME CancelInv, TypeInv', NEW p \in Request, FinishPosting(p)
    PROVE  CancelInv'
<1>1. post[p].phase = "lines" /\ post[p] \in Postings
    BY DEF FinishPosting, CancelInv, TypeInv, TypeOK
<1>2. /\ status # "cancelled"
      /\ \A l \in Line : received[l] > 0 => received'[l] > 0
    BY <1>1, NotCancelled DEF FinishPosting
<1>3. SomethingReceived => SomethingReceived'
    BY <1>2 DEF SomethingReceived
<1>4. status' # "cancelled"
    BY <1>2 DEF FinishPosting, Progress
<1>5. /\ post'[p] = NoPosting /\ \A q \in Request \ {p} : post'[q] = post[q]
      /\ orderLock' # p /\ \A q \in Request \ {p} : (orderLock' = q) = (orderLock = q)
    BY GoodsReceiptsAssumption DEF FinishPosting, Unlock, CancelInv, TypeInv, TypeOK
<1>6. QED BY <1>3, <1>4, <1>5, Idle DEF CancelInv, FinishPosting

LEMMA CancelSteps ==
    ASSUME CancelInv, [Next]_vars
    PROVE  CancelInv'
<1>0. TypeInv'
    BY TypeInductive DEF CancelInv
<1>1. CASE UNCHANGED vars
    BY <1>0, <1>1, CancelKept DEF vars, rows, locks, CancelInv
<1>2. CASE IssueOrder \/ AcknowledgeOrder \/ CancelOrder \/ CloseOrder
    <2>1. UNCHANGED <<received, moved, orderLock, post>> /\ orderLock = None
        BY <1>2 DEF IssueOrder, AcknowledgeOrder, CancelOrder, CloseOrder, SetOrder, locks
    <2>2. status' = "cancelled" => ~SomethingReceived
        BY <1>2 DEF IssueOrder, AcknowledgeOrder, CancelOrder, CloseOrder, SetOrder,
            NothingReceived, SomethingReceived
    <2>3. QED BY <1>0, <2>1, <2>2, CancelKept
<1>3. ASSUME NEW r \in Receipt, ReceiptStep(r)
      PROVE  CancelInv'
    <2>1. UNCHANGED <<status, received, moved, orderLock, post>>
        BY <1>3 DEF ReceiptStep, CreateReceipt, AddLine, UpdateLine, DeleteLine, SetLine,
            CancelReceipt, locks
    <2>2. QED BY <1>0, <2>1, CancelKept DEF CancelInv
<1>4. ASSUME NEW p \in Request, NEW r \in Receipt, LockReceipt(p, r)
      PROVE  CancelInv'
    <2> DEFINE f == [NoPosting EXCEPT !.phase = "order", !.receipt = r]
    <2>1. f \in Postings /\ f.phase = "order" /\ f.dirty = {}
        BY Idle DEF Postings
    <2>2. post' = [post EXCEPT ![p] = f] /\ UNCHANGED <<status, received, moved, orderLock>>
        BY <1>4 DEF LockReceipt, rows
    <2> HIDE DEF f
    <2>3. QED BY <1>0, <2>1, <2>2, CancelPosting
<1>5. ASSUME NEW p \in Request, LockOrder(p)
      PROVE  CancelInv'
    <2> DEFINE lines == accepted[post[p].receipt]
               f == [post[p] EXCEPT !.phase = "lines", !.status = status, !.received = received,
                                    !.accepted = lines, !.todo = Present(lines)]
    <2>1. post' = [post EXCEPT ![p] = f] /\ UNCHANGED <<status, received, moved>>
          /\ orderLock = None /\ orderLock' = p /\ status # "cancelled"
        BY <1>5 DEF LockOrder, rows, Receivable
    <2>2. post[p] \in Postings /\ post[p].receipt \in Receipt /\ post[p].dirty = {}
        BY <1>5 DEF LockOrder, CancelInv, TypeInv, TypeOK, Bounded
    <2>3. lines \in Lines /\ Present(lines) \subseteq Line
        BY <2>2 DEF CancelInv, TypeInv, TypeOK, Present
    <2> HIDE DEF lines
    <2>4. f \in Postings /\ f.phase = "lines" /\ f.dirty = {}
        BY <2>2, <2>3 DEF Postings, CancelInv, TypeInv, TypeOK
    <2>5. \A q \in Request \ {p} : (orderLock' = q) = (orderLock = q)
        BY <2>1, GoodsReceiptsAssumption
    <2> HIDE DEF f
    <2>6. QED BY <1>0, <2>1, <2>4, <2>5, CancelPosting
<1>6. ASSUME NEW p \in Request, NEW l \in Line, PostLine(p, l)
      PROVE  CancelInv'
    <2> DEFINE q == post[p].accepted[l]
               dirty == IF q > 0 THEN post[p].dirty \cup {l} ELSE post[p].dirty
               f == [post[p] EXCEPT !.received[l] = @ + q, !.todo = @ \ {l}, !.dirty = dirty]
    <2>1. /\ Turn(p, l) /\ Fits(p, l, q) /\ TypeInv
          /\ post' = [post EXCEPT ![p] = f] /\ UNCHANGED <<status, received, moved, orderLock>>
        BY <1>6 DEF PostLine, CancelInv, rows
    <2>2. /\ post[p] \in Postings /\ post[p].phase = "lines"
          /\ \A m \in post[p].dirty : post[p].received[m] > 0
        BY <2>1 DEF CancelInv, TypeInv, TypeOK, Turn
    <2>3. dirty \in SUBSET Line
        BY <2>2 DEF Postings
    <2>4. q \in Nat /\ f \in Postings
        <3> HIDE DEF dirty
        <3>1. QED BY <2>1, <2>3, LineTypes
    <2>5. f.phase = "lines" /\ \A m \in f.dirty : f.received[m] > 0
        <3>1. f.phase = "lines" /\ f.dirty = dirty /\ f.received = [post[p].received EXCEPT ![l] = @ + q]
            BY <2>2 DEF Postings
        <3>2. \A m \in Line : post[p].received[m] \in Nat
            BY <2>2 DEF Postings
        <3>3. ASSUME NEW m \in dirty
              PROVE  f.received[m] > 0
            <4>1. m \in Line /\ f.received[m] = IF m = l THEN post[p].received[l] + q
                                                       ELSE post[p].received[m]
                BY <2>2, <2>3, <3>1 DEF Postings
            <4> HIDE DEF f, q
            <4>2. m \in post[p].dirty \/ (m = l /\ q > 0)
                BY <3>3
            <4>3. QED BY <2>2, <2>4, <3>2, <4>1, <4>2
        <3>4. QED BY <3>1, <3>3
    <2> HIDE DEF f
    <2>6. QED BY <1>0, <2>1, <2>2, <2>4, <2>5, CancelPosting
<1>7. ASSUME NEW p \in Request, NEW l \in Line, MoveLine(p, l)
      PROVE  CancelInv'
    BY <1>0, <1>7, CancelMoveLine
<1>8. ASSUME NEW p \in Request, FinishPosting(p)
      PROVE  CancelInv'
    BY <1>0, <1>8, CancelFinish
<1>9. ASSUME NEW p \in Request, FailPosting(p)
      PROVE  CancelInv'
    <2>1. /\ post' = [post EXCEPT ![p] = NoPosting] /\ UNCHANGED <<status, received, moved>>
          /\ \A q \in Request \ {p} : (orderLock' = q) = (orderLock = q)
        BY <1>9, GoodsReceiptsAssumption DEF FailPosting, Unlock, rows
    <2>2. QED BY <1>0, <2>1, Idle, CancelPosting
<1>10. QED BY <1>1, <1>2, <1>3, <1>4, <1>5, <1>6, <1>7, <1>8, <1>9 DEF Next, PostingStep

\* An order that is cancelled received nothing and moved nothing into stock, although a
\* posting keeps no lock on it after its first line: for any lines, receipts and requests.
THEOREM CancelledForNothing == Spec => []CancelledReceivesNothing
<1>1. CancelInv /\ [Next]_vars => CancelInv'
    BY CancelSteps
<1>2. CancelInv => CancelledReceivesNothing
    BY DEF CancelInv, TypeInv, TypeOK, SomethingReceived, CancelledReceivesNothing
<1>3. QED BY <1>1, <1>2, CancelAtFirst, PTL DEF Spec
-----------------------------------------------------------------------------
(* The order and the stock.                                                *)

LEMMA MovedType ==
    ASSUME TypeOK, NEW l \in Line
    PROVE  Moved(l) \in Nat
<1> DEFINE f == [r \in Receipt |-> moved[r][l]]
<1>1. IsFiniteSet(Receipt) /\ \A r \in Receipt : f[r] \in Nat
    BY GoodsReceiptsAssumption DEF TypeOK
<1>2. Moved(l) = SumFunctionOnSet(f, Receipt)
    BY DEF Moved, SumFunction
<1> HIDE DEF f
<1>3. QED BY <1>1, <1>2, SumNat

\* A line that moves stock adds what it moves, to what its posting received, to the order
\* and to the stock.
Adds(p, l, q, r) ==
    /\ q \in Nat /\ r \in Receipt /\ post[p].phase = "lines"
    /\ l \in StockLine /\ l \in post[p].todo
    /\ post[p] \in Postings /\ post'[p] \in Postings
    /\ \A n \in Request \ {p} : post'[n] = post[n]
    /\ post'[p].received = [post[p].received EXCEPT ![l] = @ + q]
    /\ post'[p].todo = post[p].todo \ {l} /\ post'[p].dirty = {}
    /\ UNCHANGED <<post[p].phase, post[p].receipt, post[p].accepted, post[p].status>>
    /\ received' = [Written(p) EXCEPT ![l] = post[p].received[l] + q]
    /\ \A k \in Receipt, m \in Line :
           moved'[k][m] = IF k = r /\ m = l THEN moved[k][m] + q ELSE moved[k][m]

LEMMA MoveLineAdds ==
    ASSUME TypeInv, NEW p \in Request, NEW l \in Line, MoveLine(p, l)
    PROVE  Adds(p, l, post[p].accepted[l], post[p].receipt)
<1> DEFINE q == post[p].accepted[l]
           f == [post[p] EXCEPT !.received[l] = @ + q, !.todo = @ \ {l}, !.dirty = {}]
<1>1. /\ q \in Nat /\ post[p].receipt \in Receipt /\ post[p] \in Postings /\ f \in Postings
    <2>1. Turn(p, l) /\ Fits(p, l, q) /\ {} \in SUBSET Line
        BY DEF MoveLine
    <2>2. QED BY <2>1, LineTypes
<1>2. post'[p] = f /\ \A n \in Request \ {p} : post'[n] = post[n]
    BY DEF MoveLine, TypeInv, TypeOK
<1>3. post[p].phase = "lines" /\ l \in StockLine /\ l \in post[p].todo
    BY DEF MoveLine, Turn, MovesStock
<1>4. received' = [Written(p) EXCEPT ![l] = post[p].received[l] + q]
    BY DEF MoveLine, Received
<1>5. \A k \in Receipt, m \in Line :
          moved'[k][m] = IF k = post[p].receipt /\ m = l THEN moved[k][m] + q ELSE moved[k][m]
    BY <1>1 DEF MoveLine, TypeInv, TypeOK
<1>6. /\ f.received = [post[p].received EXCEPT ![l] = @ + q]
      /\ f.todo = post[p].todo \ {l} /\ f.dirty = {}
      /\ f.phase = post[p].phase /\ f.receipt = post[p].receipt
      /\ f.accepted = post[p].accepted /\ f.status = post[p].status
    BY <1>1 DEF Postings
<1> HIDE DEF f
<1>7. QED BY <1>1, <1>2, <1>3, <1>4, <1>5, <1>6 DEF Adds

LEMMA MovedGrows ==
    ASSUME TypeInv, NEW p \in Request, NEW l \in Line, MoveLine(p, l), NEW m \in Line
    PROVE  Moved(m)' = IF m = l THEN Moved(m) + post[p].accepted[l] ELSE Moved(m)
<1> DEFINE q == post[p].accepted[l]
           r == post[p].receipt
           f == [k \in Receipt |-> moved[k][m]]
           g == [k \in Receipt |-> moved'[k][m]]
<1>0. Adds(p, l, q, r)
    BY MoveLineAdds
<1>1. r \in Receipt /\ q \in Nat
    BY <1>0 DEF Adds
<1>2. /\ \A k \in Receipt : f[k] \in Int /\ g[k] \in Int /\ (k # r => g[k] = f[k])
      /\ g[r] = IF m = l THEN f[r] + q ELSE f[r]
    <2>1. \A k \in Receipt : moved'[k][m] = IF k = r /\ m = l THEN moved[k][m] + q ELSE moved[k][m]
        BY <1>0 DEF Adds
    <2>2. \A k \in Receipt : moved[k][m] \in Nat
        BY DEF TypeInv, TypeOK
    <2> HIDE DEF q, r
    <2>3. QED BY <1>1, <2>1, <2>2
<1>3. /\ Moved(m) = SumFunctionOnSet(f, Receipt) /\ Moved(m)' = SumFunctionOnSet(g, Receipt)
      /\ IsFiniteSet(Receipt)
    BY GoodsReceiptsAssumption DEF Moved, SumFunction
<1>4. Moved(m) \in Nat
    BY MovedType DEF TypeInv
<1> HIDE DEF f, g, q, r
<1>5. SumFunctionOnSet(g, Receipt) = (SumFunctionOnSet(f, Receipt) - f[r]) + g[r]
    BY <1>1, <1>2, <1>3, SumChange
<1>6. Moved(m)' = IF m = l THEN Moved(m) + q ELSE Moved(m)
    <2>1. f[r] \in Int
        BY <1>1, <1>2
    <2>2. QED BY <1>1, <1>2, <1>3, <1>4, <1>5, <2>1
<1>7. QED BY <1>6 DEF q

-----------------------------------------------------------------------------
(* What the order claims went into stock.                                  *)

\* Neither the order nor what a posting holds of it claims more than went into stock.
PhantomInv ==
    \A l \in StockLine : received[l] <= Moved(l) /\ \A p \in Request : post[p].received[l] <= Moved(l)

\* As long as the stock is not less and the rows take no more from the postings.
LEMMA PhantomKept ==
    ASSUME TypeInv, TypeInv', PhantomInv, UNCHANGED moved,
           \A l \in StockLine : received'[l] \in {received[l]} \cup {post[p].received[l] : p \in Request},
           \A l \in StockLine, p \in Request :
               post'[p].received[l] \in {0, received[l], post[p].received[l]}
    PROVE  PhantomInv'
<1> SUFFICES ASSUME NEW l \in StockLine
             PROVE  received'[l] <= Moved(l) /\ \A p \in Request : post'[p].received[l] <= Moved(l)
    BY DEF PhantomInv, Moved
<1>1. Moved(l) \in Nat /\ l \in Line
    BY MovedType, GoodsReceiptsAssumption DEF TypeInv
<1>2. QED BY <1>1 DEF PhantomInv

LEMMA PhantomSteps ==
    ASSUME TypeInv, TypeInv', PhantomInv, [Next]_vars
    PROVE  PhantomInv'
<1>0. StockLine \subseteq Line
    BY GoodsReceiptsAssumption
<1>1. CASE UNCHANGED <<received, moved, post>>
    BY <1>1, PhantomKept
<1>2. ASSUME NEW p \in Request, UNCHANGED <<received, moved>>,
             NEW f, post' = [post EXCEPT ![p] = f],
             \A l \in StockLine : f.received[l] \in {0, received[l], post[p].received[l]}
      PROVE  PhantomInv'
    <2>1. \A q \in Request : post'[q] = IF q = p THEN f ELSE post[q]
        BY <1>2 DEF TypeInv, TypeOK
    <2>2. QED BY <1>2, <2>1, PhantomKept
<1>3. ASSUME NEW p \in Request, NEW r \in Receipt, LockReceipt(p, r)
      PROVE  PhantomInv'
    <2> DEFINE f == [NoPosting EXCEPT !.phase = "order", !.receipt = r]
    <2>1. post' = [post EXCEPT ![p] = f] /\ UNCHANGED <<received, moved>>
        BY <1>3 DEF LockReceipt, rows
    <2>2. \A l \in StockLine : f.received[l] = 0
        BY <1>0 DEF NoPosting
    <2> HIDE DEF f
    <2>3. \A l \in StockLine : f.received[l] \in {0, received[l], post[p].received[l]}
        BY <2>2
    <2>4. QED BY <1>2, <2>1, <2>3
<1>4. ASSUME NEW p \in Request, LockOrder(p)
      PROVE  PhantomInv'
    <2> DEFINE lines == accepted[post[p].receipt]
               f == [post[p] EXCEPT !.phase = "lines", !.status = status, !.received = received,
                                    !.accepted = lines, !.todo = Present(lines)]
    <2>1. post' = [post EXCEPT ![p] = f] /\ UNCHANGED <<received, moved>>
        BY <1>4 DEF LockOrder, rows
    <2>2. \A l \in StockLine : f.received[l] = received[l]
        BY DEF TypeInv, TypeOK, Postings
    <2> HIDE DEF f
    <2>3. \A l \in StockLine : f.received[l] \in {0, received[l], post[p].received[l]}
        BY <2>2
    <2>4. QED BY <1>2, <2>1, <2>3
<1>5. ASSUME NEW p \in Request, NEW l \in Line, PostLine(p, l)
      PROVE  PhantomInv'
    <2> DEFINE q == post[p].accepted[l]
               dirty == IF q > 0 THEN post[p].dirty \cup {l} ELSE post[p].dirty
               f == [post[p] EXCEPT !.received[l] = @ + q, !.todo = @ \ {l}, !.dirty = dirty]
    <2>1. post' = [post EXCEPT ![p] = f] /\ UNCHANGED <<received, moved>>
        BY <1>5 DEF PostLine, rows
    <2>2. q \in Nat /\ post[p] \in Postings
        <3>1. Turn(p, l) /\ Fits(p, l, q) /\ {} \in SUBSET Line
            BY <1>5 DEF PostLine
        <3>2. QED BY <3>1, LineTypes
    <2>3. f.received = [post[p].received EXCEPT ![l] = @ + q]
        BY <2>2 DEF Postings
    <2>4. l \in StockLine => q = 0
        BY <1>5, <2>2 DEF PostLine, MovesStock
    <2>5. \A m \in StockLine : f.received[m] = post[p].received[m]
        <3> HIDE DEF f, q
        <3>1. QED BY <1>0, <2>2, <2>3, <2>4 DEF Postings
    <2> HIDE DEF f
    <2>6. \A m \in StockLine : f.received[m] \in {0, received[m], post[p].received[m]}
        BY <2>5
    <2>7. QED BY <1>2, <2>1, <2>6
<1>6. ASSUME NEW p \in Request, NEW l \in Line, MoveLine(p, l)
      PROVE  PhantomInv'
    <2> DEFINE q == post[p].accepted[l]
    <2> SUFFICES ASSUME NEW m \in StockLine
                 PROVE  received'[m] <= Moved(m)' /\ \A n \in Request : post'[n].received[m] <= Moved(m)'
        BY DEF PhantomInv
    <2>0. Adds(p, l, q, post[p].receipt) /\ m \in Line
        BY <1>0, <1>6, MoveLineAdds
    <2>1. /\ q \in Nat /\ m \in Line
          /\ Moved(m)' = (IF m = l THEN Moved(m) + q ELSE Moved(m)) /\ Moved(m) \in Nat
        BY <1>6, <2>0, MovedGrows, MovedType DEF TypeInv, Adds
    <2>2. /\ post[p].received \in [Line -> Nat] /\ received \in [Line -> Nat]
          /\ received' = [Written(p) EXCEPT ![l] = post[p].received[l] + q]
          /\ post'[p].received = [post[p].received EXCEPT ![l] = @ + q]
          /\ \A n \in Request \ {p} : post'[n] = post[n] /\ post[n].received \in [Line -> Nat]
        BY <2>0 DEF Adds, TypeInv, TypeOK, Postings
    <2> HIDE DEF q
    <2>3. received[m] <= Moved(m) /\ \A n \in Request : post[n].received[m] <= Moved(m)
        BY DEF PhantomInv
    <2>4. post'[p].received[m] <= Moved(m)'
        BY <2>1, <2>2, <2>3
    <2>5. received'[m] <= Moved(m)'
        BY <2>1, <2>2, <2>3 DEF Written
    <2>6. ASSUME NEW n \in Request \ {p}
          PROVE  post'[n].received[m] <= Moved(m)'
        BY <2>1, <2>2, <2>3
    <2>7. QED BY <2>4, <2>5, <2>6
<1>7. ASSUME NEW p \in Request, FinishPosting(p) \/ FailPosting(p)
      PROVE  PhantomInv'
    <2>1. UNCHANGED moved /\ post' = [post EXCEPT ![p] = NoPosting]
        BY <1>7 DEF FinishPosting, FailPosting, rows
    <2>2. \A l \in StockLine : received'[l] \in {received[l], post[p].received[l]}
        BY <1>0, <1>7 DEF FinishPosting, FailPosting, Written, rows
    <2>3. \A q \in Request, l \in StockLine : post'[q].received[l] \in {0, post[q].received[l]}
        BY <1>0, <2>1 DEF NoPosting, TypeInv, TypeOK
    <2>4. QED BY <2>1, <2>2, <2>3, PhantomKept
<1>8. CASE UNCHANGED vars \/ IssueOrder \/ AcknowledgeOrder \/ CancelOrder \/ CloseOrder
           \/ \E r \in Receipt : ReceiptStep(r)
    <2>1. UNCHANGED <<received, moved, post>>
        BY <1>8 DEF vars, rows, IssueOrder, AcknowledgeOrder, CancelOrder, CloseOrder, SetOrder,
            ReceiptStep, CreateReceipt, AddLine, UpdateLine, DeleteLine, SetLine, CancelReceipt
    <2>2. QED BY <2>1, <1>1
<1>9. QED BY <1>3, <1>4, <1>5, <1>6, <1>7, <1>8 DEF Next, PostingStep

\* However postings interleave and fail, the order claims no more than went into stock, and
\* a cancelled one received nothing: for any lines, quantities, receipts and requests.
THEOREM OrderClaimsNoPhantoms == Spec => []NoPhantomReceipt
<1>1. Init => TypeInv /\ CancelInv /\ PhantomInv
    <2>1. ASSUME Init PROVE PhantomInv
        <3>1. TypeInv
            BY <2>1, TypeAtFirst
        <3>2. ASSUME NEW l \in StockLine
              PROVE  received[l] <= Moved(l) /\ \A p \in Request : post[p].received[l] <= Moved(l)
            <4>1. l \in Line
                BY GoodsReceiptsAssumption
            <4>2. Moved(l) \in Nat
                BY <3>1, <4>1, MovedType DEF TypeInv
            <4>3. received[l] = 0 /\ \A p \in Request : post[p].received[l] = 0
                BY <2>1, <4>1 DEF Init, NoPosting
            <4>4. QED BY <4>2, <4>3
        <3>3. QED BY <3>2 DEF PhantomInv
    <2>2. QED BY <2>1, TypeAtFirst, CancelAtFirst
<1>2. TypeInv /\ CancelInv /\ PhantomInv /\ [Next]_vars => (TypeInv /\ CancelInv /\ PhantomInv)'
    BY TypeInductive, CancelSteps, PhantomSteps
<1>3. CancelInv /\ PhantomInv => NoPhantomReceipt
    BY DEF CancelInv, TypeInv, TypeOK, SomethingReceived, PhantomInv, NoPhantomReceipt
<1>4. QED BY <1>1, <1>2, <1>3, PTL DEF Spec
-----------------------------------------------------------------------------
(* Postings that do not overlap.                                           *)

\* What a receipt accepted of these lines is in stock.
MovedIntoStock(r, lines) == \A l \in lines : accepted[r][l] # None => accepted[r][l] <= moved[r][l]

\* A posting of lines holds the receipt as it is, and the order as it is except for what it
\* added to lines that move no stock; and the stock lines it is done with are in stock.
Faithful(p) ==
    LET r == post[p].receipt
    IN /\ post[p].accepted = accepted[r]
       /\ \A l \in Line : received[l] <= post[p].received[l]
       /\ \A l \in Line \ post[p].dirty : received[l] = post[p].received[l]
       /\ post[p].dirty \cap StockLine = {}
       /\ MovedIntoStock(r, StockLine \ post[p].todo)

Underway(p) == post[p].phase # "idle"

Complete == \A l \in Line : received[l] = Ordered[l]

Serial ==
    /\ \A p, q \in Request : Underway(p) /\ Underway(q) => p = q
    /\ \A p \in Request : post[p].phase = "lines" => Faithful(p)
    /\ \A l \in StockLine : received[l] = Moved(l)
    /\ \A r \in Receipt : receipt[r] = "posted" => MovedIntoStock(r, StockLine)
    /\ status \in {"received", "closed"} => Complete

\* Only receipts that were made are posted; and until postings overlap, they are serial.
SerialInv ==
    /\ \A p \in Request : Underway(p) => receipt[post[p].receipt] # "none"
    /\ ~overlapped => Serial

LEMMA SerialAtFirst == Init => SerialInv
<1> SUFFICES ASSUME Init PROVE SerialInv OBVIOUS
<1>1. \A p \in Request : post[p].phase = "idle"
    BY Idle DEF Init
<1>2. ASSUME NEW l \in StockLine
      PROVE  received[l] = Moved(l)
    <2> DEFINE f == [r \in Receipt |-> moved[r][l]]
    <2>1. l \in Line /\ IsFiniteSet(Receipt)
        BY GoodsReceiptsAssumption
    <2>2. \A r \in Receipt : f[r] = 0
        BY <2>1 DEF Init
    <2>3. Moved(l) = SumFunctionOnSet(f, Receipt)
        BY DEF Moved, SumFunction
    <2> HIDE DEF f
    <2>4. QED BY <2>1, <2>2, <2>3, SumZero DEF Init
<1>3. \A r \in Receipt : receipt[r] # "posted"
    BY DEF Init
<1>4. status = "draft"
    BY DEF Init
<1>5. QED BY <1>1, <1>2, <1>3, <1>4 DEF SerialInv, Serial, Underway

\* The rows of one receipt change that no posting holds, or its status only.
LEMMA SerialReceipt ==
    ASSUME TypeInv, SerialInv, NEW r \in Receipt, UNCHANGED <<status, received, moved, post>>,
           \A k \in Receipt \ {r} : accepted'[k] = accepted[k] /\ receipt'[k] = receipt[k],
           receipt'[r] \in {"draft", "cancelled"},
           ~overlapped' => ~overlapped /\ \/ accepted'[r] = accepted[r]
                                          \/ \A p \in Request : Underway(p) => post[p].receipt # r
    PROVE  SerialInv'
<1>1. \A p \in Request : Underway(p) => post[p].receipt \in Receipt
    BY DEF TypeInv, Underway, Bounded
<1>2. \A p \in Request : Underway(p)' = Underway(p)
    BY DEF Underway
<1>3. \A p \in Request : Underway(p)' => receipt'[post'[p].receipt] # "none"
    BY <1>1, <1>2 DEF SerialInv
<1>4. ASSUME ~overlapped' PROVE Serial'
    <2>1. Serial
        BY <1>4 DEF SerialInv
    <2>2. ASSUME NEW p \in Request, post'[p].phase = "lines"
          PROVE  Faithful(p)'
        <3>1. Underway(p) /\ Faithful(p)
            BY <2>1, <2>2 DEF Serial, Underway
        <3>2. accepted'[post[p].receipt] = accepted[post[p].receipt]
            BY <1>1, <1>4, <3>1
        <3>3. QED BY <3>1, <3>2 DEF Faithful, MovedIntoStock
    <2>3. ASSUME NEW k \in Receipt, receipt'[k] = "posted"
          PROVE  MovedIntoStock(k, StockLine)'
        <3>1. accepted'[k] = accepted[k] /\ receipt[k] = "posted"
            BY <2>3
        <3>2. QED BY <2>1, <3>1 DEF Serial, MovedIntoStock
    <2>4. \A l \in StockLine : received'[l] = Moved(l)'
        BY <2>1 DEF Serial, Moved
    <2>5. QED BY <1>2, <2>1, <2>2, <2>3, <2>4 DEF Serial, Complete
<1>5. QED BY <1>3, <1>4 DEF SerialInv

LEMMA SerialReceiptStep ==
    ASSUME TypeInv, SerialInv, NEW r \in Receipt, ReceiptStep(r)
    PROVE  SerialInv'
<1>1. UNCHANGED <<status, received, moved, post>>
    BY DEF ReceiptStep, CreateReceipt, AddLine, UpdateLine, DeleteLine, SetLine, CancelReceipt
<1>2. ASSUME NEW d \in Deliveries, CreateReceipt(r, d)
      PROVE  SerialInv'
    <2>1. \A p \in Request : Underway(p) => post[p].receipt # r
        BY <1>2 DEF CreateReceipt, SerialInv
    <2>2. QED BY <1>1, <1>2, <2>1, SerialReceipt DEF CreateReceipt, TypeInv, TypeOK
<1>3. ASSUME NEW l \in Line, NEW q, SetLine(r, l, q)
      PROVE  SerialInv'
    <2>1. ~overlapped' => ~overlapped /\ \A p \in Request : post[p].receipt # r
        BY <1>3 DEF SetLine, TypeInv, TypeOK
    <2>2. QED BY <1>1, <1>3, <2>1, SerialReceipt DEF SetLine, TypeInv, TypeOK
<1>4. CASE CancelReceipt(r)
    BY <1>1, <1>4, SerialReceipt DEF CancelReceipt, TypeInv, TypeOK
<1>5. QED BY <1>2, <1>3, <1>4 DEF ReceiptStep, AddLine, UpdateLine, DeleteLine

LEMMA SerialOrder ==
    ASSUME TypeInv, SerialInv, IssueOrder \/ AcknowledgeOrder \/ CancelOrder \/ CloseOrder
    PROVE  SerialInv'
<1>1. /\ UNCHANGED <<received, receipt, accepted, moved, post, overlapped>>
      /\ status' \in {"received", "closed"} => status \in {"received", "closed"}
    BY DEF IssueOrder, AcknowledgeOrder, CancelOrder, CloseOrder, SetOrder
<1>2. QED BY <1>1 DEF SerialInv, Serial, Underway, Faithful, MovedIntoStock, Complete, Moved

\* The rows stay, and a posting becomes f.
LEMMA SerialPosting ==
    ASSUME TypeInv, SerialInv, NEW p \in Request, NEW f, post' = [post EXCEPT ![p] = f],
           UNCHANGED rows, overlapped => overlapped',
           f.phase # "idle" => receipt[f.receipt] # "none",
           ~overlapped' => (f.phase # "idle" => \A q \in Request \ {p} : ~Underway(q)),
           ~overlapped' => (f.phase = "lines" => Faithful(p)')
    PROVE  SerialInv'
<1>1. post'[p] = f /\ \A q \in Request \ {p} : post'[q] = post[q]
    BY DEF TypeInv, TypeOK
<1>2. UNCHANGED <<status, received, receipt, accepted, moved>>
    BY DEF rows
<1>3. ASSUME NEW q \in Request, Underway(q)'
      PROVE  receipt'[post'[q].receipt] # "none"
    BY <1>1, <1>2, <1>3 DEF SerialInv, Underway
<1>4. ASSUME ~overlapped' PROVE Serial'
    <2>1. Serial
        BY <1>4 DEF SerialInv
    <2>2. ASSUME NEW q \in Request, NEW n \in Request, Underway(q)', Underway(n)'
          PROVE  q = n
        BY <1>1, <1>4, <2>1, <2>2 DEF Serial, Underway
    <2>3. ASSUME NEW q \in Request, post'[q].phase = "lines"
          PROVE  Faithful(q)'
        <3>1. CASE q = p
            BY <1>1, <1>4, <2>3, <3>1
        <3>2. CASE q # p
            <4>1. Faithful(q) /\ post'[q] = post[q]
                BY <1>1, <2>1, <2>3, <3>2 DEF Serial
            <4>2. QED BY <1>2, <4>1 DEF Faithful, MovedIntoStock
        <3>3. QED BY <3>1, <3>2
    <2>4. QED BY <1>2, <2>1, <2>2, <2>3 DEF Serial, Moved, MovedIntoStock, Complete
<1>5. QED BY <1>3, <1>4 DEF SerialInv

LEMMA SerialLocks ==
    ASSUME TypeInv, CancelInv, SerialInv, NEW p \in Request,
           LockOrder(p) \/ \E r \in Receipt : LockReceipt(p, r)
    PROVE  SerialInv'
<1>1. ASSUME NEW r \in Receipt, LockReceipt(p, r)
      PROVE  SerialInv'
    <2> DEFINE f == [NoPosting EXCEPT !.phase = "order", !.receipt = r]
    <2>1. post' = [post EXCEPT ![p] = f] /\ UNCHANGED rows /\ receipt[r] = "draft"
          /\ overlapped' = (overlapped \/ \E q \in Request : post[q].phase # "idle")
        BY <1>1 DEF LockReceipt
    <2>2. f.phase = "order" /\ f.receipt = r
        BY DEF NoPosting
    <2>3. overlapped => overlapped'
        BY <2>1 DEF TypeInv, TypeOK
    <2>4. ~overlapped' => \A q \in Request : ~Underway(q)
        BY <2>1 DEF Underway, TypeInv, TypeOK
    <2> HIDE DEF f
    <2>5. QED BY <2>1, <2>2, <2>3, <2>4, SerialPosting
<1>2. CASE LockOrder(p)
    <2> DEFINE lines == accepted[post[p].receipt]
               f == [post[p] EXCEPT !.phase = "lines", !.status = status, !.received = received,
                                    !.accepted = lines, !.todo = Present(lines)]
    <2>1. /\ post' = [post EXCEPT ![p] = f] /\ UNCHANGED <<rows, overlapped>>
          /\ Underway(p) /\ post[p].dirty = {} /\ post[p] \in Postings /\ post[p].receipt \in Receipt
        BY <1>2 DEF LockOrder, Underway, CancelInv, TypeInv, TypeOK, Bounded
    <2>2. /\ f.phase = "lines" /\ f.receipt = post[p].receipt /\ f.received = received
          /\ f.accepted = lines /\ f.todo = Present(lines) /\ f.dirty = {} /\ post'[p] = f
        BY <2>1 DEF Postings, TypeInv, TypeOK
    <2>3. receipt[f.receipt] # "none"
        BY <2>1, <2>2 DEF SerialInv
    <2>4. ~overlapped' => \A q \in Request \ {p} : ~Underway(q)
        BY <2>1 DEF SerialInv, Serial
    <2> HIDE DEF f
    <2>5. Faithful(p)'
        <3>1. UNCHANGED <<received, accepted, moved>> /\ received \in [Line -> Nat]
            BY <2>1 DEF rows, TypeInv, TypeOK
        <3>2. \A l \in StockLine \ Present(lines) : lines[l] = None
            BY GoodsReceiptsAssumption DEF Present
        <3>3. QED BY <2>2, <3>1, <3>2 DEF Faithful, MovedIntoStock
    <2>6. QED BY <2>1, <2>2, <2>3, <2>4, <2>5, SerialPosting
<1>3. QED BY <1>1, <1>2

LEMMA SerialPostLine ==
    ASSUME TypeInv, SerialInv, NEW p \in Request, NEW l \in Line, PostLine(p, l)
    PROVE  SerialInv'
<1> DEFINE q == post[p].accepted[l]
           dirty == IF q > 0 THEN post[p].dirty \cup {l} ELSE post[p].dirty
           f == [post[p] EXCEPT !.received[l] = @ + q, !.todo = @ \ {l}, !.dirty = dirty]
           r == post[p].receipt
<1>1. /\ post' = [post EXCEPT ![p] = f] /\ UNCHANGED <<rows, overlapped>>
      /\ post[p].phase = "lines" /\ (l \in StockLine => ~(q > 0))
    BY DEF PostLine, Turn, MovesStock
<1>2. q \in Nat /\ post[p] \in Postings /\ r \in Receipt
    <2>1. Turn(p, l) /\ Fits(p, l, q) /\ {} \in SUBSET Line
        BY DEF PostLine
    <2>2. QED BY <2>1, LineTypes
<1>3. /\ f.phase = "lines" /\ f.receipt = r /\ f.received = [post[p].received EXCEPT ![l] = @ + q]
      /\ f.accepted = post[p].accepted /\ f.todo = post[p].todo \ {l} /\ f.dirty = dirty
      /\ post'[p] = f
    BY <1>1, <1>2 DEF Postings, TypeInv, TypeOK
<1>4. receipt[r] # "none"
    BY <1>1 DEF SerialInv, Underway
<1>5. ~overlapped' => \A n \in Request \ {p} : ~Underway(n)
    BY <1>1 DEF SerialInv, Serial, Underway
<1> HIDE DEF f
<1>6. ASSUME ~overlapped' PROVE Faithful(p)'
    <2>1. Faithful(p) /\ UNCHANGED <<received, accepted, moved>>
        BY <1>1, <1>6 DEF SerialInv, Serial, rows
    <2>2. post[p].received \in [Line -> Nat] /\ received \in [Line -> Nat] /\ moved[r] \in [Line -> Nat]
        BY <1>2 DEF Postings, TypeInv, TypeOK
    <2>3. \A m \in Line : f.received[m] = IF m = l THEN post[p].received[m] + q ELSE post[p].received[m]
        BY <1>3, <2>2
    <2>4. l \in StockLine => q = 0
        BY <1>1, <1>2
    <2>5. dirty \cap StockLine = {} /\ \A m \in Line \ dirty : m \notin post[p].dirty /\ (m = l => q = 0)
        BY <1>2, <2>1, <2>4 DEF Faithful
    <2>6. \A m \in StockLine \ f.todo : accepted'[r][m] # None => accepted'[r][m] <= moved'[r][m]
        <3>1. ASSUME NEW m \in StockLine \ f.todo, accepted[r][m] # None
              PROVE  accepted[r][m] <= moved[r][m]
            <4>1. CASE m = l
                <5>1. accepted[r][l] = 0 /\ moved[r][l] \in Nat
                    BY <2>1, <2>2, <2>4, <4>1 DEF Faithful
                <5>2. QED BY <4>1, <5>1
            <4>2. CASE m # l
                BY <1>3, <2>1, <3>1, <4>2 DEF Faithful, MovedIntoStock
            <4>3. QED BY <4>1, <4>2
        <3>2. QED BY <2>1, <3>1
    <2> HIDE DEF dirty, q, r
    <2>7. \A m \in Line : received[m] <= f.received[m]
        BY <1>2, <2>1, <2>2, <2>3 DEF Faithful
    <2>8. \A m \in Line \ f.dirty : received[m] = f.received[m]
        BY <1>3, <2>1, <2>2, <2>3, <2>5 DEF Faithful
    <2>9. f.accepted = accepted'[r]
        BY <1>3, <2>1 DEF Faithful, r
    <2>10. QED BY <1>3, <2>1, <2>5, <2>6, <2>7, <2>8, <2>9 DEF Faithful, MovedIntoStock
<1>7. QED BY <1>1, <1>3, <1>4, <1>5, <1>6, SerialPosting

LEMMA SerialMoveLine ==
    ASSUME TypeInv, TypeInv', SerialInv, NEW p \in Request, NEW l \in Line, MoveLine(p, l)
    PROVE  SerialInv'
<1> DEFINE q == post[p].accepted[l]
           r == post[p].receipt
<1>1. Adds(p, l, q, r) /\ UNCHANGED <<status, receipt, accepted, overlapped>>
    BY MoveLineAdds DEF MoveLine
<1>2. \A n \in Request : UNCHANGED <<post[n].phase, post[n].receipt, post[n].accepted>>
    BY <1>1 DEF Adds
<1>3. \A n \in Request : Underway(n)' => receipt'[post'[n].receipt] # "none"
    BY <1>1, <1>2 DEF SerialInv, Underway
<1>4. ASSUME ~overlapped' PROVE Serial'
    <2>1. Serial /\ Faithful(p) /\ l \in StockLine \ post[p].dirty
        BY <1>1, <1>4 DEF SerialInv, Serial, Adds, Faithful
    <2>2. \A m, n \in Request : Underway(m)' /\ Underway(n)' => m = n
        BY <1>2, <2>1 DEF Serial, Underway
    <2>3. post[p].received \in [Line -> Nat] /\ received \in [Line -> Nat] /\ q \in Nat
          /\ \A k \in Receipt : moved[k] \in [Line -> Nat]
        BY <1>1 DEF Adds, Postings, TypeInv, TypeOK
    <2>4. \A m \in Line : post'[p].received[m] = IF m = l THEN post[p].received[m] + q ELSE post[p].received[m]
        BY <1>1, <2>3 DEF Adds
    <2>5. \A m \in Line : received'[m] = IF m = l THEN post[p].received[m] + q ELSE Written(p)[m]
        BY <1>1 DEF Adds, Written
    <2>6. \A m \in Line : Written(p)[m] = post[p].received[m]
        BY <2>1 DEF Written, Faithful
    <2>7. \A m \in Line : received'[m] = post'[p].received[m] /\ received[m] <= received'[m]
        <3> HIDE DEF q
        <3>1. QED BY <2>1, <2>3, <2>4, <2>5, <2>6 DEF Faithful
    <2>8. ASSUME NEW k \in Receipt, NEW lines \in SUBSET Line, MovedIntoStock(k, lines)
          PROVE  MovedIntoStock(k, lines)'
        <3>1. \A m \in lines : accepted[k][m] # None => accepted[k][m] \in Nat
            BY DEF TypeInv, TypeOK, Lines
        <3>2. \A m \in lines : moved[k][m] \in Nat /\ moved'[k][m] \in {moved[k][m], moved[k][m] + q}
            BY <1>1, <2>3 DEF Adds
        <3> HIDE DEF q
        <3>3. QED BY <1>1, <2>3, <2>8, <3>1, <3>2 DEF MovedIntoStock
    <2>9. Faithful(p)'
        <3>1. \A m \in StockLine \ post[p].todo : accepted'[r][m] # None => accepted'[r][m] <= moved'[r][m]
            <4>1. MovedIntoStock(r, StockLine \ post[p].todo) /\ r \in Receipt
                  /\ StockLine \ post[p].todo \in SUBSET Line
                BY <1>1, <2>1, GoodsReceiptsAssumption DEF Adds, Faithful
            <4> HIDE DEF r
            <4>2. PICK k \in Receipt, lines \in SUBSET Line : k = r /\ lines = StockLine \ post[p].todo
                BY <4>1
            <4>3. QED BY <2>8, <4>1, <4>2 DEF MovedIntoStock
        <3>2. accepted[r][l] = q /\ q <= moved'[r][l]
            BY <1>1, <2>1, <2>3 DEF Adds, Faithful
        <3>3. \A m \in StockLine \ post'[p].todo : accepted'[r][m] # None => accepted'[r][m] <= moved'[r][m]
            BY <1>1, <3>1, <3>2 DEF Adds
        <3>4. post'[p].accepted = accepted'[r] /\ post'[p].receipt = r /\ post'[p].dirty = {}
            BY <1>1, <2>1 DEF Adds, Faithful
        <3>5. \A m \in Line : received'[m] <= post'[p].received[m]
            BY <2>7, <2>3 DEF TypeInv, TypeOK
        <3> HIDE DEF r, q
        <3>6. QED BY <2>7, <3>3, <3>4, <3>5 DEF Faithful, MovedIntoStock
    <2>10. \A n \in Request : post'[n].phase = "lines" => Faithful(n)'
        BY <1>1, <1>2, <2>1, <2>9 DEF Serial, Underway, Adds
    <2>11. \A m \in StockLine : received'[m] = Moved(m)'
        <3> SUFFICES ASSUME NEW m \in StockLine PROVE received'[m] = Moved(m)'
            OBVIOUS
        <3>1. m \in Line /\ received[m] = Moved(m) /\ received[m] = post[p].received[m]
            BY <2>1, GoodsReceiptsAssumption DEF Serial, Faithful
        <3>2. Moved(m)' = IF m = l THEN Moved(m) + q ELSE Moved(m)
            BY <3>1, MovedGrows
        <3>3. QED BY <2>5, <2>6, <3>1, <3>2
    <2>12. \A k \in Receipt : receipt'[k] = "posted" => MovedIntoStock(k, StockLine)'
        BY <1>1, <2>1, <2>8, GoodsReceiptsAssumption DEF Serial
    <2>13. status' \in {"received", "closed"} => Complete'
        <3>1. \A m \in Line : received'[m] \in Nat /\ received'[m] <= Ordered[m] /\ Ordered[m] \in Nat
            BY GoodsReceiptsAssumption DEF TypeInv, TypeOK
        <3>2. status \in {"received", "closed"} => Complete
            BY <2>1 DEF Serial
        <3>3. QED BY <1>1, <2>3, <2>7, <3>1, <3>2 DEF Complete
    <2>14. QED BY <2>2, <2>10, <2>11, <2>12, <2>13 DEF Serial
<1>5. QED BY <1>3, <1>4 DEF SerialInv

LEMMA SerialFinish ==
    ASSUME TypeInv, TypeInv', SerialInv, NEW p \in Request, FinishPosting(p)
    PROVE  SerialInv'
<1> DEFINE r == post[p].receipt
<1>1. /\ post[p].phase = "lines" /\ post[p].todo = {} /\ received' = Written(p)
      /\ receipt' = [receipt EXCEPT ![r] = "posted"] /\ post' = [post EXCEPT ![p] = NoPosting]
      /\ UNCHANGED <<accepted, moved, overlapped>>
      /\ status' = IF Progress(p) # post[p].status THEN Progress(p) ELSE status
    BY DEF FinishPosting
<1>2. /\ r \in Receipt /\ post[p].received \in [Line -> Nat] /\ received \in [Line -> Nat]
      /\ post[p] \in Postings
    BY <1>1 DEF TypeInv, TypeOK, Bounded, Postings
<1>3. /\ \A n \in Request \ {p} : post'[n] = post[n]
      /\ post'[p].phase = "idle"
      /\ \A k \in Receipt : receipt'[k] = IF k = r THEN "posted" ELSE receipt[k]
    BY <1>1, <1>2, Idle DEF TypeInv, TypeOK
<1>4. ASSUME NEW n \in Request, Underway(n)'
      PROVE  receipt'[post'[n].receipt] # "none"
    <2>1. n # p /\ Underway(n) /\ post'[n] = post[n]
        BY <1>3, <1>4 DEF Underway
    <2>2. post[n].receipt \in Receipt /\ receipt[post[n].receipt] # "none"
        BY <2>1 DEF TypeInv, Bounded, SerialInv, Underway
    <2>3. QED BY <1>3, <2>1, <2>2
<1>5. ASSUME ~overlapped' PROVE Serial'
    <2>1. Serial /\ Faithful(p)
        BY <1>1, <1>5 DEF SerialInv, Serial
    <2>2. \A n \in Request : ~Underway(n)'
        BY <1>1, <1>3, <2>1 DEF Serial, Underway
    <2>3. \A m \in Line : received'[m] = post[p].received[m] /\ received[m] <= received'[m]
        BY <1>1, <2>1 DEF Written, Faithful
    <2>4. \A m \in StockLine : received'[m] = Moved(m)'
        <3>1. \A m \in StockLine : received'[m] = received[m]
            BY <2>1, <2>3, GoodsReceiptsAssumption DEF Faithful
        <3>2. QED BY <1>1, <2>1, <3>1 DEF Serial, Moved
    <2>5. \A k \in Receipt : receipt'[k] = "posted" => MovedIntoStock(k, StockLine)'
        <3>1. MovedIntoStock(r, StockLine)
            BY <1>1, <2>1 DEF Faithful
        <3>2. QED BY <1>1, <1>3, <2>1, <3>1 DEF Serial, MovedIntoStock
    <2>6. \A m \in Line : received'[m] \in Nat /\ received'[m] <= Ordered[m] /\ Ordered[m] \in Nat
        BY GoodsReceiptsAssumption DEF TypeInv, TypeOK
    <2>7. status' \in {"received", "closed"} => Complete'
        <3>1. CASE Progress(p) # post[p].status
            <4>1. status' = "received" => \A m \in Line : post[p].received[m] >= Ordered[m]
                BY <1>1, <3>1 DEF Progress
            <4>2. status' # "closed"
                BY <1>1, <3>1 DEF Progress
            <4>3. QED BY <1>2, <2>3, <2>6, <4>1, <4>2 DEF Complete
        <3>2. CASE Progress(p) = post[p].status
            <4>1. status' = status
                BY <1>1, <3>2
            <4>2. QED BY <1>2, <2>1, <2>3, <2>6, <4>1 DEF Serial, Complete
        <3>3. QED BY <3>1, <3>2
    <2>8. \A n \in Request : post'[n].phase # "lines"
        BY <2>2 DEF Underway
    <2>9. QED BY <2>2, <2>4, <2>5, <2>7, <2>8 DEF Serial
<1>6. QED BY <1>4, <1>5 DEF SerialInv

LEMMA SerialSteps ==
    ASSUME TypeInv, TypeInv', CancelInv, SerialInv, [Next]_vars
    PROVE  SerialInv'
<1>1. CASE UNCHANGED vars
    BY <1>1 DEF vars, rows, SerialInv, Serial, Underway, Faithful, MovedIntoStock, Complete, Moved
<1>2. ASSUME NEW p \in Request, FailPosting(p)
      PROVE  SerialInv'
    <2>1. post' = [post EXCEPT ![p] = NoPosting] /\ UNCHANGED <<rows, overlapped>>
        BY <1>2 DEF FailPosting
    <2>2. QED BY <2>1, Idle, SerialPosting
<1>3. QED BY <1>1, <1>2, SerialOrder, SerialReceiptStep, SerialLocks, SerialPostLine, SerialMoveLine,
        SerialFinish DEF Next, PostingStep

\* Unless postings overlap, the order claims exactly what went into stock, what posted
\* receipts accepted is in stock, and an order that counts as received is complete, however
\* often a posting fails on the way: for any lines, quantities, receipts and requests.
THEOREM SerialPostingsComplete == Spec => []SerialPostingIsComplete
<1>1. Init => TypeInv /\ CancelInv /\ SerialInv
    BY TypeAtFirst, CancelAtFirst, SerialAtFirst
<1>2. TypeInv /\ CancelInv /\ SerialInv /\ [Next]_vars => (TypeInv /\ CancelInv /\ SerialInv)'
    BY TypeInductive, CancelSteps, SerialSteps
<1>3. TypeInv /\ SerialInv => SerialPostingIsComplete
    <2> SUFFICES ASSUME TypeInv, Serial
                 PROVE  /\ ReceivedMatchesStock
                        /\ \A r \in Receipt : receipt[r] = "posted" =>
                             \A l \in StockLine : accepted[r][l] # None => moved[r][l] >= accepted[r][l]
                        /\ status \in {"received", "closed"} => \A l \in Line : received[l] = Ordered[l]
        BY DEF SerialInv, SerialPostingIsComplete
    <2>1. \A r \in Receipt, l \in StockLine :
              moved[r][l] \in Nat /\ (accepted[r][l] # None => accepted[r][l] \in Nat)
        BY GoodsReceiptsAssumption DEF TypeInv, TypeOK, Lines
    <2>2. QED BY <2>1 DEF Serial, ReceivedMatchesStock, MovedIntoStock, Complete
<1>4. QED BY <1>1, <1>2, <1>3, PTL DEF Spec
=============================================================================
