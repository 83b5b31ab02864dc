------------------------- MODULE EmailOutboxProofs -------------------------
(***************************************************************************)
(* Theorems about EmailOutbox, for every number of messages, workers,      *)
(* operators, attempts, batch size and crashes.                            *)
(*                                                                         *)
(* Of what a worker loaded only part is certain when it writes: that its   *)
(* write changes the status it read, while it claims that the row is still *)
(* the one it locked, and once it has claimed that the attempt it is to    *)
(* make was counted.                                                       *)
(***************************************************************************)
EXTENDS EmailOutbox, TLAPS, FiniteSetTheorems

\* An UPDATE of a well-formed row leaves a well-formed row.
LEMMA FlushType ==
    ASSUME NEW now \in Rows, NEW was \in Rows, NEW new \in Rows
    PROVE  Flush(now, was, new) \in Rows
  BY DEF Flush, Rows, Statuses, NextAt

\* Assigning columns of a well-formed row.
LEMMA AssignType ==
    ASSUME NEW r \in Rows, NEW s \in Statuses, NEW n \in NextAt,
           NEW d \in {"queued", "sent", "failed"}
    PROVE  /\ Assign(r, s, n, d) \in Rows
           /\ Assign(r, s, n, d).status = s
           /\ Assign(r, s, n, d).delivery = d
           /\ Assign(r, s, n, d).attempts = r.attempts
  BY DEF Rows, Assign

\* A row whose attempt is counted is still a row.
LEMMA CountedType ==
    ASSUME NEW r \in Rows
    PROVE  /\ Counted(r) \in Rows
           /\ Counted(r).attempts = r.attempts + 1
  BY DEF Rows, Counted

\* Giving a row its delivery keeps it a row.
LEMMA WithDeliveryType ==
    ASSUME NEW r \in Rows, NEW q \in Rows
    PROVE  /\ WithDelivery(r, q.delivery) \in Rows
           /\ WithDelivery(r, q.delivery).delivery = q.delivery
           /\ WithDelivery(r, q.delivery).status = r.status
           /\ WithDelivery(r, q.delivery).attempts = r.attempts
  BY DEF Rows, WithDelivery

\* The row of a message that was never queued, and a worker that loaded nothing.
LEMMA AbsentType == Absent \in Rows /\ NothingLoaded \in [Email -> Rows]
  BY DEF Absent, NothingLoaded, Rows, Statuses, NextAt

-----------------------------------------------------------------------------
(* Type correctness.                                                       *)

\* TypeOK is inductive as it stands.
LEMMA TypeStep == ASSUME TypeOK, [Next]_vars PROVE TypeOK'
<1> USE OutboxAssumption, AbsentType DEF TypeOK
<1>1. ASSUME NEW e \in Email, Enqueue(e) PROVE TypeOK'
  <2>1. Assign(Absent, "queued", "due", "queued") \in Rows
    BY AssignType DEF Statuses, NextAt
  <2> QED BY <1>1, <2>1 DEF Enqueue, session, history
<1>2. ASSUME NEW e \in Email, BackoffElapses(e) PROVE TypeOK'
  <2>1. [row[e] EXCEPT !.next = "due"] \in Rows
    BY DEF Rows, NextAt
  <2>2. row' = [row EXCEPT ![e] = [row[e] EXCEPT !.next = "due"]]
    BY <1>2 DEF BackoffElapses
  <2> QED BY <1>2, <2>1, <2>2 DEF BackoffElapses, session, history
<1>3. ASSUME NEW e \in Email, ClaimAges(e) PROVE TypeOK'
  BY <1>3 DEF ClaimAges, session, history
<1>4. ASSUME NEW w \in Worker, LockStale(w) PROVE TypeOK'
  <2>1. PICK B \in SUBSET Email :
             /\ todo' = [todo EXCEPT ![w] = B]
             /\ lock' = [e \in Email |-> IF e \in B THEN w ELSE lock[e]]
             /\ loaded' = [loaded EXCEPT ![w] = [e \in Email |-> IF e \in B THEN row[e] ELSE Absent]]
    BY <1>4 DEF LockStale, Batches, StaleSending
  <2>2. [e \in Email |-> IF e \in B THEN row[e] ELSE Absent] \in [Email -> Rows]
    OBVIOUS
  <2> QED BY <1>4, <2>1, <2>2 DEF LockStale, PCs, history
<1>5. ASSUME NEW w \in Worker, NothingStale(w) PROVE TypeOK'
  BY <1>5 DEF NothingStale, table, history, PCs
<1>6. ASSUME NEW w \in Worker, RecoverOne(w) PROVE TypeOK'
  <2> DEFINE e == cur[w]
             was == loaded[w][e]
             new == IF Exhausted(was) THEN Assign(was, "failed", "none", "failed")
                                      ELSE Assign(was, "queued", "due", "queued")
  <2>1. row' = [row EXCEPT ![e] = Flush(row[e], was, new)]
    BY <1>6 DEF RecoverOne
  <2>2. ASSUME e \in Email PROVE Flush(row[e], was, new) \in Rows
    <3>1. was \in Rows
      BY <2>2
    <3> HIDE DEF was
    <3>2. new \in Rows
      BY <3>1, AssignType DEF Statuses, NextAt
    <3> HIDE DEF new
    <3> QED BY <2>2, <3>1, <3>2, FlushType
  <2>4. row' \in [Email -> Rows]
    BY <2>1, <2>2
  <2>5. /\ lock' = Unlocked(w)
        /\ stale' = [stale EXCEPT ![e] = FALSE]
        /\ todo' = [todo EXCEPT ![w] = @ \ {e}]
        /\ cur' = [cur EXCEPT ![w] = None]
        /\ pc' = [pc EXCEPT ![w] = IF todo[w] = {e} THEN "claim" ELSE "recovering"]
        /\ loaded' = [loaded EXCEPT ![w][e] = Absent]
        /\ excused' = [excused EXCEPT ![e] = TRUE]
        /\ crossed' = [crossed EXCEPT ![e] = row[e].delivery # was.delivery]
        /\ UNCHANGED <<retryable, request, grants, accepted, verdict, crashes>>
    BY <1>6 DEF RecoverOne
  <2> HIDE DEF e, was, new
  <2> QED BY <2>4, <2>5 DEF PCs, Unlocked
<1>6a. ASSUME NEW w \in Worker, NEW e \in Email, ReadDelivery(w, e) PROVE TypeOK'
  <2>1. WithDelivery(loaded[w][e], row[e].delivery) \in Rows
    BY WithDeliveryType
  <2> QED BY <1>6a, <2>1 DEF ReadDelivery, table, history, PCs
<1>7. ASSUME NEW w \in Worker, LockDue(w) PROVE TypeOK'
  <2>1. PICK B \in SUBSET Email :
             /\ todo' = [todo EXCEPT ![w] = B]
             /\ lock' = [e \in Email |-> IF e \in B THEN w ELSE lock[e]]
             /\ loaded' = [loaded EXCEPT ![w] = [e \in Email |-> IF e \in B THEN row[e] ELSE Absent]]
    BY <1>7 DEF LockDue, Batches, Due
  <2>2. [e \in Email |-> IF e \in B THEN row[e] ELSE Absent] \in [Email -> Rows]
    OBVIOUS
  <2> QED BY <1>7, <2>1, <2>2 DEF LockDue, PCs, history
<1>8. ASSUME NEW w \in Worker, NothingDue(w) PROVE TypeOK'
  BY <1>8 DEF NothingDue, table, history, PCs
<1>9. ASSUME NEW w \in Worker, CommitClaim(w) PROVE TypeOK'
  <2>1. ASSUME NEW e \in Email
        PROVE  Claimed(e, WithDelivery(loaded[w][e], row[e].delivery)) \in Rows
    <3> DEFINE was == WithDelivery(loaded[w][e], row[e].delivery)
               new == Assign(Counted(was), "sending", "none", "queued")
    <3>0. loaded[w][e] \in Rows /\ row[e] \in Rows
      BY DEF Rows
    <3>1. was \in Rows
      BY <3>0, WithDeliveryType
    <3> HIDE DEF was
    <3>2. new \in Rows
      BY <3>1, AssignType, CountedType DEF Statuses, NextAt
    <3> QED BY <3>1, <3>2, FlushType DEF Claimed, was
  <2>2. row' \in [Email -> Rows]
    BY <1>9, <2>1 DEF CommitClaim
  <2>3. grants' \subseteq [email : Email, attempt : Nat, worker : Worker]
    BY <1>9 DEF CommitClaim, Rows
  <2> QED BY <1>9, <2>2, <2>3 DEF CommitClaim, PCs, Unlocked
<1>10. ASSUME NEW w \in Worker, NEW e \in Email, StartDispatch(w, e) PROVE TypeOK'
  BY <1>10 DEF StartDispatch, table, history, PCs
<1>11. ASSUME NEW w \in Worker, NEW e \in Email, SkipUnclaimed(w, e) PROVE TypeOK'
  BY <1>11 DEF SkipUnclaimed, Advance, table, history, PCs
<1>12. ASSUME NEW w \in Worker, ProviderAccepts(w) PROVE TypeOK'
  <2>1. accepted' \in [Email -> Nat]
    <3>1. accepted' = [accepted EXCEPT ![cur[w]] = @ + 1]
      BY <1>12 DEF ProviderAccepts
    <3>2. ASSUME cur[w] \in Email PROVE accepted[cur[w]] + 1 \in Nat
      BY <3>2
    <3> QED BY <3>1, <3>2
  <2> QED BY <1>12, <2>1 DEF ProviderAccepts, table, PCs
<1>13. ASSUME NEW w \in Worker, ProviderFails(w) PROVE TypeOK'
  <2>1. accepted' \in [Email -> Nat]
    BY <1>13, SMTT(30) DEF ProviderFails
  <2>2. retryable' \in [Worker -> BOOLEAN] /\ excused' \in [Email -> BOOLEAN]
    BY <1>13 DEF ProviderFails
  <2>3. UNCHANGED <<table, todo, cur, loaded, request, grants, verdict, crossed, crashes>>
    BY <1>13 DEF ProviderFails
  <2>4. pc' \in [Worker -> PCs]
    BY <1>13 DEF ProviderFails, PCs
  <2> QED BY <2>1, <2>2, <2>3, <2>4 DEF table
<1>14. ASSUME NEW w \in Worker, RecordSuccess(w) PROVE TypeOK'
  <2> DEFINE e == cur[w]
             was == loaded[w][e]
             new == Assign(was, "sent", "none", "sent")
  <2>1. row' = [row EXCEPT ![e] = Flush(row[e], was, new)]
    BY <1>14 DEF RecordSuccess
  <2>2. ASSUME e \in Email PROVE Flush(row[e], was, new) \in Rows
    <3>1. was \in Rows
      BY <2>2
    <3>2. new \in Rows
      BY <3>1, AssignType, CountedType DEF Statuses, NextAt
    <3> QED BY <2>2, <3>1, <3>2, FlushType
  <2>3. row' \in [Email -> Rows]
    BY <2>1, <2>2
  <2> QED BY <1>14, <2>3 DEF RecordSuccess, Advance, history, PCs
<1>15. ASSUME NEW w \in Worker, ReloadFailed(w) PROVE TypeOK'
  BY <1>15 DEF ReloadFailed, table, history, PCs
<1>16. ASSUME NEW w \in Worker, DropFailed(w) PROVE TypeOK'
  BY <1>16 DEF DropFailed, Advance, table, history, PCs
<1>17. ASSUME NEW w \in Worker, RecordFailure(w) PROVE TypeOK'
  <2> DEFINE e == cur[w]
             was == loaded[w][e]
             mayRetry == retryable[w] /\ was.attempts < MaxAttempts
             new == Assign(was, "failed", IF mayRetry THEN "later" ELSE "none", "failed")
  <2>1. row' = [row EXCEPT ![e] = Flush(row[e], was, new)]
    BY <1>17 DEF RecordFailure
  <2>2. ASSUME e \in Email PROVE Flush(row[e], was, new) \in Rows
    <3>1. was \in Rows
      BY <2>2
    <3>2. new \in Rows
      BY <3>1, AssignType, CountedType DEF Statuses, NextAt
    <3> QED BY <2>2, <3>1, <3>2, FlushType
  <2>3. row' \in [Email -> Rows]
    BY <2>1, <2>2
  <2> QED BY <1>17, <2>3 DEF RecordFailure, Advance, PCs
<1>18. ASSUME NEW w \in Worker, Crash(w) PROVE TypeOK'
  BY <1>18 DEF Crash, Unlocked, PCs
<1>19. ASSUME NEW o \in Operator, NEW e \in Email, NEW r \in BOOLEAN,
              NEW k \in {"mark_sent", "mark_failed", "retry"}, Begin(o, e, k, r)
       PROVE  TypeOK'
  <2>1. [kind |-> k, email |-> e, was |-> row[e], retryable |-> r] \in Requests
    BY DEF Requests
  <2> QED BY <1>19, <2>1 DEF Begin, table, session, history
<1>20. ASSUME NEW o \in Operator, NEW new \in Rows, CommitRequest(o, new),
              verdict' \in [Email -> {"none", "retryable", "permanent"}]
       PROVE  TypeOK'
  <2> DEFINE e == request[o].email
  <2>1. row' = [row EXCEPT ![e] = Flush(row[e], request[o].was, new)]
    BY <1>20 DEF CommitRequest
  <2>2. e \in Email => Flush(row[e], request[o].was, new) \in Rows
    BY FlushType DEF Requests
  <2>3. row' \in [Email -> Rows]
    BY <2>1, <2>2
  <2>4. NoRequest \in Requests
    BY DEF NoRequest, Requests
  <2> QED BY <1>20, <2>3, <2>4 DEF CommitRequest, session
<1>21. ASSUME NEW o \in Operator, MarkSent(o) PROVE TypeOK'
  <2>1. Assign(request[o].was, "sent", "none", "sent") \in Rows
    BY AssignType DEF Requests, Statuses, NextAt
  <2> QED BY <1>20, <1>21, <2>1 DEF MarkSent
<1>22. ASSUME NEW o \in Operator, MarkFailed(o) PROVE TypeOK'
  <2> DEFINE was == request[o].was
             again == request[o].retryable /\ was.attempts + 1 < MaxAttempts
             new == Assign(Counted(was), "failed", IF again THEN "due" ELSE "none", "failed")
  <2>0. was \in Rows
    BY DEF Requests
  <2> HIDE DEF was
  <2>1. new \in Rows
    BY <2>0, AssignType, CountedType DEF Statuses, NextAt
  <2>2. CommitRequest(o, new)
    BY <1>22 DEF MarkFailed, was
  <2>3. verdict' \in [Email -> {"none", "retryable", "permanent"}]
    BY <1>22 DEF MarkFailed
  <2> QED BY <1>20, <2>1, <2>2, <2>3
<1>23. ASSUME NEW o \in Operator, Retry(o) PROVE TypeOK'
  <2>1. Assign(request[o].was, "queued", "due", "queued") \in Rows
    BY AssignType DEF Requests, Statuses, NextAt
  <2>2. verdict' \in [Email -> {"none", "retryable", "permanent"}]
    BY <1>23 DEF Retry
  <2> QED BY <1>20, <1>23, <2>1, <2>2 DEF Retry
<1>24. CASE UNCHANGED vars
  BY <1>24 DEF vars, table, session, history
<1> HIDE DEF TypeOK
<1>25. ASSUME NEW o \in Operator, OperatorStep(o) PROVE TypeOK'
  BY <1>19, <1>21, <1>22, <1>23, <1>25
  DEF OperatorStep, BeginMarkSent, BeginMarkFailed, BeginRetry
<1> QED
  BY <1>1, <1>2, <1>3, <1>4, <1>5, <1>6, <1>6a, <1>7, <1>8, <1>9, <1>10, <1>11, <1>12, <1>13,
     <1>14, <1>15, <1>16, <1>17, <1>18, <1>24, <1>25
  DEF Next, TimePasses, WorkerStep

\* The initial state is well typed.
LEMMA TypeInit == Init => TypeOK
  BY OutboxAssumption, AbsentType
  DEF Init, TypeOK, PCs, Requests, NoRequest

\* Every variable of the pipeline keeps its type, whatever the constants.
THEOREM TypeCorrect == Spec => []TypeOK
  BY TypeInit, TypeStep, PTL DEF Spec

-----------------------------------------------------------------------------
(* The delivery mirrors the message.                                       *)

\* What a session loaded still tells which columns its write will touch: the
\* status it read always differs from the one it writes.
LoadedBeforeWrite ==
    /\ \A w \in Worker : \A e \in todo[w] :
         /\ pc[w] \in {"recovering", "returning"} => loaded[w][e].status = "sending"
         /\ pc[w] = "claiming" => loaded[w][e].status \in {"queued", "failed"}
    /\ \A w \in Worker :
         /\ pc[w] = "returning" => cur[w] \in todo[w]
         /\ pc[w] \in {"sending", "accepted", "failing", "recordingFailure"} => cur[w] \in Email
         /\ pc[w] \in {"sending", "accepted", "recordingFailure"} =>
              /\ loaded[w][cur[w]].status = "sending"
              /\ loaded[w][cur[w]].delivery = "queued"

\* A request that loaded a message in step writes its delivery whatever it finds.
RequestBeforeWrite ==
    \A o \in Operator :
        LET r == request[o] IN
        /\ r.kind # "none" => r.email \in Email
        /\ r.kind \in {"mark_sent", "mark_failed"} => r.was.status \in {"queued", "sending"}
        /\ r.kind = "retry" => r.was.status = "failed"

RowsMirror ==
    \A e \in Email : (row[e].status = "sending" \/ ~crossed[e]) => Mirrors(row[e])

MirrorInv == LoadedBeforeWrite /\ RequestBeforeWrite /\ RowsMirror

\* Writing back the rows a worker holds keeps deliveries and messages in step.
LEMMA FlushMirrors ==
    ASSUME NEW now \in Rows, NEW was \in Rows, NEW new \in Rows,
           new.status # was.status, Mirrors(new),
           new.delivery # was.delivery \/ now.delivery = was.delivery
    PROVE  Mirrors(Flush(now, was, new))
  BY DEF Flush, Mirrors, Rows

\* A write that changes the status it loaded leaves its own.
LEMMA FlushStatus ==
    ASSUME NEW now, NEW was, NEW new, new.status # was.status
    PROVE  Flush(now, was, new).status = new.status
  BY DEF Flush

\* Sessions: no step of another process changes what a session loaded.
LEMMA LoadedStep ==
    ASSUME TypeOK, MirrorInv, [Next]_vars PROVE LoadedBeforeWrite'
<1> USE DEF TypeOK, MirrorInv, LoadedBeforeWrite
<1>1. ASSUME UNCHANGED session PROVE LoadedBeforeWrite'
  BY <1>1 DEF session
<1>2. ASSUME NEW w \in Worker, LockStale(w) PROVE LoadedBeforeWrite'
  <2>1. PICK B \in SUBSET Email :
             /\ B \subseteq StaleSending
             /\ todo' = [todo EXCEPT ![w] = B]
             /\ loaded' = [loaded EXCEPT ![w] = [e \in Email |-> IF e \in B THEN row[e] ELSE Absent]]
    BY <1>2 DEF LockStale, Batches, StaleSending
  <2> QED BY <1>2, <2>1 DEF LockStale, StaleSending
<1>3. ASSUME NEW w \in Worker, LockDue(w) PROVE LoadedBeforeWrite'
  <2>1. PICK B \in SUBSET Email :
             /\ B \subseteq Due
             /\ todo' = [todo EXCEPT ![w] = B]
             /\ loaded' = [loaded EXCEPT ![w] = [e \in Email |-> IF e \in B THEN row[e] ELSE Absent]]
    BY <1>3, ZenonT(60) DEF LockDue, Batches, Due
  <2> QED BY <1>3, <2>1 DEF LockDue, Due
<1>4. ASSUME NEW w \in Worker, NothingStale(w) \/ NothingDue(w) PROVE LoadedBeforeWrite'
  BY <1>4 DEF NothingStale, NothingDue
<1>5. ASSUME NEW w \in Worker, RecoverOne(w) PROVE LoadedBeforeWrite'
  <2> DEFINE e == cur[w]
  <2>1. /\ todo' = [todo EXCEPT ![w] = @ \ {e}]
        /\ pc' = [pc EXCEPT ![w] = IF todo[w] = {e} THEN "claim" ELSE "recovering"]
        /\ loaded' = [loaded EXCEPT ![w][e] = Absent]
        /\ pc[w] = "returning" /\ cur' = [cur EXCEPT ![w] = None]
    BY <1>5 DEF RecoverOne
  <2> HIDE DEF e
  <2> QED BY <2>1
<1>5a. ASSUME NEW w \in Worker, NEW e \in Email, ReadDelivery(w, e) PROVE LoadedBeforeWrite'
  <2>1. WithDelivery(loaded[w][e], row[e].delivery).status = loaded[w][e].status
    BY WithDeliveryType
  <2> QED BY <1>5a, <2>1 DEF ReadDelivery
<1>6. ASSUME NEW w \in Worker, CommitClaim(w) \/ Crash(w) PROVE LoadedBeforeWrite'
  <2>1. pc'[w] \in {"dispatch", "idle"}
    BY <1>6 DEF CommitClaim, Crash
  <2>2. ASSUME NEW v \in Worker, v # w
        PROVE  /\ pc'[v] = pc[v] /\ todo'[v] = todo[v]
               /\ cur'[v] = cur[v] /\ loaded'[v] = loaded[v]
    BY <1>6, <2>2 DEF CommitClaim, Crash
  <2>3. ASSUME NEW v \in Worker
        PROVE  /\ \A e \in todo'[v] :
                    /\ pc'[v] \in {"recovering", "returning"} => loaded'[v][e].status = "sending"
                    /\ pc'[v] = "claiming" => loaded'[v][e].status \in {"queued", "failed"}
               /\ pc'[v] = "returning" => cur'[v] \in todo'[v]
               /\ pc'[v] \in {"sending", "accepted", "failing", "recordingFailure"}
                    => cur'[v] \in Email
               /\ pc'[v] \in {"sending", "accepted", "recordingFailure"} =>
                    /\ loaded'[v][cur'[v]].status = "sending"
                    /\ loaded'[v][cur'[v]].delivery = "queued"
    <3>1. CASE v = w BY <2>1, <3>1
    <3>2. CASE v # w BY <2>2, <3>2
    <3> QED BY <3>1, <3>2
  <2> QED BY <2>3
<1>7. ASSUME NEW w \in Worker, NEW e \in Email, StartDispatch(w, e) PROVE LoadedBeforeWrite'
  BY <1>7 DEF StartDispatch, RowsMirror, Mirrors
<1>8. ASSUME NEW w \in Worker, NEW e, Advance(w, e) PROVE LoadedBeforeWrite'
  BY <1>8 DEF Advance
<1>9. ASSUME NEW w \in Worker, ProviderAccepts(w) \/ ProviderFails(w) PROVE LoadedBeforeWrite'
  BY <1>9 DEF ProviderAccepts, ProviderFails
<1>10. ASSUME NEW w \in Worker, ReloadFailed(w) PROVE LoadedBeforeWrite'
  BY <1>10 DEF ReloadFailed, RowsMirror, Mirrors
<1> HIDE DEF TypeOK, MirrorInv, LoadedBeforeWrite
<1>11. ASSUME NEW w \in Worker, WorkerStep(w) PROVE LoadedBeforeWrite'
  BY <1>2, <1>3, <1>4, <1>5, <1>5a, <1>6, <1>7, <1>8, <1>9, <1>10, <1>11
  DEF WorkerStep, SkipUnclaimed, RecordSuccess, DropFailed, RecordFailure
<1>12. ASSUME NEW o \in Operator, OperatorStep(o) PROVE LoadedBeforeWrite'
  BY <1>1, <1>12
  DEF OperatorStep, BeginMarkSent, BeginMarkFailed, BeginRetry, Begin,
      MarkSent, MarkFailed, Retry, CommitRequest
<1> QED BY <1>1, <1>6, <1>11, <1>12 DEF Next, TimePasses, Enqueue, BackoffElapses, ClaimAges, vars

\* Requests: an operator's request changes only when it begins and commits.
LEMMA RequestStep ==
    ASSUME TypeOK, MirrorInv, [Next]_vars PROVE RequestBeforeWrite'
<1> USE DEF TypeOK, MirrorInv, RequestBeforeWrite
<1>1. CASE UNCHANGED request
  BY <1>1
<1>2. ASSUME NEW o \in Operator, OperatorStep(o) PROVE RequestBeforeWrite'
  <2>1. ASSUME NEW e \in Email, BeginMarkSent(o, e) PROVE RequestBeforeWrite'
    BY <2>1 DEF BeginMarkSent, Begin
  <2>2. ASSUME NEW e \in Email, BeginMarkFailed(o, e) PROVE RequestBeforeWrite'
    BY <2>2 DEF BeginMarkFailed, Begin
  <2>3. ASSUME NEW e \in Email, BeginRetry(o, e) PROVE RequestBeforeWrite'
    BY <2>3 DEF BeginRetry, Begin
  <2>4. ASSUME request' = [request EXCEPT ![o] = NoRequest] PROVE RequestBeforeWrite'
    BY <2>4 DEF NoRequest
  <2> QED BY <1>2, <2>1, <2>2, <2>3, <2>4
          DEF OperatorStep, MarkSent, MarkFailed, Retry, CommitRequest
<1> HIDE DEF TypeOK, MirrorInv, RequestBeforeWrite
<1>3. ASSUME NEW w \in Worker, WorkerStep(w) \/ Crash(w) PROVE UNCHANGED request
  BY <1>3 DEF WorkerStep, LockStale, NothingStale, ReadDelivery, RecoverOne, LockDue, NothingDue, CommitClaim,
     StartDispatch, SkipUnclaimed, ProviderAccepts, ProviderFails, RecordSuccess, ReloadFailed,
     DropFailed, RecordFailure, Crash
<1> QED BY <1>1, <1>2, <1>3 DEF Next, TimePasses, Enqueue, BackoffElapses, ClaimAges, vars

\* The rows: every write replaces the status it loaded, and a write that leaves
\* the delivery alone found it as it must be, unless it is marked as crossed.
LEMMA RowsStep ==
    ASSUME TypeOK, MirrorInv, [Next]_vars PROVE RowsMirror'
<1> USE DEF TypeOK, RowsMirror
<1>1. ASSUME UNCHANGED <<row, crossed>> PROVE RowsMirror'
  BY <1>1 DEF MirrorInv, Mirrors
<1>2. ASSUME NEW e \in Email, NEW r, Mirrors(r) \/ (crossed'[e] /\ r.status # "sending"),
             row' = [row EXCEPT ![e] = r],
             \A b \in Email \ {e} : crossed'[b] = crossed[b]
      PROVE  RowsMirror'
  <2>1. ASSUME NEW b \in Email, row'[b].status = "sending" \/ ~crossed'[b]
        PROVE  Mirrors(row'[b])
    <3>1. CASE b = e  BY <1>2, <2>1, <3>1
    <3>2. CASE b # e  BY <1>2, <2>1, <3>2 DEF MirrorInv
    <3> QED BY <3>1, <3>2
  <2> QED BY <2>1 DEF Mirrors
<1>3. ASSUME NEW e \in Email, Enqueue(e) PROVE RowsMirror'
  <2>1. Mirrors(Assign(Absent, "queued", "due", "queued"))
    BY AbsentType, AssignType DEF Mirrors, Statuses, NextAt
  <2>2. /\ row' = [row EXCEPT ![e] = Assign(Absent, "queued", "due", "queued")]
        /\ crossed' = crossed
    BY <1>3 DEF Enqueue, history
  <2> QED BY <1>2, <2>1, <2>2
<1>4. ASSUME NEW e \in Email, BackoffElapses(e) PROVE RowsMirror'
  <2> DEFINE r == [row[e] EXCEPT !.next = "due"]
  <2>1. r.status = row[e].status /\ r.delivery = row[e].delivery
    BY DEF Rows
  <2>2. row' = [row EXCEPT ![e] = r] /\ crossed' = crossed
    BY <1>4 DEF BackoffElapses, history
  <2> HIDE DEF r
  <2>3. Mirrors(r) \/ (crossed'[e] /\ r.status # "sending")
    <3>1. Mirrors(row[e]) => Mirrors(r)
      BY <2>1 DEF Mirrors
    <3> QED BY <2>1, <2>2, <3>1 DEF MirrorInv
  <2> QED BY <1>2, <2>2, <2>3
<1>5. ASSUME NEW w \in Worker, RecoverOne(w) PROVE RowsMirror'
  <2> DEFINE e == cur[w]
             was == loaded[w][e]
             new == IF Exhausted(was) THEN Assign(was, "failed", "none", "failed")
                                      ELSE Assign(was, "queued", "due", "queued")
  <2>1. e \in Email /\ was.status = "sending"
    BY <1>5 DEF RecoverOne, MirrorInv, LoadedBeforeWrite
  <2>2. was \in Rows /\ row[e] \in Rows
    BY <2>1
  <2>3. /\ row' = [row EXCEPT ![e] = Flush(row[e], was, new)]
        /\ crossed' = [crossed EXCEPT ![e] = row[e].delivery # was.delivery]
    BY <1>5 DEF RecoverOne
  <2> HIDE DEF e, was
  <2>4. new \in Rows /\ new.status \in {"failed", "queued"} /\ Mirrors(new)
    BY <2>2, AssignType DEF Statuses, NextAt, Mirrors
  <2> HIDE DEF new
  <2>5. Flush(row[e], was, new).status # "sending"
    <3>1. new.status # was.status /\ new.status # "sending"
      BY <2>1, <2>4
    <3> QED BY ONLY <2>2, <2>4, <3>1, FlushStatus
  <2>6. ~crossed'[e] => Mirrors(Flush(row[e], was, new))
    BY <2>1, <2>2, <2>3, <2>4, FlushMirrors
  <2>7. \A b \in Email \ {e} : crossed'[b] = crossed[b]
    BY <2>3
  <2> QED BY <1>2, <2>1, <2>3, <2>5, <2>6, <2>7
<1>6. ASSUME NEW w \in Worker, CommitClaim(w) PROVE RowsMirror'
  <2>1. ASSUME NEW e \in todo[w]
        PROVE  Mirrors(Claimed(e, WithDelivery(loaded[w][e], row[e].delivery)))
    <3> DEFINE was == WithDelivery(loaded[w][e], row[e].delivery)
               new == Assign(Counted(was), "sending", "none", "queued")
    <3>1. loaded[w][e] \in Rows /\ row[e] \in Rows
      BY DEF Rows
    <3>2. was \in Rows /\ was.status = loaded[w][e].status /\ was.delivery = row[e].delivery
      BY <3>1, WithDeliveryType
    <3>3. was.status # "sending"
      BY <1>6, <3>2 DEF CommitClaim, MirrorInv, LoadedBeforeWrite
    <3> HIDE DEF was
    <3>4. new \in Rows /\ new.status = "sending" /\ Mirrors(new)
      BY <3>2, AssignType, CountedType DEF Statuses, NextAt, Mirrors
    <3>5. Mirrors(Flush(row[e], was, new))
      BY <3>1, <3>2, <3>3, <3>4, FlushMirrors
    <3> QED BY <3>5 DEF Claimed, was
  <2>2. ASSUME NEW e \in Email, row'[e].status = "sending" \/ ~crossed'[e]
        PROVE  Mirrors(row'[e])
    <3>1. CASE e \in todo[w]
      BY <1>6, <2>1, <3>1 DEF CommitClaim
    <3>2. CASE e \notin todo[w]
      <4>1. row'[e] = row[e] /\ (crossed'[e] <=> crossed[e])
        BY <1>6, <3>2 DEF CommitClaim
      <4> QED BY <2>2, <4>1 DEF MirrorInv
    <3> QED BY <3>1, <3>2
  <2> QED BY <2>2 DEF Mirrors
<1>7. ASSUME NEW w \in Worker, RecordSuccess(w) PROVE RowsMirror'
  <2> DEFINE e == cur[w]
             was == loaded[w][e]
             new == Assign(was, "sent", "none", "sent")
  <2>1. e \in Email /\ was.status = "sending" /\ was.delivery = "queued"
    BY <1>7 DEF RecordSuccess, MirrorInv, LoadedBeforeWrite
  <2>2. was \in Rows /\ row[e] \in Rows
    BY <2>1
  <2>3. new \in Rows /\ new.status = "sent" /\ new.delivery = "sent" /\ Mirrors(new)
    BY <2>2, AssignType, CountedType DEF Statuses, NextAt, Mirrors
  <2>4. /\ row' = [row EXCEPT ![e] = Flush(row[e], was, new)]
        /\ \A b \in Email \ {e} : crossed'[b] = crossed[b]
    BY <1>7 DEF RecordSuccess
  <2> HIDE DEF e, was, new
  <2>5. Mirrors(Flush(row[e], was, new))
    BY <2>1, <2>2, <2>3, FlushMirrors
  <2> QED BY <1>2, <2>1, <2>4, <2>5
<1>8. ASSUME NEW w \in Worker, RecordFailure(w) PROVE RowsMirror'
  <2> DEFINE e == cur[w]
             was == loaded[w][e]
             mayRetry == retryable[w] /\ was.attempts < MaxAttempts
             new == Assign(was, "failed", IF mayRetry THEN "later" ELSE "none", "failed")
  <2>1. e \in Email /\ was.status = "sending" /\ was.delivery = "queued"
    BY <1>8 DEF RecordFailure, MirrorInv, LoadedBeforeWrite
  <2>2. was \in Rows /\ row[e] \in Rows
    BY <2>1
  <2>3. new \in Rows /\ new.status = "failed" /\ new.delivery = "failed" /\ Mirrors(new)
    BY <2>2, AssignType, CountedType DEF Statuses, NextAt, Mirrors
  <2>4. /\ row' = [row EXCEPT ![e] = Flush(row[e], was, new)]
        /\ \A b \in Email \ {e} : crossed'[b] = crossed[b]
    BY <1>8 DEF RecordFailure
  <2> HIDE DEF e, was, new
  <2>5. Mirrors(Flush(row[e], was, new))
    BY <2>1, <2>2, <2>3, FlushMirrors
  <2> QED BY <1>2, <2>1, <2>4, <2>5
<1>9. ASSUME NEW o \in Operator, NEW new \in Rows, CommitRequest(o, new),
             request[o].email \in Email, new.status # request[o].was.status,
             new.status # "sending", Mirrors(new),
             Mirrors(request[o].was) => new.delivery # request[o].was.delivery
      PROVE  RowsMirror'
  <2> DEFINE e == request[o].email
             was == request[o].was
  <2>1. was \in Rows /\ row[e] \in Rows
    BY <1>9 DEF Requests
  <2>2. /\ row' = [row EXCEPT ![e] = Flush(row[e], was, new)]
        /\ crossed' = [crossed EXCEPT ![e] = ~Mirrors(was)]
    BY <1>9 DEF CommitRequest
  <2>3. Flush(row[e], was, new).status # "sending"
    BY <1>9, FlushStatus
  <2>4. Mirrors(was) => Mirrors(Flush(row[e], was, new))
    BY <1>9, <2>1, FlushMirrors
  <2>5. crossed'[e] \/ Mirrors(was)
    BY <1>9, <2>2 DEF Mirrors
  <2>6. \A b \in Email \ {e} : crossed'[b] = crossed[b]
    BY <2>2
  <2> QED BY <1>2, <1>9, <2>2, <2>3, <2>4, <2>5, <2>6
<1>10. ASSUME NEW o \in Operator, MarkSent(o) PROVE RowsMirror'
  <2> DEFINE was == request[o].was
             new == Assign(was, "sent", "none", "sent")
  <2>1. was \in Rows /\ was.status \in {"queued", "sending"} /\ request[o].email \in Email
    BY <1>10 DEF MarkSent, MirrorInv, RequestBeforeWrite, Requests
  <2>2. CommitRequest(o, new)
    BY <1>10 DEF MarkSent
  <2> HIDE DEF was
  <2>3. new \in Rows /\ new.status = "sent" /\ new.delivery = "sent" /\ Mirrors(new)
    BY <2>1, AssignType DEF Statuses, NextAt, Mirrors
  <2>4. Mirrors(was) => was.delivery = "queued"
    BY <2>1 DEF Mirrors
  <2> QED BY <1>9, <2>1, <2>2, <2>3, <2>4 DEF was
<1>11. ASSUME NEW o \in Operator, MarkFailed(o) PROVE RowsMirror'
  <2> DEFINE was == request[o].was
             again == request[o].retryable /\ was.attempts + 1 < MaxAttempts
             new == Assign(Counted(was), "failed", IF again THEN "due" ELSE "none", "failed")
  <2>1. was \in Rows /\ was.status \in {"queued", "sending"} /\ request[o].email \in Email
    BY <1>11 DEF MarkFailed, MirrorInv, RequestBeforeWrite, Requests
  <2>2. CommitRequest(o, new)
    BY <1>11 DEF MarkFailed
  <2> HIDE DEF was
  <2>3. new \in Rows /\ new.status = "failed" /\ new.delivery = "failed" /\ Mirrors(new)
    BY <2>1, AssignType, CountedType DEF Statuses, NextAt, Mirrors
  <2>4. Mirrors(was) => was.delivery = "queued"
    BY <2>1 DEF Mirrors
  <2> QED BY <1>9, <2>1, <2>2, <2>3, <2>4 DEF was
<1>12. ASSUME NEW o \in Operator, Retry(o) PROVE RowsMirror'
  <2> DEFINE was == request[o].was
             new == Assign(was, "queued", "due", "queued")
  <2>1. was \in Rows /\ was.status = "failed" /\ request[o].email \in Email
    BY <1>12 DEF Retry, MirrorInv, RequestBeforeWrite, Requests
  <2>2. CommitRequest(o, new)
    BY <1>12 DEF Retry
  <2> HIDE DEF was
  <2>3. new \in Rows /\ new.status = "queued" /\ new.delivery = "queued" /\ Mirrors(new)
    BY <2>1, AssignType DEF Statuses, NextAt, Mirrors
  <2>4. Mirrors(was) => was.delivery = "failed"
    BY <2>1 DEF Mirrors
  <2> QED BY <1>9, <2>1, <2>2, <2>3, <2>4 DEF was
<1> HIDE DEF TypeOK, RowsMirror
<1>13. ASSUME NEW w \in Worker, WorkerStep(w) PROVE RowsMirror'
  BY <1>1, <1>5, <1>6, <1>7, <1>8, <1>13
  DEF WorkerStep, LockStale, NothingStale, ReadDelivery, LockDue, NothingDue, StartDispatch,
      SkipUnclaimed, ProviderAccepts, ProviderFails, ReloadFailed, DropFailed, table, history
<1>14. ASSUME NEW o \in Operator, OperatorStep(o) PROVE RowsMirror'
  BY <1>1, <1>10, <1>11, <1>12, <1>14
  DEF OperatorStep, BeginMarkSent, BeginMarkFailed, BeginRetry, Begin, table, history
<1> QED
  BY <1>1, <1>3, <1>4, <1>13, <1>14 DEF Next, TimePasses, ClaimAges, Crash, vars, table, history

\* The strengthening for DeliveryMirrors holds initially.
LEMMA MirrorInit == Init => MirrorInv
  BY DEF Init, MirrorInv, LoadedBeforeWrite, RequestBeforeWrite, RowsMirror, Mirrors,
         Absent, NoRequest

\* With any number of workers, operators and messages in a batch, writing from stale copies,
\* a delivery differs from its message only where the last write was a recovery turn that took
\* the delivery for what it was no more, or came from an operator who loaded what such a turn
\* left; and a message being sent never differs.
THEOREM DeliveryMirrors == Spec => []DeliveryMirrorsMessage
<1>1. TypeOK /\ MirrorInv /\ [Next]_vars => MirrorInv'
  BY LoadedStep, RequestStep, RowsStep DEF MirrorInv
<1>2. MirrorInv => DeliveryMirrorsMessage
  BY DEF MirrorInv, RowsMirror, Mirrors, DeliveryMirrorsMessage
<1> QED BY <1>1, <1>2, MirrorInit, TypeCorrect, PTL DEF Spec

-----------------------------------------------------------------------------
(* Attempts are granted once.                                              *)

\* No grant is ahead of its row's counter, and a worker about to commit a claim
\* holds the lock and has the counter as it is in the database.
GrantsCounted == \A g \in grants : g.attempt <= row[g.email].attempts

ClaimsLocked ==
    \A w \in Worker : \A e \in todo[w] :
        pc[w] = "claiming" => lock[e] = w /\ loaded[w][e].attempts = row[e].attempts

GrantInv == GrantsCounted /\ ClaimsLocked /\ AttemptGrantedOnce

\* Writing back the rows a worker holds keeps the attempt counters in step with the grants.
LEMMA FlushAttempts ==
    ASSUME NEW now, NEW was, NEW new
    PROVE  /\ new.attempts = was.attempts => Flush(now, was, new).attempts = now.attempts
           /\ new.attempts # was.attempts => Flush(now, was, new).attempts = new.attempts
  BY DEF Flush

\* Only a claim counts an attempt, as long as no operator marks a message failed.
LEMMA AttemptsKept ==
    ASSUME TypeOK, MirrorInv, [Next]_vars, Operator = {},
           \A w \in Worker : ~CommitClaim(w)
    PROVE  \A e \in Email : row'[e].attempts = row[e].attempts
<1> DEFINE Kept == \A e \in Email : row'[e].attempts = row[e].attempts
<1>1. ASSUME UNCHANGED row PROVE Kept
  BY <1>1
<1>2. ASSUME NEW e \in Email, NEW was, NEW new, new.attempts = was.attempts,
             row' = [row EXCEPT ![e] = Flush(row[e], was, new)]
      PROVE  Kept
  <2>1. Flush(row[e], was, new).attempts = row[e].attempts
    BY <1>2, FlushAttempts
  <2> QED BY <1>2, <2>1 DEF TypeOK
<1>3. ASSUME NEW e \in Email, Enqueue(e) PROVE Kept
  <2>1. row[e] = Absent /\ row' = [row EXCEPT ![e] = Assign(Absent, "queued", "due", "queued")]
    BY <1>3 DEF Enqueue
  <2>2. Assign(Absent, "queued", "due", "queued").attempts = Absent.attempts
    BY DEF Assign, Absent
  <2> QED BY <2>1, <2>2 DEF TypeOK
<1>4. ASSUME NEW e \in Email, BackoffElapses(e) PROVE Kept
  <2>1. row' = [row EXCEPT ![e] = [row[e] EXCEPT !.next = "due"]]
    BY <1>4 DEF BackoffElapses
  <2>2. [row[e] EXCEPT !.next = "due"].attempts = row[e].attempts
    BY DEF TypeOK, Rows
  <2> QED BY <2>1, <2>2 DEF TypeOK
<1>5. ASSUME NEW w \in Worker, RecoverOne(w) PROVE Kept
  <2> DEFINE e == cur[w]
             was == loaded[w][e]
             new == IF Exhausted(was) THEN Assign(was, "failed", "none", "failed")
                                      ELSE Assign(was, "queued", "due", "queued")
  <2>1. e \in Email /\ was \in Rows
    BY <1>5 DEF RecoverOne, MirrorInv, LoadedBeforeWrite, TypeOK
  <2>2. row' = [row EXCEPT ![e] = Flush(row[e], was, new)]
    BY <1>5 DEF RecoverOne
  <2> HIDE DEF e, was
  <2>3. new.attempts = was.attempts
    BY <2>1, AssignType DEF Statuses, NextAt
  <2> QED BY <1>2, <2>1, <2>2, <2>3
<1>6. ASSUME NEW w \in Worker, RecordSuccess(w) \/ RecordFailure(w) PROVE Kept
  <2> DEFINE was == loaded[w][cur[w]]
  <2>1. cur[w] \in Email
    BY <1>6 DEF RecordSuccess, RecordFailure, MirrorInv, LoadedBeforeWrite
  <2>2. was \in Rows
    BY <2>1 DEF TypeOK
  <2>3. PICK s \in Statuses, n \in NextAt, d \in {"queued", "sent", "failed"} :
             row' = [row EXCEPT ![cur[w]] = Flush(row[cur[w]], was, Assign(was, s, n, d))]
    BY <1>6 DEF RecordSuccess, RecordFailure, Statuses, NextAt
  <2> HIDE DEF was
  <2>4. Assign(was, s, n, d).attempts = was.attempts
    BY <2>2, AssignType
  <2> QED BY <1>2, <2>1, <2>3, <2>4
<1>7. ASSUME NEW w \in Worker, WorkerStep(w) \/ Crash(w) PROVE Kept
  <2>1. \/ UNCHANGED row \/ RecoverOne(w) \/ RecordSuccess(w) \/ RecordFailure(w)
    BY <1>7
    DEF WorkerStep, LockStale, NothingStale, ReadDelivery, LockDue, NothingDue, StartDispatch, SkipUnclaimed,
        ProviderAccepts, ProviderFails, ReloadFailed, DropFailed, Crash, table
  <2> QED BY <1>1, <1>5, <1>6, <2>1
<1> QED
  BY <1>1, <1>3, <1>4, <1>7 DEF Next, TimePasses, ClaimAges, vars, table

\* A lock a worker holds changes hands only by that worker's own step.
LEMMA LockKept ==
    ASSUME TypeOK, [Next]_vars, NEW w \in Worker, NEW e \in Email, lock[e] = w,
           pc[w] \in {"claiming", "recovering", "returning"}, Operator = {},
           ~CommitClaim(w), ~Crash(w), ~RecoverOne(w), \A b \in Email : ~ReadDelivery(w, b)
    PROVE  /\ lock'[e] = w
           /\ pc'[w] = pc[w] /\ todo'[w] = todo[w] /\ loaded'[w] = loaded[w]
<1> DEFINE Kept == /\ lock'[e] = w
                   /\ pc'[w] = pc[w] /\ todo'[w] = todo[w] /\ loaded'[w] = loaded[w]
<1> USE DEF TypeOK
<1>1. ASSUME NEW v \in Worker, LockStale(v) \/ LockDue(v) PROVE Kept
  <2>1. v # w /\ None \notin Worker
    BY <1>1, OutboxAssumption DEF LockStale, LockDue
  <2>2. PICK B \in SUBSET Email :
             /\ \A b \in B : lock[b] = None
             /\ todo' = [todo EXCEPT ![v] = B]
             /\ lock' = [b \in Email |-> IF b \in B THEN v ELSE lock[b]]
             /\ loaded' = [loaded EXCEPT ![v] = [b \in Email |-> IF b \in B THEN row[b] ELSE Absent]]
    <3>1. \A B \in Batches(StaleSending) \cup Batches(Due) :
               B \in SUBSET Email /\ \A b \in B : lock[b] = None
      BY DEF Batches, StaleSending, Due
    <3>2. CASE LockStale(v) BY <3>1, <3>2, ZenonT(30) DEF LockStale
    <3>3. CASE LockDue(v)   BY <3>1, <3>3, ZenonT(30) DEF LockDue
    <3> QED BY <1>1, <3>2, <3>3
  <2>3. pc'[w] = pc[w]
    BY <1>1, <2>1 DEF LockStale, LockDue
  <2> QED BY <2>1, <2>2, <2>3
<1>2. ASSUME NEW v \in Worker, v # w, CommitClaim(v) \/ Crash(v) PROVE Kept
  BY <1>2 DEF CommitClaim, Crash, Unlocked
<1>3. ASSUME NEW v \in Worker, RecoverOne(v) PROVE Kept
  <2> DEFINE b == cur[v]
  <2>1. v # w
    BY <1>3
  <2>2. /\ lock' = Unlocked(v)
        /\ todo' = [todo EXCEPT ![v] = @ \ {b}]
        /\ pc' = [pc EXCEPT ![v] = IF todo[v] = {b} THEN "claim" ELSE "recovering"]
        /\ loaded' = [loaded EXCEPT ![v][b] = Absent]
    BY <1>3 DEF RecoverOne
  <2> HIDE DEF b
  <2> QED BY <2>1, <2>2 DEF Unlocked
<1>3a. ASSUME NEW v \in Worker, NEW b \in Email, ReadDelivery(v, b) PROVE Kept
  BY <1>3a DEF ReadDelivery, table
<1>4. ASSUME NEW v \in Worker, NothingStale(v) \/ NothingDue(v) PROVE Kept
  BY <1>4 DEF NothingStale, NothingDue, table
<1>5. ASSUME NEW v \in Worker, NEW b, Advance(v, b), 
             pc[v] \notin {"claiming", "recovering", "returning"}, UNCHANGED lock
      PROVE  Kept
  BY <1>5 DEF Advance
<1>6. ASSUME NEW v \in Worker, NEW b \in Email, StartDispatch(v, b) PROVE Kept
  BY <1>6 DEF StartDispatch, table
<1>7. ASSUME NEW v \in Worker, ProviderAccepts(v) \/ ProviderFails(v) \/ ReloadFailed(v) PROVE Kept
  BY <1>7 DEF ProviderAccepts, ProviderFails, ReloadFailed, table
<1>8. ASSUME UNCHANGED <<lock, session>> PROVE Kept
  BY <1>8 DEF session
<1> HIDE DEF TypeOK
<1>9. ASSUME NEW v \in Worker, WorkerStep(v) \/ Crash(v) PROVE Kept
  BY <1>1, <1>2, <1>3, <1>3a, <1>4, <1>5, <1>6, <1>7, <1>9
  DEF WorkerStep, SkipUnclaimed, RecordSuccess, RecordFailure, DropFailed, table
<1> QED
  BY <1>8, <1>9 DEF Next, TimePasses, Enqueue, BackoffElapses, ClaimAges, vars, table

\* Every step without operators keeps the strengthening for AttemptsGrantedOnce.
LEMMA GrantStep ==
    ASSUME TypeOK, MirrorInv, GrantInv, [Next]_vars, Operator = {}
    PROVE  GrantInv'
<1>1. ASSUME NEW w \in Worker, CommitClaim(w) PROVE GrantInv'
  <2> DEFINE new(e) == [email |-> e, attempt |-> loaded[w][e].attempts + 1, worker |-> w]
  <2>1. ASSUME NEW e \in todo[w]
        PROVE  /\ e \in Email /\ lock[e] = w
               /\ loaded[w][e].attempts = row[e].attempts
               /\ row'[e].attempts = row[e].attempts + 1
    <3> DEFINE was == WithDelivery(loaded[w][e], row[e].delivery)
    <3>1. e \in Email /\ lock[e] = w /\ loaded[w][e].attempts = row[e].attempts
      BY <1>1 DEF CommitClaim, GrantInv, ClaimsLocked, TypeOK
    <3>2. was \in Rows /\ was.attempts = row[e].attempts /\ row[e].attempts \in Nat
      BY <3>1, WithDeliveryType DEF TypeOK, Rows
    <3>3. row'[e] = Claimed(e, was)
      BY <1>1, <3>1 DEF CommitClaim
    <3> HIDE DEF was
    <3>4. Assign(Counted(was), "sending", "none", "queued").attempts = was.attempts + 1
      BY <3>2, AssignType, CountedType DEF Statuses, NextAt
    <3>5. was.attempts + 1 # was.attempts
      BY <3>2
    <3> QED BY <3>1, <3>2, <3>3, <3>4, <3>5, FlushAttempts DEF Claimed
  <2>2. ASSUME NEW e \in Email, e \notin todo[w] PROVE row'[e] = row[e]
    BY <1>1, <2>2 DEF CommitClaim
  <2>3. grants' = grants \cup {new(e) : e \in todo[w]}
    BY <1>1 DEF CommitClaim
  <2>4. \A g \in grants : g.email \in Email /\ g.attempt \in Nat /\ g.attempt <= row[g.email].attempts
    BY DEF GrantInv, GrantsCounted, TypeOK
  <2>5. \A e \in Email : row[e].attempts \in Nat
    BY DEF TypeOK, Rows
  <2>6. GrantsCounted'
    <3>1. ASSUME NEW g \in grants PROVE g.attempt <= row'[g.email].attempts
      <4>1. CASE g.email \in todo[w] BY <4>1, <2>1, <2>4, <2>5
      <4>2. CASE g.email \notin todo[w] BY <4>2, <2>2, <2>4
      <4> QED BY <4>1, <4>2
    <3>2. ASSUME NEW e \in todo[w] PROVE new(e).attempt <= row'[new(e).email].attempts
      BY <2>1, <2>5
    <3> QED BY <2>3, <3>1, <3>2 DEF GrantsCounted
  <2>7. ClaimsLocked'
    <3> SUFFICES ASSUME NEW v \in Worker, NEW e \in todo'[v], pc'[v] = "claiming"
                 PROVE  (lock[e])' = v /\ (loaded[v][e])'.attempts = (row[e])'.attempts
      BY DEF ClaimsLocked
    <3>1. v # w /\ pc[v] = "claiming" /\ e \in todo[v] /\ e \in Email /\ loaded'[v] = loaded[v]
      BY <1>1 DEF CommitClaim, TypeOK
    <3>2. lock[e] = v /\ loaded[v][e].attempts = row[e].attempts
      BY <3>1 DEF GrantInv, ClaimsLocked
    <3>3. e \notin todo[w]
      BY <2>1, <3>1, <3>2
    <3>4. lock'[e] = v
      BY <1>1, <3>1, <3>2 DEF CommitClaim, Unlocked
    <3> QED BY <2>2, <3>1, <3>2, <3>3, <3>4
  <2>8. AttemptGrantedOnce'
    <3>1. ASSUME NEW g \in grants, NEW e \in todo[w], g.email = e
          PROVE  g.attempt # new(e).attempt
      BY <2>1, <2>4, <2>5, <3>1
    <3>2. ASSUME NEW g \in grants', NEW h \in grants', g.email = h.email, g.attempt = h.attempt
          PROVE  g = h
      <4>1. CASE g \in grants /\ h \in grants
        BY <3>2, <4>1 DEF GrantInv, AttemptGrantedOnce
      <4>2. CASE g \in grants /\ h \notin grants
        BY <2>3, <3>1, <3>2, <4>2
      <4>3. CASE g \notin grants /\ h \in grants
        BY <2>3, <3>1, <3>2, <4>3
      <4>4. CASE g \notin grants /\ h \notin grants
        BY <2>3, <3>2, <4>4
      <4> QED BY <4>1, <4>2, <4>3, <4>4
    <3> QED BY <3>2 DEF AttemptGrantedOnce
  <2> QED BY <2>6, <2>7, <2>8 DEF GrantInv
<1>2. ASSUME \A w \in Worker : ~CommitClaim(w) PROVE GrantInv'
  <2>1. \A e \in Email : row'[e].attempts = row[e].attempts
    BY <1>2, AttemptsKept
  <2>2. grants' = grants
    BY <1>2 DEF Next, TimePasses, Enqueue, BackoffElapses, ClaimAges, vars, table, history,
       WorkerStep, LockStale, NothingStale, ReadDelivery, RecoverOne, LockDue, NothingDue,
       StartDispatch, SkipUnclaimed, ProviderAccepts, ProviderFails, RecordSuccess, ReloadFailed,
       DropFailed, RecordFailure, Crash
  <2>3. GrantsCounted' /\ AttemptGrantedOnce'
    BY <2>1, <2>2 DEF GrantInv, GrantsCounted, AttemptGrantedOnce, TypeOK
  <2>4. ClaimsLocked'
    <3> SUFFICES ASSUME NEW w \in Worker, NEW e \in todo'[w], pc'[w] = "claiming"
                 PROVE  (lock[e])' = w /\ (loaded[w][e])'.attempts = (row[e])'.attempts
      BY DEF ClaimsLocked
    <3>1. CASE pc[w] = "claiming" /\ ~Crash(w) /\ e \in todo[w]
      <4>1. e \in Email /\ lock[e] = w /\ loaded[w][e].attempts = row[e].attempts
        BY <3>1 DEF GrantInv, ClaimsLocked, TypeOK
      <4>2. ~RecoverOne(w) /\ \A b \in Email : ~ReadDelivery(w, b)
        BY <3>1 DEF RecoverOne, ReadDelivery
      <4> QED BY <1>2, <2>1, <3>1, <4>1, <4>2, LockKept
    <3>2. CASE Crash(w)
      BY <3>2 DEF Crash, TypeOK
    <3>3. CASE LockDue(w)
      <4>1. PICK B \in SUBSET Email :
                 /\ todo' = [todo EXCEPT ![w] = B]
                 /\ lock' = [b \in Email |-> IF b \in B THEN w ELSE lock[b]]
                 /\ loaded' = [loaded EXCEPT ![w] = [b \in Email |-> IF b \in B THEN row[b] ELSE Absent]]
        BY <3>3 DEF LockDue, Batches, Due
      <4> QED BY <2>1, <3>3, <4>1 DEF TypeOK
    <3>4. CASE ~Crash(w) /\ ~LockDue(w) /\ ~(pc[w] = "claiming" /\ e \in todo[w])
      <4>1. CASE UNCHANGED <<pc, todo>>
        BY <3>4, <4>1
      <4>2. ASSUME NEW v \in Worker, v # w, WorkerStep(v) \/ Crash(v)
            PROVE  pc'[w] = pc[w] /\ todo'[w] = todo[w]
        BY <1>2, <4>2 DEF TypeOK, WorkerStep, LockStale, NothingStale, ReadDelivery, RecoverOne, LockDue, NothingDue,
           StartDispatch, SkipUnclaimed, ProviderAccepts, ProviderFails, RecordSuccess,
           ReloadFailed, DropFailed, RecordFailure, Crash, Advance
      <4>3. ASSUME WorkerStep(w) PROVE pc'[w] # "claiming"
        BY <1>2, <3>4, <4>3 DEF TypeOK, WorkerStep, LockStale, NothingStale, ReadDelivery, RecoverOne, NothingDue,
           StartDispatch, SkipUnclaimed, ProviderAccepts, ProviderFails, RecordSuccess,
           ReloadFailed, DropFailed, RecordFailure, Advance
      <4> QED BY <3>4, <4>1, <4>2, <4>3 DEF Next, TimePasses, Enqueue, BackoffElapses, ClaimAges, vars, table, session
    <3> QED BY <3>1, <3>2, <3>3, <3>4
  <2> QED BY <2>3, <2>4 DEF GrantInv
<1> QED BY <1>1, <1>2

\* The strengthening for AttemptsGrantedOnce holds initially.
LEMMA GrantInit == Init => GrantInv
  BY DEF Init, GrantInv, GrantsCounted, ClaimsLocked, AttemptGrantedOnce

\* With workers alone, an attempt number of a message is never granted twice:
\* SKIP LOCKED and the lock held to the commit make the claim atomic.
THEOREM AttemptsGrantedOnce ==
    ASSUME Operator = {} PROVE Spec => []AttemptGrantedOnce
<1>1. TypeOK /\ MirrorInv /\ GrantInv /\ [Next]_vars => MirrorInv' /\ GrantInv'
  BY LoadedStep, RequestStep, RowsStep, GrantStep DEF MirrorInv
<1>2. GrantInv => AttemptGrantedOnce
  BY DEF GrantInv
<1> QED BY <1>1, <1>2, MirrorInit, GrantInit, TypeCorrect, PTL DEF Spec

-----------------------------------------------------------------------------
(* Copies.                                                                 *)

\* A worker carries the messages of the batch it claimed, until it is done with each; its
\* attempt at one is spent when the provider has answered.
AtProvider == {"sending", "accepted", "failing", "recordingFailure"}
Carries(w, e) == pc[w] \in AtProvider \cup {"dispatch"} /\ e \in todo[w]
Spent(w, e)   == pc[w] \in AtProvider \ {"sending"} /\ cur[w] = e
Unspent(e)    == {w \in Worker : Carries(w, e) /\ ~Spent(w, e)}

CurCarried == \A w \in Worker : pc[w] \in AtProvider => cur[w] \in todo[w]

\* What is being claimed has an attempt left and is nobody's.
ClaimsDue ==
    \A w \in Worker : \A e \in todo[w] : pc[w] = "claiming" =>
        row[e].status \in {"queued", "failed"} /\ row[e].attempts < MaxAttempts

\* Each copy, and each attempt still to be made, is one of those counted.
CopiesCounted(e) ==
    /\ row[e].attempts <= MaxAttempts
    /\ IsFiniteSet(Unspent(e))
    /\ accepted[e] + Cardinality(Unspent(e)) <= row[e].attempts

\* Until there is an excuse one worker at most carries a message, and none but the one whose
\* copy was accepted once there is a copy; and the message then is sending or sent.
OneCopy(e) ==
    ~excused[e] =>
        /\ \A w \in Worker : Carries(w, e) =>
              /\ row[e].status = "sending"
              /\ \A v \in Worker : Carries(v, e) => v = w
              /\ accepted[e] # 0 => pc[w] = "accepted" /\ cur[w] = e
        /\ accepted[e] # 0 => accepted[e] = 1 /\ row[e].status \in {"sending", "sent"}

CopiesInv ==
    /\ CurCarried
    /\ ClaimsDue
    /\ \A e \in Email : CopiesCounted(e) /\ OneCopy(e)

\* A step that does nothing to a message: nobody takes it up, and no attempt at it is given back.
Quiet(e) ==
    /\ row'[e].status = row[e].status /\ row'[e].attempts = row[e].attempts
    /\ accepted'[e] = accepted[e]
    /\ excused[e] => excused'[e]
    /\ \A w \in Worker : Carries(w, e)' =>
          /\ Carries(w, e)
          /\ Spent(w, e) => Spent(w, e)'
          /\ pc[w] = "accepted" /\ cur[w] = e => pc'[w] = "accepted" /\ cur'[w] = e

LEMMA CountKept ==
    ASSUME TypeOK, NEW e \in Email, CopiesCounted(e), Unspent(e)' \subseteq Unspent(e),
           row'[e].attempts = row[e].attempts, accepted'[e] = accepted[e]
    PROVE  CopiesCounted(e)'
<1>1. /\ IsFiniteSet(Unspent(e)') /\ Cardinality(Unspent(e)') <= Cardinality(Unspent(e))
      /\ Cardinality(Unspent(e)') \in Nat /\ Cardinality(Unspent(e)) \in Nat
  BY FS_Subset, FS_CardinalityType DEF CopiesCounted
<1>2. row[e].attempts \in Nat /\ accepted[e] \in Nat
  BY DEF TypeOK, Rows
<1> QED  BY <1>1, <1>2 DEF CopiesCounted

LEMMA QuietKeeps ==
    ASSUME TypeOK, NEW e \in Email, CopiesCounted(e), OneCopy(e), Quiet(e)
    PROVE  CopiesCounted(e)' /\ OneCopy(e)'
<1>1. Unspent(e)' \subseteq Unspent(e)
  BY DEF Quiet, Unspent
<1>2. CopiesCounted(e)'
  BY <1>1, CountKept DEF Quiet
<1>3. OneCopy(e)'
  BY DEF OneCopy, Quiet
<1> QED  BY <1>2, <1>3

\* The message at the provider is one the worker carries.
LEMMA CurStep ==
    ASSUME TypeOK, CurCarried, [Next]_vars, Operator = {}
    PROVE  CurCarried'
<1> USE DEF TypeOK, CurCarried, AtProvider
<1>1. CASE UNCHANGED session
  BY <1>1 DEF session
<1>2. ASSUME NEW w \in Worker, LockStale(w) \/ LockDue(w) PROVE CurCarried'
  <2>1. PICK B : todo' = [todo EXCEPT ![w] = B]
    BY <1>2 DEF LockStale, LockDue
  <2> QED  BY <1>2, <2>1 DEF LockStale, LockDue
<1>3. ASSUME NEW w \in Worker, RecoverOne(w) \/ \E e \in Email : ReadDelivery(w, e) PROVE CurCarried'
  <2>1. pc'[w] \notin AtProvider
    BY <1>3 DEF RecoverOne, ReadDelivery
  <2>2. \A v \in Worker \ {w} : pc'[v] = pc[v] /\ todo'[v] = todo[v] /\ cur'[v] = cur[v]
    BY <1>3 DEF RecoverOne, ReadDelivery
  <2> QED  BY <2>1, <2>2
<1>4. ASSUME NEW w \in Worker, NEW e, Advance(w, e) PROVE CurCarried'
  BY <1>4 DEF Advance
<1>5. ASSUME NEW w \in Worker, NEW e \in Email, StartDispatch(w, e) PROVE CurCarried'
  BY <1>5 DEF StartDispatch
<1>6. ASSUME NEW w \in Worker,
             \/ ProviderAccepts(w) \/ ProviderFails(w) \/ ReloadFailed(w) \/ NothingStale(w)
             \/ NothingDue(w) \/ CommitClaim(w) \/ Crash(w)
      PROVE  CurCarried'
  BY <1>6 DEF ProviderAccepts, ProviderFails, ReloadFailed, NothingStale, NothingDue, CommitClaim, Crash
<1> HIDE DEF TypeOK, CurCarried, AtProvider
<1>7. ASSUME NEW w \in Worker, WorkerStep(w) \/ Crash(w) PROVE CurCarried'
  BY <1>2, <1>3, <1>4, <1>5, <1>6, <1>7
  DEF WorkerStep, SkipUnclaimed, RecordSuccess, DropFailed, RecordFailure
<1> QED  BY <1>1, <1>7 DEF Next, TimePasses, Enqueue, BackoffElapses, ClaimAges, vars

\* Who claims began to when the messages were due, or claimed them before the step too.
LEMMA ClaimersStay ==
    ASSUME TypeOK, [Next]_vars, Operator = {}, NEW w \in Worker, NEW e \in todo'[w],
           pc'[w] = "claiming"
    PROVE  \/ pc[w] = "claiming" /\ e \in todo[w] /\ ~CommitClaim(w) /\ ~Crash(w)
           \/ e \in Due /\ UNCHANGED row
<1>1. CASE UNCHANGED <<pc, todo>>
  BY <1>1 DEF CommitClaim, Crash, TypeOK
<1>2. ASSUME NEW v \in Worker \ {w}, WorkerStep(v) \/ Crash(v)
      PROVE  pc'[w] = pc[w] /\ todo'[w] = todo[w]
  BY <1>2 DEF TypeOK, WorkerStep, LockStale, NothingStale, ReadDelivery, RecoverOne, LockDue, NothingDue,
     CommitClaim, StartDispatch, SkipUnclaimed, ProviderAccepts, ProviderFails, RecordSuccess,
     ReloadFailed, DropFailed, RecordFailure, Crash, Advance
<1>3. ASSUME WorkerStep(w) \/ Crash(w), ~LockDue(w) PROVE FALSE
  BY <1>3 DEF TypeOK, WorkerStep, LockStale, NothingStale, ReadDelivery, RecoverOne, NothingDue,
     CommitClaim, StartDispatch, SkipUnclaimed, ProviderAccepts, ProviderFails, RecordSuccess,
     ReloadFailed, DropFailed, RecordFailure, Crash, Advance
<1>4. CASE LockDue(w)
  <2>1. PICK B \in SUBSET Due : todo' = [todo EXCEPT ![w] = B]
    BY <1>4 DEF LockDue, Batches
  <2> QED  BY <1>4, <2>1 DEF LockDue, TypeOK
<1>5. CASE \E v \in Worker \ {w} : WorkerStep(v) \/ Crash(v)
  <2>1. pc[w] = "claiming" /\ e \in todo[w]
    BY <1>2, <1>5
  <2>2. ~CommitClaim(w) /\ ~Crash(w)
    BY DEF CommitClaim, Crash, TypeOK
  <2> QED  BY <2>1, <2>2
<1> QED
  BY <1>1, <1>3, <1>4, <1>5
  DEF Next, TimePasses, Enqueue, BackoffElapses, ClaimAges, vars, session

\* The lock of a claim keeps everybody else off the row.
LEMMA RowHeld ==
    ASSUME TypeOK, MirrorInv, GrantInv, [Next]_vars, Operator = {},
           NEW w \in Worker, NEW e \in todo[w], pc[w] = "claiming", ~CommitClaim(w),
           row[e].status \in {"queued", "failed"}
    PROVE  row'[e].status = row[e].status
<1>1. e \in Email /\ lock[e] = w /\ None \notin Worker
  BY OutboxAssumption DEF GrantInv, ClaimsLocked, TypeOK
<1>2. ASSUME NEW v \in Worker, CommitClaim(v) PROVE row'[e] = row[e]
  <2>1. v # w /\ pc[v] = "claiming"
    BY <1>2 DEF CommitClaim
  <2>2. e \notin todo[v]
    BY <1>1, <2>1 DEF GrantInv, ClaimsLocked
  <2> QED  BY <1>1, <1>2, <2>2 DEF CommitClaim
<1>3. ASSUME NEW v \in Worker, RecoverOne(v) PROVE row'[e] = row[e]
  BY <1>1, <1>3 DEF RecoverOne, Writable, TypeOK
<1>4. ASSUME NEW v \in Worker, RecordSuccess(v) \/ RecordFailure(v) PROVE row'[e] = row[e]
  BY <1>1, <1>4 DEF RecordSuccess, RecordFailure, Writable, TypeOK
<1>5. ASSUME NEW v \in Worker, WorkerStep(v) \/ Crash(v) PROVE row'[e] = row[e]
  BY <1>2, <1>3, <1>4, <1>5
  DEF WorkerStep, LockStale, NothingStale, ReadDelivery, LockDue, NothingDue, StartDispatch,
      SkipUnclaimed, ProviderAccepts, ProviderFails, ReloadFailed, DropFailed, Crash, table
<1>6. ASSUME NEW b \in Email, Enqueue(b) \/ BackoffElapses(b) PROVE row'[e].status = row[e].status
  <2>1. CASE Enqueue(b)
    BY <1>1, <2>1 DEF Enqueue, Absent, TypeOK
  <2>2. CASE BackoffElapses(b)
    BY <1>1, <2>2 DEF BackoffElapses, TypeOK, Rows
  <2> QED  BY <1>6, <2>1, <2>2
<1> QED  BY <1>5, <1>6 DEF Next, TimePasses, ClaimAges, vars, table

LEMMA ClaimsDueStep ==
    ASSUME TypeOK, MirrorInv, GrantInv, ClaimsDue, [Next]_vars, Operator = {}
    PROVE  ClaimsDue'
<1> SUFFICES ASSUME NEW w \in Worker, NEW e \in todo'[w], pc'[w] = "claiming"
             PROVE  row'[e].status \in {"queued", "failed"} /\ row'[e].attempts < MaxAttempts
  BY DEF ClaimsDue
<1>1. CASE e \in Due /\ UNCHANGED row
  BY <1>1 DEF Due
<1>2. CASE pc[w] = "claiming" /\ e \in todo[w] /\ ~CommitClaim(w)
  <2>1. row[e].status \in {"queued", "failed"} /\ row[e].attempts < MaxAttempts /\ e \in Email
    BY <1>2 DEF ClaimsDue, TypeOK
  <2>2. row'[e].status = row[e].status
    BY <1>2, <2>1, RowHeld
  <2>3. row'[e].attempts = row[e].attempts
    <3>1. CASE \A v \in Worker : ~CommitClaim(v)
      BY <2>1, <3>1, AttemptsKept
    <3>2. ASSUME NEW v \in Worker, CommitClaim(v) PROVE row'[e] = row[e]
      <4>1. v # w /\ lock[e] = w
        BY <1>2, <3>2 DEF GrantInv, ClaimsLocked
      <4>2. pc[v] = "claiming"
        BY <3>2 DEF CommitClaim
      <4>3. e \notin todo[v]
        BY <4>1, <4>2 DEF GrantInv, ClaimsLocked
      <4> QED  BY <2>1, <3>2, <4>3 DEF CommitClaim
    <3> QED  BY <3>1, <3>2
  <2> QED  BY <2>1, <2>2, <2>3
<1> QED  BY <1>1, <1>2, ClaimersStay

\* A claim counts an attempt, which the worker is to make.
LEMMA ClaimCounts ==
    ASSUME TypeOK, MirrorInv, GrantInv, CopiesInv, NEW w \in Worker, CommitClaim(w),
           NEW e \in todo[w]
    PROVE  CopiesCounted(e)' /\ OneCopy(e)'
<1>1. /\ e \in Email /\ pc[w] = "claiming" /\ row[e].attempts \in Nat /\ row[e].attempts < MaxAttempts
      /\ loaded[w][e].attempts = row[e].attempts /\ loaded[w][e] \in Rows
      /\ row[e].status \in {"queued", "failed"} /\ loaded[w][e].status \in {"queued", "failed"}
      /\ accepted[e] \in Nat /\ MaxAttempts \in Nat
  BY OutboxAssumption DEF CommitClaim, TypeOK, Rows, CopiesInv, ClaimsDue, GrantInv, ClaimsLocked,
     MirrorInv, LoadedBeforeWrite
<1>2. row'[e].attempts = row[e].attempts + 1 /\ row'[e].status = "sending"
  <2> DEFINE was == WithDelivery(loaded[w][e], row[e].delivery)
             new == Assign(Counted(was), "sending", "none", "queued")
  <2>1. row'[e] = Flush(row[e], was, new)
    BY <1>1 DEF CommitClaim, Claimed
  <2>2. was \in Rows /\ was.attempts = row[e].attempts /\ was.status # "sending"
    BY <1>1, WithDeliveryType DEF TypeOK
  <2> HIDE DEF was
  <2>3. new.attempts = was.attempts + 1 /\ new.status = "sending"
    BY <2>2, CountedType, AssignType DEF Statuses, NextAt
  <2> HIDE DEF new
  <2>4. was.attempts + 1 # was.attempts
    BY <1>1, <2>2
  <2> QED  BY <1>1, <2>1, <2>2, <2>3, <2>4 DEF Flush
<1>3. /\ pc' = [pc EXCEPT ![w] = "dispatch"]
      /\ UNCHANGED <<todo, cur, accepted, excused>>
  BY <1>1 DEF CommitClaim
<1>4. /\ \A v \in Worker \ {w} : (Carries(v, e)' <=> Carries(v, e)) /\ (Spent(v, e)' <=> Spent(v, e))
      /\ Carries(w, e)' /\ ~Spent(w, e)'
  BY <1>3 DEF TypeOK, Carries, Spent, AtProvider
<1>5. CopiesCounted(e)'
  <2>1. Unspent(e)' = Unspent(e) \cup {w}
    BY <1>1, <1>4 DEF Unspent, Carries, AtProvider
  <2>2. /\ IsFiniteSet(Unspent(e)) /\ accepted[e] + Cardinality(Unspent(e)) <= row[e].attempts
        /\ Cardinality(Unspent(e)) \in Nat
    BY <1>1, FS_CardinalityType DEF CopiesInv, CopiesCounted
  <2>3. /\ IsFiniteSet(Unspent(e) \cup {w})
        /\ Cardinality(Unspent(e) \cup {w}) \in {Cardinality(Unspent(e)), Cardinality(Unspent(e)) + 1}
    BY <2>2, FS_AddElement
  <2>4. accepted[e] + Cardinality(Unspent(e) \cup {w}) <= row[e].attempts + 1
    BY <1>1, <2>2, <2>3
  <2> QED  BY <1>1, <1>2, <1>3, <2>1, <2>3, <2>4 DEF CopiesCounted
<1>6. OneCopy(e)'
  <2>1. ~excused[e] => accepted[e] = 0 /\ \A v \in Worker : ~Carries(v, e)
    BY <1>1 DEF CopiesInv, OneCopy
  <2> QED  BY <1>2, <1>3, <1>4, <2>1 DEF OneCopy
<1> QED  BY <1>5, <1>6

\* The provider's answer spends an attempt, whether or not it took the message.
LEMMA AnswerSpends ==
    ASSUME TypeOK, CopiesInv, NEW w \in Worker, pc[w] = "sending", NEW e, e = cur[w],
           NEW phase \in {"accepted", "failing"}, pc' = [pc EXCEPT ![w] = phase],
           UNCHANGED <<row, todo, cur>>,
           excused[e] => excused'[e],
           \/ accepted'[e] = accepted[e]
           \/ accepted'[e] = accepted[e] + 1 /\ (phase = "accepted" \/ excused'[e])
    PROVE  CopiesCounted(e)' /\ OneCopy(e)'
<1>1. /\ e \in todo[w] /\ e \in Email /\ row[e].attempts \in Nat /\ accepted[e] \in Nat
  BY DEF CopiesInv, CurCarried, AtProvider, TypeOK, Rows
<1>2. /\ \A v \in Worker \ {w} : (Carries(v, e)' <=> Carries(v, e)) /\ (Spent(v, e)' <=> Spent(v, e))
      /\ Carries(w, e) /\ ~Spent(w, e) /\ Spent(w, e)'
  BY <1>1 DEF TypeOK, Carries, Spent, AtProvider
<1>3. CopiesCounted(e)'
  <2>1. Unspent(e)' = Unspent(e) \ {w} /\ w \in Unspent(e)
    BY <1>2 DEF Unspent
  <2>2. /\ IsFiniteSet(Unspent(e)) /\ accepted[e] + Cardinality(Unspent(e)) <= row[e].attempts
        /\ Cardinality(Unspent(e)) \in Nat /\ row[e].attempts <= MaxAttempts
    BY <1>1, FS_CardinalityType DEF CopiesInv, CopiesCounted
  <2>3. /\ IsFiniteSet(Unspent(e) \ {w})
        /\ Cardinality(Unspent(e) \ {w}) = Cardinality(Unspent(e)) - 1
    BY <2>1, <2>2, FS_RemoveElement
  <2>4. accepted'[e] + Cardinality(Unspent(e) \ {w}) <= row[e].attempts
    BY <1>1, <2>2, <2>3
  <2> QED  BY <2>1, <2>2, <2>3, <2>4 DEF CopiesCounted
<1>4. OneCopy(e)'
  <2>1. ~excused[e] => /\ accepted[e] = 0 /\ row[e].status = "sending"
                       /\ \A v \in Worker \ {w} : ~Carries(v, e)
    BY <1>1, <1>2 DEF CopiesInv, OneCopy
  <2>2. ~excused'[e] /\ accepted'[e] # 0 => pc'[w] = "accepted" /\ accepted'[e] = 1
    BY <1>1, <2>1 DEF TypeOK
  <2> QED  BY <1>1, <1>2, <2>1, <2>2 DEF OneCopy
<1> QED  BY <1>3, <1>4

\* A worker that is done with a message carries it no more.
LEMMA DoneKeeps ==
    ASSUME TypeOK, CopiesInv, NEW w \in Worker, NEW e \in Email, Carries(w, e), Advance(w, e),
           UNCHANGED <<accepted, excused>>, row'[e].attempts = row[e].attempts,
           pc[w] = "accepted" /\ cur[w] = e => row'[e].status \in {row[e].status, "sent"}
    PROVE  CopiesCounted(e)' /\ OneCopy(e)'
<1>1. /\ todo' = [todo EXCEPT ![w] = @ \ {e}] /\ cur' = [cur EXCEPT ![w] = None]
      /\ \A v \in Worker \ {w} : pc'[v] = pc[v]
  BY DEF Advance, TypeOK
<1>2. /\ \A v \in Worker \ {w} : (Carries(v, e)' <=> Carries(v, e)) /\ (Spent(v, e)' <=> Spent(v, e))
      /\ ~Carries(w, e)'
  BY <1>1 DEF TypeOK, Carries, Spent
<1>3. CopiesCounted(e)'
  <2>1. Unspent(e)' \subseteq Unspent(e)
    BY <1>2 DEF Unspent
  <2> QED  BY <2>1, CountKept DEF CopiesInv
<1>4. OneCopy(e)'
  <2>1. ~excused[e] => \A v \in Worker : ~Carries(v, e)'
    BY <1>2 DEF CopiesInv, OneCopy
  <2>2. ~excused[e] /\ accepted[e] # 0 =>
            accepted[e] = 1 /\ row'[e].status \in {"sending", "sent"}
    BY DEF CopiesInv, OneCopy
  <2> QED  BY <2>1, <2>2 DEF OneCopy
<1> QED  BY <1>3, <1>4

LEMMA CopiesStep ==
    ASSUME TypeOK, MirrorInv, GrantInv, CopiesInv, [Next]_vars, Operator = {}
    PROVE  CopiesInv'
<1> SUFFICES ASSUME NEW e \in Email PROVE CopiesCounted(e)' /\ OneCopy(e)'
  BY CurStep, ClaimsDueStep DEF CopiesInv
<1> DEFINE Kept == CopiesCounted(e)' /\ OneCopy(e)'
<1>1. Quiet(e) => Kept
  BY QuietKeeps DEF CopiesInv
<1> HIDE DEF Kept
<1>2. ASSUME UNCHANGED <<row, session, history>> PROVE Kept
  BY <1>1, <1>2 DEF Quiet, Carries, Spent, session, history
<1>3. ASSUME NEW b \in Email, Enqueue(b) \/ BackoffElapses(b) PROVE Kept
  <2>1. /\ UNCHANGED <<session, history>>
        /\ b # e => row'[e] = row[e]
        /\ BackoffElapses(b) => row'[e].attempts = row[e].attempts /\ row'[e].status = row[e].status
    <3>1. CASE Enqueue(b)
      <4>1. ~BackoffElapses(b)
        BY <3>1 DEF Enqueue, BackoffElapses, Absent
      <4> QED  BY <3>1, <4>1 DEF Enqueue, TypeOK
    <3>2. CASE BackoffElapses(b)
      BY <3>2 DEF BackoffElapses, TypeOK, Rows
    <3> QED  BY <1>3, <3>1, <3>2
  <2>2. CASE b # e \/ BackoffElapses(b)
    BY <1>1, <2>1, <2>2 DEF Quiet, Carries, Spent, session, history
  <2>3. CASE b = e /\ Enqueue(b)
    <3>1. row[e].status = "absent" /\ row'[e].attempts = row[e].attempts
      <4>1. row'[e] = Assign(Absent, "queued", "due", "queued") /\ row[e] = Absent
        BY <2>3 DEF Enqueue, TypeOK
      <4> QED  BY <4>1 DEF Assign, Absent
    <3>2. ~excused[e] => accepted[e] = 0 /\ \A w \in Worker : ~Carries(w, e)
      BY <3>1 DEF CopiesInv, OneCopy
    <3>3. CopiesCounted(e)'
      BY <2>1, <3>1, CountKept DEF CopiesInv, Unspent, Carries, Spent, session, history
    <3>4. OneCopy(e)'
      BY <2>1, <3>2 DEF OneCopy, Carries, session, history
    <3> QED  BY <3>3, <3>4 DEF Kept
  <2> QED  BY <1>3, <2>2, <2>3
<1>4. ASSUME NEW w \in Worker, LockStale(w) \/ LockDue(w) PROVE Kept
  <2>1. /\ UNCHANGED <<row, cur, history>> /\ pc[w] \in {"idle", "claim"}
        /\ pc'[w] \in {"recovering", "claiming"}
        /\ \A v \in Worker \ {w} : pc'[v] = pc[v] /\ todo'[v] = todo[v]
    BY <1>4 DEF LockStale, LockDue, TypeOK
  <2> QED  BY <1>1, <2>1 DEF Quiet, Carries, Spent, AtProvider, history
<1>5. ASSUME NEW w \in Worker,
             NothingStale(w) \/ NothingDue(w) \/ Crash(w) \/ ReloadFailed(w)
      PROVE  Kept
  <2>1. /\ UNCHANGED <<row, accepted, excused>>
        /\ \A v \in Worker \ {w} : pc'[v] = pc[v] /\ todo'[v] = todo[v] /\ cur'[v] = cur[v]
        /\ \/ pc'[w] \in {"claim", "idle"}
           \/ /\ pc[w] = "failing" /\ pc'[w] = "recordingFailure"
              /\ todo'[w] = todo[w] /\ cur'[w] = cur[w]
    BY <1>5 DEF NothingStale, NothingDue, Crash, ReloadFailed, TypeOK, table, history
  <2> QED  BY <1>1, <2>1 DEF Quiet, Carries, Spent, AtProvider
<1>6a. ASSUME NEW w \in Worker, NEW b \in Email, ReadDelivery(w, b) PROVE Kept
  <2>1. /\ UNCHANGED <<row, todo, accepted, excused>>
        /\ \A v \in Worker \ {w} : pc'[v] = pc[v] /\ cur'[v] = cur[v]
        /\ pc[w] = "recovering" /\ pc'[w] = "returning"
    BY <1>6a DEF ReadDelivery, TypeOK, table, history
  <2> QED  BY <1>1, <2>1 DEF Quiet, Carries, Spent, AtProvider
<1>6. ASSUME NEW w \in Worker, RecoverOne(w) PROVE Kept
  <2> DEFINE b == cur[w]
  <2>1. /\ accepted' = accepted /\ excused' = [excused EXCEPT ![b] = TRUE]
        /\ \A v \in Worker \ {w} : pc'[v] = pc[v] /\ todo'[v] = todo[v] /\ cur'[v] = cur[v]
        /\ pc'[w] \in {"claim", "recovering"}
        /\ b # e => row'[e] = row[e]
    BY <1>6 DEF RecoverOne, TypeOK
  <2> HIDE DEF b
  <2>2. CASE b # e
    <3>1. row'[e] = row[e] /\ accepted'[e] = accepted[e] /\ excused'[e] = excused[e]
      BY <2>1, <2>2 DEF TypeOK
    <3>2. ~Carries(w, e)'
      BY <2>1 DEF Carries, AtProvider
    <3>3. ASSUME NEW v \in Worker \ {w}, Carries(v, e)'
          PROVE  /\ Carries(v, e) /\ (Spent(v, e) => Spent(v, e)')
                 /\ pc'[v] = pc[v] /\ cur'[v] = cur[v]
      BY <2>1, <3>3 DEF Carries, Spent
    <3> QED BY ONLY <1>1, <3>1, <3>2, <3>3 DEF Quiet
  <2>3. CASE b = e
    <3>1. ASSUME NEW v \in Worker, CommitClaim(v) PROVE FALSE
      <4>1. pc[v] = "claiming" /\ pc'[v] # "claiming"
        BY <3>1 DEF CommitClaim, TypeOK
      <4>2. pc[w] = "returning"
        BY <1>6 DEF RecoverOne
      <4> QED  BY <2>1, <4>1, <4>2
    <3>2. row'[e].attempts = row[e].attempts
      BY <3>1, AttemptsKept
    <3>3. Unspent(e)' \subseteq Unspent(e)
      BY <2>1 DEF Unspent, Carries, Spent, AtProvider
    <3>4. CopiesCounted(e)'
      BY <2>1, <3>2, <3>3, CountKept DEF CopiesInv
    <3>5. OneCopy(e)'
      BY <2>1, <2>3 DEF OneCopy, TypeOK
    <3> QED  BY <3>4, <3>5 DEF Kept
  <2> QED  BY <2>2, <2>3
<1>7. ASSUME NEW w \in Worker, CommitClaim(w) PROVE Kept
  <2>1. CASE e \in todo[w]
    BY <1>7, <2>1, ClaimCounts DEF Kept
  <2>2. CASE e \notin todo[w]
    BY <1>1, <1>7, <2>2 DEF CommitClaim, Quiet, Carries, Spent, AtProvider, TypeOK
  <2> QED  BY <2>1, <2>2
<1>8. ASSUME NEW w \in Worker, NEW b \in Email, StartDispatch(w, b) PROVE Kept
  BY <1>1, <1>8 DEF StartDispatch, Quiet, Carries, Spent, AtProvider, TypeOK, table, history
<1>9. ASSUME NEW w \in Worker, NEW b \in Email, Carries(w, b), pc[w] = "dispatch" \/ cur[w] = b,
             Advance(w, b), UNCHANGED <<accepted, excused>>, b # e => row'[e] = row[e],
             row'[b].attempts = row[b].attempts,
             pc[w] = "accepted" /\ cur[w] = b => row'[b].status \in {row[b].status, "sent"}
      PROVE  Kept
  <2>1. CASE b = e
    BY <1>9, <2>1, DoneKeeps DEF Kept
  <2>2. CASE b # e
    BY <1>1, <1>9, <2>2 DEF Advance, Quiet, Carries, Spent, AtProvider, TypeOK
  <2> QED  BY <2>1, <2>2
<1>10. ASSUME NEW w \in Worker, NEW b \in Email, SkipUnclaimed(w, b) PROVE Kept
  BY <1>9, <1>10 DEF SkipUnclaimed, Carries, table, history
<1>11. ASSUME NEW w \in Worker, DropFailed(w) PROVE Kept
  BY <1>9, <1>11 DEF DropFailed, Carries, AtProvider, CopiesInv, CurCarried, TypeOK, table, history
<1>12. ASSUME NEW w \in Worker, RecordSuccess(w) \/ RecordFailure(w) PROVE Kept
  <2> DEFINE b == cur[w]
             was == loaded[w][b]
  <2>1. /\ Carries(w, b) /\ b \in Email /\ Advance(w, b) /\ UNCHANGED <<accepted, excused>>
        /\ pc[w] = IF RecordSuccess(w) THEN "accepted" ELSE "recordingFailure"
    BY <1>12 DEF RecordSuccess, RecordFailure, Carries, AtProvider, CopiesInv, CurCarried, TypeOK, history
  <2>2. b # e => row'[e] = row[e]
    BY <1>12 DEF RecordSuccess, RecordFailure, TypeOK
  <2>3. row'[b].attempts = row[b].attempts
    <3>1. \A v \in Worker : ~CommitClaim(v)
      BY <1>12, <2>1 DEF CommitClaim, Advance, TypeOK
    <3> QED  BY <2>1, <3>1, AttemptsKept
  <2>4. RecordSuccess(w) => row'[b].status = "sent"
    <3>1. SUFFICES ASSUME RecordSuccess(w) PROVE row'[b].status = "sent"
      OBVIOUS
    <3>2. was \in Rows /\ was.status = "sending"
      BY <2>1, <3>1 DEF TypeOK, MirrorInv, LoadedBeforeWrite
    <3>3. row'[b] = Flush(row[b], was, Assign(was, "sent", "none", "sent"))
      BY <2>1, <3>1 DEF RecordSuccess, TypeOK
    <3> HIDE DEF was
    <3>4. Assign(was, "sent", "none", "sent").status = "sent"
      BY <3>2, AssignType DEF Statuses, NextAt
    <3> QED  BY <3>2, <3>3, <3>4 DEF Flush
  <2> HIDE DEF b
  <2> QED  BY <1>9, <1>12, <2>1, <2>2, <2>3, <2>4 DEF b
<1>13. ASSUME NEW w \in Worker, ProviderAccepts(w) \/ ProviderFails(w) PROVE Kept
  <2>1. PICK phase \in {"accepted", "failing"} : pc' = [pc EXCEPT ![w] = phase]
    BY <1>13 DEF ProviderAccepts, ProviderFails
  <2>2. pc[w] = "sending" /\ UNCHANGED <<row, todo, cur>>
    BY <1>13 DEF ProviderAccepts, ProviderFails, table
  <2>3. CASE e = cur[w]
    <3>1. excused[e] => excused'[e]
      BY <1>13 DEF ProviderAccepts, ProviderFails, TypeOK
    <3>2. \/ accepted'[e] = accepted[e]
          \/ accepted'[e] = accepted[e] + 1 /\ (phase = "accepted" \/ excused'[e])
      BY <1>13, <2>1, <2>3 DEF ProviderAccepts, ProviderFails, TypeOK
    <3> QED  BY <2>1, <2>2, <2>3, <3>1, <3>2, AnswerSpends DEF Kept
  <2>4. CASE e # cur[w]
    <3>1. accepted'[e] = accepted[e] /\ excused'[e] = excused[e]
      BY <1>13, <2>4 DEF ProviderAccepts, ProviderFails, TypeOK
    <3> QED  BY <1>1, <2>1, <2>2, <2>4, <3>1 DEF Quiet, Carries, Spent, AtProvider, TypeOK
  <2> QED  BY <2>3, <2>4
<1>14. ASSUME NEW w \in Worker, WorkerStep(w) \/ Crash(w) PROVE Kept
  BY <1>4, <1>5, <1>6, <1>6a, <1>7, <1>8, <1>10, <1>11, <1>12, <1>13, <1>14 DEF WorkerStep
<1>15. Kept
  BY <1>2, <1>3, <1>14 DEF Next, TimePasses, ClaimAges, vars, table
<1> QED BY <1>15 DEF Kept

LEMMA CopiesInit == Init => CopiesInv
<1> SUFFICES ASSUME Init PROVE CopiesInv
  OBVIOUS
<1>1. \A e \in Email : Unspent(e) = {}
  BY DEF Init, Unspent, Carries, AtProvider
<1>2. \A e \in Email : row[e].attempts = 0 /\ accepted[e] = 0
  BY DEF Init, Absent
<1>3. \A e \in Email : CopiesCounted(e)
  BY <1>1, <1>2, FS_EmptySet, OutboxAssumption DEF CopiesCounted
<1> QED  BY <1>2, <1>3 DEF Init, CopiesInv, CurCarried, ClaimsDue, OneCopy, Carries, AtProvider

LEMMA CopiesHold ==
    ASSUME Operator = {} PROVE Spec => [](TypeOK /\ CopiesInv)
<1>1. TypeOK /\ MirrorInv /\ GrantInv /\ CopiesInv /\ [Next]_vars
        => MirrorInv' /\ GrantInv' /\ CopiesInv'
  BY LoadedStep, RequestStep, RowsStep, GrantStep, CopiesStep DEF MirrorInv
<1> QED BY <1>1, MirrorInit, GrantInit, CopiesInit, TypeCorrect, PTL DEF Spec

\* With workers alone, however they crash and rivals take over, the provider takes no more
\* copies of a message than it has attempts.
THEOREM CopiesStayBounded ==
    ASSUME Operator = {} PROVE Spec => []CopiesBounded
<1>1. TypeOK /\ CopiesInv => CopiesBounded
  <2> SUFFICES ASSUME TypeOK, CopiesInv, NEW e \in Email PROVE accepted[e] <= MaxAttempts
    BY DEF CopiesBounded
  <2>1. /\ accepted[e] \in Nat /\ row[e].attempts \in Nat /\ MaxAttempts \in Nat
        /\ Cardinality(Unspent(e)) \in Nat
    BY FS_CardinalityType, OutboxAssumption DEF TypeOK, Rows, CopiesInv, CopiesCounted
  <2> QED BY <2>1 DEF CopiesInv, CopiesCounted
<1> QED BY <1>1, CopiesHold, PTL

\* With workers alone, a second copy goes out only after a claim went stale or the provider
\* reported an error for a message it had taken.
THEOREM DuplicatesExcused ==
    ASSUME Operator = {} PROVE Spec => []DuplicateNeedsExcuse
<1>1. TypeOK /\ CopiesInv => DuplicateNeedsExcuse
  BY DEF CopiesInv, OneCopy, DuplicateNeedsExcuse, TypeOK
<1> QED BY <1>1, CopiesHold, PTL
-----------------------------------------------------------------------------
(* What is queued can be claimed.                                          *)

\* With batches of one a worker holds the claim it recovers as it locked it.
RecoversAsLocked ==
    \A w \in Worker : \A e \in todo[w] : pc[w] \in {"recovering", "returning"} =>
        todo[w] = {e} /\ lock[e] = w /\ loaded[w][e].attempts = row[e].attempts

QueueInv == RecoversAsLocked /\ QueuedCanBeClaimed

LEMMA BatchOfOne ==
    ASSUME BatchSize = 1, NEW S \in SUBSET Email, NEW B \in Batches(S), NEW e \in B
    PROVE  B = {e}
<1>1. IsFiniteSet(S) /\ IsFiniteSet(B) /\ B \subseteq S
  BY OutboxAssumption, FS_Subset DEF Batches
<1>2. Cardinality(S) \in Nat /\ Cardinality(B) \in Nat /\ Cardinality(B) <= 1
  BY <1>1, FS_CardinalityType DEF Batches, MinOf
<1>3. Cardinality({e}) = 1 /\ {e} \in SUBSET B
  BY FS_Singleton
<1>4. Cardinality({e}) <= Cardinality(B)
  BY <1>1, <1>3, FS_Subset
<1>5. Cardinality({e}) = Cardinality(B)
  BY <1>2, <1>3, <1>4
<1> QED BY <1>1, <1>3, <1>5, FS_Subset

\* Who recovers a claim just locked it, or did not move.
LEMMA RecoverersStay ==
    ASSUME TypeOK, RecoversAsLocked, [Next]_vars, Operator = {}, NEW w \in Worker,
           NEW e \in todo'[w], pc'[w] \in {"recovering", "returning"},
           MirrorInv
    PROVE  \/ LockStale(w)
           \/ /\ pc[w] \in {"recovering", "returning"} /\ e \in todo[w]
              /\ ~CommitClaim(w) /\ ~Crash(w) /\ ~RecoverOne(w)
<1>1. ~CommitClaim(w) /\ ~Crash(w)
  BY DEF CommitClaim, Crash, TypeOK
<1>2. ASSUME RecoverOne(w) PROVE FALSE
  <2>1. todo[w] = {cur[w]}
    BY <1>2 DEF RecoverOne, RecoversAsLocked, MirrorInv, LoadedBeforeWrite
  <2> QED BY <1>2, <2>1 DEF RecoverOne, TypeOK
<1>3. CASE UNCHANGED <<pc, todo>>
  BY <1>1, <1>2, <1>3
<1>4. ASSUME NEW v \in Worker \ {w}, WorkerStep(v) \/ Crash(v)
      PROVE  pc'[w] = pc[w] /\ todo'[w] = todo[w]
  BY <1>4 DEF TypeOK, WorkerStep, LockStale, NothingStale, ReadDelivery, RecoverOne, LockDue, NothingDue,
     CommitClaim, StartDispatch, SkipUnclaimed, ProviderAccepts, ProviderFails, RecordSuccess,
     ReloadFailed, DropFailed, RecordFailure, Crash, Advance
<1>5. CASE WorkerStep(w) /\ ~LockStale(w) /\ ~RecoverOne(w)
  BY <1>1, <1>5 DEF TypeOK, WorkerStep, NothingStale, ReadDelivery, LockDue, NothingDue, StartDispatch,
     SkipUnclaimed, ProviderAccepts, ProviderFails, RecordSuccess, ReloadFailed, DropFailed,
     RecordFailure, Advance
<1>6. CASE \E v \in Worker \ {w} : WorkerStep(v) \/ Crash(v)
  <2>1. pc[w] \in {"recovering", "returning"} /\ e \in todo[w]
    BY <1>4, <1>6
  <2> QED BY <1>1, <1>2, <2>1
<1> QED
  BY <1>1, <1>2, <1>3, <1>5, <1>6
  DEF Next, TimePasses, Enqueue, BackoffElapses, ClaimAges, vars, session

\* A claim of others is not of a message that is held.
LEMMA HeldAttempts ==
    ASSUME TypeOK, MirrorInv, GrantInv, [Next]_vars, Operator = {},
           NEW w \in Worker, NEW e \in Email, lock[e] = w, ~CommitClaim(w)
    PROVE  row'[e].attempts = row[e].attempts
<1>1. CASE \A v \in Worker : ~CommitClaim(v)
  BY <1>1, AttemptsKept
<1>2. ASSUME NEW v \in Worker, CommitClaim(v) PROVE row'[e] = row[e]
  <2>1. v # w
    BY <1>2
  <2>2. pc[v] = "claiming"
    BY <1>2 DEF CommitClaim
  <2>3. e \notin todo[v]
    BY <2>1, <2>2 DEF GrantInv, ClaimsLocked
  <2> QED BY <1>2, <2>3 DEF CommitClaim
<1> QED BY <1>1, <1>2

LEMMA RecoverStep ==
    ASSUME TypeOK, MirrorInv, GrantInv, RecoversAsLocked, [Next]_vars, Operator = {}, BatchSize = 1
    PROVE  RecoversAsLocked'
<1> SUFFICES ASSUME NEW w \in Worker, NEW e \in todo'[w], pc'[w] \in {"recovering", "returning"}
             PROVE  /\ todo'[w] = {e} /\ lock'[e] = w
                    /\ loaded'[w][e].attempts = row'[e].attempts
  BY DEF RecoversAsLocked
<1>1. CASE LockStale(w)
  <2>1. PICK B \in Batches(StaleSending) :
             /\ todo' = [todo EXCEPT ![w] = B]
             /\ lock' = [b \in Email |-> IF b \in B THEN w ELSE lock[b]]
             /\ loaded' = [loaded EXCEPT ![w] = [b \in Email |-> IF b \in B THEN row[b] ELSE Absent]]
    BY <1>1 DEF LockStale
  <2>2. e \in B /\ B \subseteq Email
    BY <2>1 DEF TypeOK, Batches, StaleSending
  <2>3. B = {e}
    BY <2>2, BatchOfOne DEF StaleSending
  <2> QED BY <1>1, <2>1, <2>2, <2>3 DEF LockStale, TypeOK
<1>2. ASSUME pc[w] \in {"recovering", "returning"}, e \in todo[w],
             NEW b \in Email, ReadDelivery(w, b)
      PROVE  /\ todo'[w] = {e} /\ lock'[e] = w
             /\ loaded'[w][e].attempts = row'[e].attempts
  <2>1. todo[w] = {e} /\ lock[e] = w /\ loaded[w][e].attempts = row[e].attempts /\ e \in Email
    BY <1>2 DEF RecoversAsLocked, TypeOK
  <2>2. /\ UNCHANGED <<row, lock, todo>>
        /\ loaded' = [loaded EXCEPT ![w][b] = WithDelivery(loaded[w][b], row[b].delivery)]
    BY <1>2 DEF ReadDelivery, table
  <2>3. WithDelivery(loaded[w][b], row[b].delivery).attempts = loaded[w][b].attempts
    BY WithDeliveryType DEF TypeOK
  <2>4. loaded'[w][e].attempts = loaded[w][e].attempts
    BY <2>1, <2>2, <2>3 DEF TypeOK
  <2> QED BY <2>1, <2>2, <2>4
<1>3. CASE /\ pc[w] \in {"recovering", "returning"} /\ e \in todo[w]
           /\ ~CommitClaim(w) /\ ~Crash(w) /\ ~RecoverOne(w) /\ \A b \in Email : ~ReadDelivery(w, b)
  <2>1. todo[w] = {e} /\ lock[e] = w /\ loaded[w][e].attempts = row[e].attempts /\ e \in Email
    BY <1>3 DEF RecoversAsLocked, TypeOK
  <2>2. lock'[e] = w /\ todo'[w] = todo[w] /\ loaded'[w] = loaded[w]
    BY <1>3, <2>1, LockKept
  <2>3. row'[e].attempts = row[e].attempts
    BY <1>3, <2>1, HeldAttempts
  <2> QED BY <2>1, <2>2, <2>3
<1> QED BY <1>1, <1>2, <1>3, RecoverersStay

LEMMA QueueStep ==
    ASSUME TypeOK, MirrorInv, GrantInv, QueueInv, [Next]_vars, Operator = {}
    PROVE  QueuedCanBeClaimed'
<1> DEFINE Fits(e) == row'[e].status = "queued" => row'[e].attempts < MaxAttempts
<1> SUFFICES ASSUME NEW e \in Email PROVE Fits(e)
  BY DEF QueuedCanBeClaimed
<1>1. ASSUME row'[e].status \in {row[e].status, "sending", "sent", "failed"},
             row'[e].attempts = row[e].attempts
      PROVE  Fits(e)
  BY <1>1 DEF QueueInv, QueuedCanBeClaimed
<1>2. ASSUME NEW b \in Email, Enqueue(b) PROVE Fits(e)
  <2>1. CASE b = e
    <3>1. row'[e] = Assign(Absent, "queued", "due", "queued")
      BY <1>2, <2>1 DEF Enqueue, TypeOK
    <3>2. row'[e].attempts = 0
      BY <3>1 DEF Assign, Absent
    <3> QED BY <3>2, OutboxAssumption
  <2>2. CASE b # e
    BY <1>1, <1>2, <2>2 DEF Enqueue, TypeOK
  <2> QED BY <2>1, <2>2
<1>3. ASSUME NEW b \in Email, BackoffElapses(b) PROVE Fits(e)
  BY <1>1, <1>3 DEF BackoffElapses, TypeOK, Rows
<1>4. ASSUME NEW w \in Worker, RecoverOne(w) PROVE Fits(e)
  <2> DEFINE b == cur[w]
             was == loaded[w][b]
             new == IF Exhausted(was) THEN Assign(was, "failed", "none", "failed")
                                      ELSE Assign(was, "queued", "due", "queued")
  <2>1. /\ pc[w] = "returning" /\ b \in todo[w] /\ b \in Email
        /\ row' = [row EXCEPT ![b] = Flush(row[b], was, new)]
    BY <1>4 DEF RecoverOne, MirrorInv, LoadedBeforeWrite, TypeOK
  <2>2. /\ was \in Rows /\ was.status = "sending"
        /\ was.attempts = row[b].attempts /\ row[b].attempts \in Nat
    BY <2>1 DEF TypeOK, Rows, QueueInv, RecoversAsLocked, MirrorInv, LoadedBeforeWrite
  <2>3. CASE b # e
    BY <1>1, <2>1, <2>3 DEF TypeOK
  <2> HIDE DEF b, was
  <2>4. CASE b = e
    <3>1. new.attempts = was.attempts /\ new.status = IF Exhausted(was) THEN "failed" ELSE "queued"
      BY <2>2, AssignType DEF Statuses, NextAt
    <3> HIDE DEF new
    <3>2. row'[e] = Flush(row[e], was, new)
      BY <2>1, <2>4 DEF TypeOK
    <3>3. row'[e].status = new.status /\ row'[e].attempts = row[e].attempts
      BY <2>2, <3>1, <3>2 DEF Flush
    <3> QED BY <2>2, <2>4, <3>1, <3>3, OutboxAssumption DEF Exhausted
  <2> QED BY <2>3, <2>4
<1>5. ASSUME NEW w \in Worker, CommitClaim(w) PROVE Fits(e)
  <2>1. CASE e \notin todo[w]
    BY <1>1, <1>5, <2>1 DEF CommitClaim
  <2>2. CASE e \in todo[w]
    <3> DEFINE was == WithDelivery(loaded[w][e], row[e].delivery)
    <3>1. row'[e] = Claimed(e, was)
      BY <1>5, <2>2 DEF CommitClaim
    <3>2. was \in Rows /\ was.status # "sending"
      <4>1. loaded[w][e] \in Rows /\ row[e] \in Rows BY DEF TypeOK
      <4>2. pc[w] = "claiming" BY <1>5 DEF CommitClaim
      <4>3. loaded[w][e].status \in {"queued", "failed"}
        BY <2>2, <4>2 DEF MirrorInv, LoadedBeforeWrite
      <4> QED BY <4>1, <4>3, WithDeliveryType
    <3> HIDE DEF was
    <3>3. Assign(Counted(was), "sending", "none", "queued").status = "sending"
      BY <3>2, CountedType, AssignType DEF Statuses, NextAt
    <3>4. row'[e].status = "sending"
      BY <3>1, <3>2, <3>3 DEF Claimed, Flush
    <3> QED BY <3>4
  <2> QED BY <2>1, <2>2
<1>6. ASSUME NEW w \in Worker, RecordSuccess(w) \/ RecordFailure(w) PROVE Fits(e)
  <2> DEFINE was == loaded[w][cur[w]]
  <2>1. cur[w] \in Email /\ was \in Rows
    BY <1>6 DEF RecordSuccess, RecordFailure, MirrorInv, LoadedBeforeWrite, TypeOK
  <2>2. PICK s \in {"sent", "failed"}, n \in NextAt, d \in {"queued", "sent", "failed"} :
             row' = [row EXCEPT ![cur[w]] = Flush(row[cur[w]], was, Assign(was, s, n, d))]
    BY <1>6 DEF RecordSuccess, RecordFailure, NextAt
  <2> HIDE DEF was
  <2>3. Assign(was, s, n, d).status = s /\ Assign(was, s, n, d).attempts = was.attempts
    <3>1. s \in Statuses
      BY DEF Statuses
    <3> QED BY <2>1, <3>1, AssignType
  <2>4. /\ Flush(row[cur[w]], was, Assign(was, s, n, d)).status \in {row[cur[w]].status, s}
        /\ Flush(row[cur[w]], was, Assign(was, s, n, d)).attempts = row[cur[w]].attempts
    BY <2>3 DEF Flush
  <2> QED BY <1>1, <2>1, <2>2, <2>4 DEF TypeOK
<1>7. ASSUME NEW w \in Worker, WorkerStep(w) \/ Crash(w) PROVE Fits(e)
  BY <1>1, <1>4, <1>5, <1>6, <1>7
  DEF WorkerStep, LockStale, NothingStale, ReadDelivery, LockDue, NothingDue, StartDispatch,
      SkipUnclaimed, ProviderAccepts, ProviderFails, ReloadFailed, DropFailed, Crash, table
<1> QED
  BY <1>1, <1>2, <1>3, <1>7 DEF Next, TimePasses, ClaimAges, vars, table

\* With workers alone that take one message at a time, no message waits in the queue
\* with its attempts used up.
THEOREM QueuedIsClaimable ==
    ASSUME Operator = {}, BatchSize = 1 PROVE Spec => []QueuedCanBeClaimed
<1>1. TypeOK /\ MirrorInv /\ GrantInv /\ QueueInv /\ [Next]_vars
        => MirrorInv' /\ GrantInv' /\ QueueInv'
  BY LoadedStep, RequestStep, RowsStep, GrantStep, RecoverStep, QueueStep DEF MirrorInv, QueueInv
<1>2. Init => QueueInv
  BY DEF Init, QueueInv, RecoversAsLocked, QueuedCanBeClaimed, Absent
<1>3. QueueInv => QueuedCanBeClaimed
  BY DEF QueueInv
<1> QED BY <1>1, <1>2, <1>3, MirrorInit, GrantInit, TypeCorrect, PTL DEF Spec
=============================================================================
