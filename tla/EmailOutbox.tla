---------------------------- MODULE EmailOutbox ----------------------------
(***************************************************************************)
(* The outbound-email pipeline: the email_outbox table with the            *)
(* document_deliveries row each message mirrors, the worker processes that *)
(* claim and dispatch messages, and the operator endpoints that mark a     *)
(* message sent or failed or queue it again.                               *)
(*                                                                         *)
(* A step is what one database transaction makes visible, or one call to   *)
(* the provider.  A handler that reads a row and writes it later without   *)
(* holding its lock is two steps, and its write touches only the columns   *)
(* whose new value differs from the one it loaded (the unit of work of the *)
(* ORM), so it may overwrite what others wrote in between.                 *)
(*                                                                         *)
(* Time is abstract: next_attempt_at is "none", "later" or "due", and      *)
(* stale[e] says that updated_at is older than the stale-claim threshold.  *)
(***************************************************************************)
EXTENDS Naturals, FiniteSets

CONSTANTS
    Email,        \* the outbox messages that may ever be queued
    Manual,       \* those whose provider is "manual": workers ignore them
    Worker,       \* worker processes
    Operator,     \* concurrent operator requests
    MaxAttempts,  \* EMAIL_OUTBOX_MAX_ATTEMPTS, copied into every message
    BatchSize,    \* EMAIL_OUTBOX_BATCH_SIZE
    MaxCrashes,   \* bound: how many times a worker process may die
    None          \* no worker, no message

ASSUME OutboxAssumption ==
    /\ Manual \subseteq Email
    /\ MaxAttempts \in Nat \ {0}
    /\ BatchSize \in Nat \ {0}
    /\ MaxCrashes \in Nat
    /\ None \notin Worker \cup Email
    /\ IsFiniteSet(Email)

VARIABLES
    row,       \* per message: status, attempts, next_attempt_at, delivery_status
    stale,     \* per message: updated_at <= now - EMAIL_OUTBOX_STALE_AFTER_SECONDS
    lock,      \* per message: the worker whose transaction holds FOR UPDATE
    pc,        \* per worker: where it is in run_batch
    todo,      \* per worker: the messages of the batch it still has to handle
    cur,       \* per worker: the message it is recovering or dispatching
    loaded,    \* per worker: the rows as its session loaded them
    retryable, \* per worker: whether the provider's error may be retried
    request,   \* per operator: the request in progress, with the row it loaded
    \* What the properties are about: no code reads these.
    grants,    \* every claim ever committed: message, attempt number, worker
    accepted,  \* per message: copies the provider took
    excused,   \* per message: a claim went stale, or an error hid an acceptance
    verdict,   \* per message: retryability of the failure recorded last
    crossed,   \* per message: the last write took its delivery for what it was no more
    crashes    \* worker deaths so far

table   == <<row, stale, lock>>
session == <<pc, todo, cur, loaded, retryable>>
history == <<grants, accepted, excused, verdict, crossed, crashes>>
vars    == <<table, session, request, history>>

Statuses == {"absent", "queued", "sending", "sent", "failed"}
NextAt   == {"none", "later", "due"}
Rows     == [status : Statuses, attempts : Nat, next : NextAt,
             delivery : {"queued", "sent", "failed"}]
PCs      == {"idle", "recovering", "returning", "claim", "claiming", "dispatch",
             "sending", "accepted", "failing", "recordingFailure"}
Requests == [kind : {"none", "mark_sent", "mark_failed", "retry"},
             email : Email \cup {None}, was : Rows, retryable : BOOLEAN]

Absent   == [status |-> "absent", attempts |-> 0, next |-> "none", delivery |-> "queued"]
NothingLoaded == [e \in Email |-> Absent]
NoRequest == [kind |-> "none", email |-> None, was |-> Absent, retryable |-> FALSE]

TypeOK ==
    /\ row \in [Email -> Rows]
    /\ stale \in [Email -> BOOLEAN]
    /\ lock \in [Email -> Worker \cup {None}]
    /\ pc \in [Worker -> PCs]
    /\ todo \in [Worker -> SUBSET Email]
    /\ cur \in [Worker -> Email \cup {None}]
    /\ loaded \in [Worker -> [Email -> Rows]]
    /\ retryable \in [Worker -> BOOLEAN]
    /\ request \in [Operator -> Requests]
    /\ grants \subseteq [email : Email, attempt : Nat, worker : Worker]
    /\ accepted \in [Email -> Nat]
    /\ excused \in [Email -> BOOLEAN]
    /\ verdict \in [Email -> {"none", "retryable", "permanent"}]
    /\ crossed \in [Email -> BOOLEAN]
    /\ crashes \in 0 .. MaxCrashes

Init ==
    /\ row = [e \in Email |-> Absent]
    /\ stale = [e \in Email |-> FALSE]
    /\ lock = [e \in Email |-> None]
    /\ pc = [w \in Worker |-> "idle"]
    /\ todo = [w \in Worker |-> {}]
    /\ cur = [w \in Worker |-> None]
    /\ loaded = [w \in Worker |-> NothingLoaded]
    /\ retryable = [w \in Worker |-> FALSE]
    /\ request = [o \in Operator |-> NoRequest]
    /\ grants = {}
    /\ accepted = [e \in Email |-> 0]
    /\ excused = [e \in Email |-> FALSE]
    /\ verdict = [e \in Email |-> "none"]
    /\ crossed = [e \in Email |-> FALSE]
    /\ crashes = 0

-----------------------------------------------------------------------------
(* The database.                                                           *)

\* What an UPDATE leaves: a column is written when its new value differs from
\* the loaded one; a timestamp taken now always differs from a loaded one.
Flush(now, was, new) ==
    [status   |-> IF new.status # was.status THEN new.status ELSE now.status,
     attempts |-> IF new.attempts # was.attempts THEN new.attempts ELSE now.attempts,
     next     |-> IF new.next # "none" \/ was.next # "none" THEN new.next ELSE now.next,
     delivery |-> IF new.delivery # was.delivery THEN new.delivery ELSE now.delivery]

\* The columns of a row that a handler assigns.
Assign(was, s, n, d) == [was EXCEPT !.status = s, !.next = n, !.delivery = d]

\* One more attempt; the delivery row read now, after the message.
Counted(was) == [was EXCEPT !.attempts = @ + 1]
WithDelivery(was, d) == [was EXCEPT !.delivery = d]

Writable(e, w) == lock[e] \in {w, None}

Unlocked(w) == [e \in Email |-> IF lock[e] = w THEN None ELSE lock[e]]

\* The delivery of a message that is neither sent nor failed waits, as the message does.
Mirrors(r) == r.delivery = IF r.status \in {"sent", "failed"} THEN r.status ELSE "queued"

MinOf(m, n) == IF m <= n THEN m ELSE n

\* A LIMIT-bounded choice among the rows a query selects; which ones come first
\* depends on timestamps the model does not keep.
Batches(S) == {B \in SUBSET S : Cardinality(B) = MinOf(BatchSize, Cardinality(S))}

\* Mutated forms of the claim query: without FOR UPDATE SKIP LOCKED, without the
\* attempts limit, and one that also selects messages already in "sending".
DueIgnoringLocks ==
    {e \in Email \ Manual : /\ row[e].status \in {"queued", "failed"}
                            /\ row[e].attempts < MaxAttempts
                            /\ row[e].next \in {"none", "due"}}
DueBeyondLimit ==
    {e \in Email \ Manual : /\ row[e].status \in {"queued", "failed"}
                            /\ row[e].next \in {"none", "due"} /\ lock[e] = None}
DueInFlight ==
    {e \in Email \ Manual : /\ row[e].status \in {"queued", "failed", "sending"}
                            /\ row[e].attempts < MaxAttempts
                            /\ row[e].next \in {"none", "due"} /\ lock[e] = None}

\* lock_due_for_dispatch and lock_stale_sending both SKIP LOCKED rows.
Due == {e \in Email \ Manual :
          /\ row[e].status \in {"queued", "failed"}
          /\ row[e].attempts < MaxAttempts
          /\ row[e].next \in {"none", "due"}
          /\ lock[e] = None}

\* Mutated form: a claim on its last attempt is never recovered.
StaleWithAttemptsLeft == {e \in Email : /\ row[e].status = "sending" /\ stale[e]
                                         /\ lock[e] = None /\ row[e].attempts < MaxAttempts}

StaleSending == {e \in Email : row[e].status = "sending" /\ stale[e] /\ lock[e] = None}

-----------------------------------------------------------------------------
(* Queueing a document and the passage of time.                            *)

Enqueue(e) ==
    /\ row[e] = Absent
    /\ row' = [row EXCEPT ![e] = Assign(Absent, "queued", "due", "queued")]
    /\ UNCHANGED <<stale, lock, session, request, history>>

BackoffElapses(e) ==
    /\ row[e].next = "later"
    /\ row' = [row EXCEPT ![e].next = "due"]
    /\ UNCHANGED <<stale, lock, session, request, history>>

ClaimAges(e) ==
    /\ row[e].status = "sending" /\ ~stale[e]
    /\ stale' = [stale EXCEPT ![e] = TRUE]
    /\ UNCHANGED <<row, lock, session, request, history>>

-----------------------------------------------------------------------------
(* The worker: recover stale claims, claim a batch, dispatch it.           *)

LockStale(w) ==
    /\ pc[w] = "idle" /\ StaleSending # {}
    /\ \E B \in Batches(StaleSending) :
         /\ todo' = [todo EXCEPT ![w] = B]
         /\ lock' = [e \in Email |-> IF e \in B THEN w ELSE lock[e]]
         /\ loaded' = [loaded EXCEPT ![w] = [e \in Email |-> IF e \in B THEN row[e] ELSE Absent]]
    /\ pc' = [pc EXCEPT ![w] = "recovering"]
    /\ UNCHANGED <<row, stale, cur, retryable, request, history>>

NothingStale(w) ==
    /\ pc[w] = "idle" /\ StaleSending = {}
    /\ pc' = [pc EXCEPT ![w] = "claim"]
    /\ UNCHANGED <<table, todo, cur, loaded, retryable, request, history>>

Exhausted(was) == was.attempts >= MaxAttempts

\* One turn of the recovery loop: the delivery is read ...
ReadDelivery(w, e) ==
    /\ pc[w] = "recovering" /\ e \in todo[w]
    /\ cur' = [cur EXCEPT ![w] = e]
    /\ loaded' = [loaded EXCEPT ![w][e] = WithDelivery(@, row[e].delivery)]
    /\ pc' = [pc EXCEPT ![w] = "returning"]
    /\ UNCHANGED <<table, todo, retryable, request, history>>

\* ... and the audit record at the end of the turn commits, which releases every
\* lock of the batch: from the second turn on nothing holds the row in between.
RecoverOne(w) ==
    LET e == cur[w]
        was == loaded[w][e]
        new == IF Exhausted(was) THEN Assign(was, "failed", "none", "failed")
                                 ELSE Assign(was, "queued", "due", "queued")
    IN /\ pc[w] = "returning" /\ Writable(e, w)
       /\ row' = [row EXCEPT ![e] = Flush(row[e], was, new)]
       /\ stale' = [stale EXCEPT ![e] = FALSE]
       /\ lock' = Unlocked(w)
       /\ todo' = [todo EXCEPT ![w] = @ \ {e}]
       /\ cur' = [cur EXCEPT ![w] = None]
       /\ pc' = [pc EXCEPT ![w] = IF todo[w] = {e} THEN "claim" ELSE "recovering"]
       /\ loaded' = [loaded EXCEPT ![w][e] = Absent]
       /\ excused' = [excused EXCEPT ![e] = TRUE]
       /\ crossed' = [crossed EXCEPT ![e] = row[e].delivery # was.delivery]
       /\ UNCHANGED <<retryable, request, grants, accepted, verdict, crashes>>

LockDue(w) ==
    /\ pc[w] = "claim" /\ Due # {}
    /\ \E B \in Batches(Due) :
         /\ todo' = [todo EXCEPT ![w] = B]
         /\ lock' = [e \in Email |-> IF e \in B THEN w ELSE lock[e]]
         /\ loaded' = [loaded EXCEPT ![w] = [e \in Email |-> IF e \in B THEN row[e] ELSE Absent]]
    /\ pc' = [pc EXCEPT ![w] = "claiming"]
    /\ UNCHANGED <<row, stale, cur, retryable, request, history>>

\* run_batch returns 0 and the worker sleeps until its next poll.
NothingDue(w) ==
    /\ pc[w] = "claim" /\ Due = {}
    /\ pc' = [pc EXCEPT ![w] = "idle"]
    /\ UNCHANGED <<table, todo, cur, loaded, retryable, request, history>>

\* Mutated forms: the delivery row is forgotten, or given the message's status.
ClaimedDeliveryForgotten(e, was) ==
    Flush(row[e], was, Assign(Counted(was), "sending", "none", was.delivery))
ClaimedDeliverySending(e, was) ==
    Flush(row[e], was, Assign(Counted(was), "sending", "none", "sending"))

Claimed(e, was) == Flush(row[e], was, Assign(Counted(was), "sending", "none", "queued"))

CommitClaim(w) ==
    /\ pc[w] = "claiming"
    /\ row' = [e \in Email |->
                 IF e \in todo[w]
                 THEN Claimed(e, WithDelivery(loaded[w][e], row[e].delivery))
                 ELSE row[e]]
    /\ stale' = [e \in Email |-> stale[e] /\ e \notin todo[w]]
    /\ lock' = Unlocked(w)
    /\ grants' = grants \cup {[email |-> e, attempt |-> loaded[w][e].attempts + 1,
                               worker |-> w] : e \in todo[w]}
    /\ loaded' = [loaded EXCEPT ![w] = NothingLoaded]
    /\ pc' = [pc EXCEPT ![w] = "dispatch"]
    /\ crossed' = [e \in Email |-> crossed[e] /\ e \notin todo[w]]
    /\ UNCHANGED <<todo, cur, retryable, request, accepted, excused, verdict, crashes>>

\* get_claimed_for_dispatch: any message in "sending", whoever claimed it.
StartDispatch(w, e) ==
    /\ pc[w] = "dispatch" /\ e \in todo[w]
    /\ row[e].status = "sending"
    /\ cur' = [cur EXCEPT ![w] = e]
    /\ loaded' = [loaded EXCEPT ![w][e] = row[e]]
    /\ pc' = [pc EXCEPT ![w] = "sending"]
    /\ UNCHANGED <<table, todo, retryable, request, history>>

\* The next message of the batch, or the next run_batch when none is left.
Advance(w, e) ==
    /\ todo' = [todo EXCEPT ![w] = @ \ {e}]
    /\ pc' = [pc EXCEPT ![w] = IF todo[w] = {e} THEN "idle" ELSE "dispatch"]
    /\ cur' = [cur EXCEPT ![w] = None]
    /\ loaded' = [loaded EXCEPT ![w][e] = Absent]
    /\ retryable' = [retryable EXCEPT ![w] = FALSE]

SkipUnclaimed(w, e) ==
    /\ pc[w] = "dispatch" /\ e \in todo[w]
    /\ row[e].status # "sending"
    /\ Advance(w, e)
    /\ UNCHANGED <<table, request, history>>

ProviderAccepts(w) ==
    /\ pc[w] = "sending"
    /\ accepted' = [accepted EXCEPT ![cur[w]] = @ + 1]
    /\ pc' = [pc EXCEPT ![w] = "accepted"]
    /\ UNCHANGED <<table, todo, cur, loaded, retryable, request,
                   grants, excused, verdict, crossed, crashes>>

\* An attachment, payload or provider error; when the error comes after the
\* server took the message (a timeout on its answer) a copy is out as well.
ProviderFails(w) ==
    /\ pc[w] = "sending"
    /\ pc' = [pc EXCEPT ![w] = "failing"]
    /\ \/ /\ \E r \in BOOLEAN : retryable' = [retryable EXCEPT ![w] = r]
          /\ UNCHANGED <<accepted, excused>>
       \/ /\ retryable' = [retryable EXCEPT ![w] = TRUE]
          /\ accepted' = [accepted EXCEPT ![cur[w]] = @ + 1]
          /\ excused' = [excused EXCEPT ![cur[w]] = TRUE]
    /\ UNCHANGED <<table, todo, cur, loaded, request, grants, verdict, crossed, crashes>>

RecordSuccess(w) ==
    LET e == cur[w]
        was == loaded[w][e]
        new == Assign(was, "sent", "none", "sent")
    IN /\ pc[w] = "accepted" /\ Writable(e, w)
       /\ row' = [row EXCEPT ![e] = Flush(row[e], was, new)]
       /\ stale' = [stale EXCEPT ![e] = FALSE]
       /\ crossed' = [crossed EXCEPT ![e] = FALSE]
       /\ Advance(w, e)
       /\ UNCHANGED <<lock, request, grants, accepted, excused, verdict, crashes>>

\* _record_failure rolls back and reads the message again ...
ReloadFailed(w) ==
    LET e == cur[w]
    IN /\ pc[w] = "failing"
       /\ row[e].status = "sending"
       /\ loaded' = [loaded EXCEPT ![w][e] = row[e]]
       /\ pc' = [pc EXCEPT ![w] = "recordingFailure"]
       /\ UNCHANGED <<table, todo, cur, retryable, request, history>>

DropFailed(w) ==
    /\ pc[w] = "failing"
    /\ row[cur[w]].status # "sending"
    /\ Advance(w, cur[w])
    /\ UNCHANGED <<table, request, history>>

\* ... and records the failure with its retry time.
RecordFailure(w) ==
    LET e == cur[w]
        was == loaded[w][e]
        mayRetry == retryable[w] /\ was.attempts < MaxAttempts
        new == Assign(was, "failed", IF mayRetry THEN "later" ELSE "none", "failed")
    IN /\ pc[w] = "recordingFailure" /\ Writable(e, w)
       /\ row' = [row EXCEPT ![e] = Flush(row[e], was, new)]
       /\ stale' = [stale EXCEPT ![e] = FALSE]
       /\ verdict' = [verdict EXCEPT ![e] = IF retryable[w] THEN "retryable" ELSE "permanent"]
       /\ crossed' = [crossed EXCEPT ![e] = FALSE]
       /\ Advance(w, e)
       /\ UNCHANGED <<lock, request, grants, accepted, excused, crashes>>

\* The process dies: its open transaction rolls back, its claims stay "sending".
Crash(w) ==
    /\ crashes < MaxCrashes
    /\ pc[w] # "idle"
    /\ crashes' = crashes + 1
    /\ lock' = Unlocked(w)
    /\ pc' = [pc EXCEPT ![w] = "idle"]
    /\ todo' = [todo EXCEPT ![w] = {}]
    /\ cur' = [cur EXCEPT ![w] = None]
    /\ loaded' = [loaded EXCEPT ![w] = NothingLoaded]
    /\ retryable' = [retryable EXCEPT ![w] = FALSE]
    /\ UNCHANGED <<row, stale, request, grants, accepted, excused, verdict, crossed>>

-----------------------------------------------------------------------------
(* Operator requests: an unlocked read that checks the status, then the    *)
(* write, which waits for a row lock but does not read the row again.      *)

Begin(o, e, kind, r) ==
    /\ request[o].kind = "none"
    /\ request' = [request EXCEPT ![o] = [kind |-> kind, email |-> e,
                                          was |-> row[e], retryable |-> r]]
    /\ UNCHANGED <<table, session, history>>

BeginMarkSent(o, e) ==
    row[e].status \in {"queued", "sending"} /\ Begin(o, e, "mark_sent", FALSE)

BeginMarkFailed(o, e) ==
    /\ row[e].status \in {"queued", "sending"}
    /\ \E r \in BOOLEAN : Begin(o, e, "mark_failed", r)

BeginRetry(o, e) ==
    /\ row[e].status = "failed"
    /\ row[e].attempts < MaxAttempts
    /\ Begin(o, e, "retry", FALSE)

CommitRequest(o, new) ==
    LET e == request[o].email
    IN /\ lock[e] = None
       /\ row' = [row EXCEPT ![e] = Flush(row[e], request[o].was, new)]
       /\ stale' = [stale EXCEPT ![e] = FALSE]
       /\ request' = [request EXCEPT ![o] = NoRequest]
       /\ crossed' = [crossed EXCEPT ![e] = ~Mirrors(request[o].was)]
       /\ UNCHANGED <<lock, session, grants, accepted, excused, crashes>>

\* Mutated form: the delivery row is forgotten.
MarkSentForgettingDelivery(o) ==
    /\ request[o].kind = "mark_sent"
    /\ CommitRequest(o, Assign(request[o].was, "sent", "none", request[o].was.delivery))
    /\ UNCHANGED verdict

MarkSent(o) ==
    /\ request[o].kind = "mark_sent"
    /\ CommitRequest(o, Assign(request[o].was, "sent", "none", "sent"))
    /\ UNCHANGED verdict

MarkFailed(o) ==
    LET was == request[o].was
        again == request[o].retryable /\ was.attempts + 1 < MaxAttempts
    IN /\ request[o].kind = "mark_failed"
       /\ CommitRequest(o, Assign(Counted(was), "failed", IF again THEN "due" ELSE "none", "failed"))
       /\ verdict' = [verdict EXCEPT ![request[o].email] =
                        IF request[o].retryable THEN "retryable" ELSE "permanent"]

Retry(o) ==
    /\ request[o].kind = "retry"
    /\ CommitRequest(o, Assign(request[o].was, "queued", "due", "queued"))
    /\ verdict' = [verdict EXCEPT ![request[o].email] = "none"]

-----------------------------------------------------------------------------
WorkerStep(w) ==
    \/ LockStale(w) \/ NothingStale(w) \/ \E e \in Email : ReadDelivery(w, e)
    \/ RecoverOne(w)
    \/ LockDue(w) \/ NothingDue(w) \/ CommitClaim(w)
    \/ \E e \in Email : StartDispatch(w, e) \/ SkipUnclaimed(w, e)
    \/ ProviderAccepts(w) \/ ProviderFails(w)
    \/ RecordSuccess(w) \/ ReloadFailed(w) \/ DropFailed(w) \/ RecordFailure(w)

OperatorStep(o) ==
    \/ \E e \in Email : BeginMarkSent(o, e) \/ BeginMarkFailed(o, e) \/ BeginRetry(o, e)
    \/ MarkSent(o) \/ MarkFailed(o) \/ Retry(o)

TimePasses(e) == BackoffElapses(e) \/ ClaimAges(e)

Next ==
    \/ \E e \in Email : Enqueue(e) \/ TimePasses(e)
    \/ \E w \in Worker : WorkerStep(w) \/ Crash(w)
    \/ \E o \in Operator : OperatorStep(o)

Spec == Init /\ [][Next]_vars

\* run_forever never stops calling run_batch, a provider call ends (every
\* provider has a timeout), and clocks advance.
FairSpec ==
    /\ Spec
    /\ \A w \in Worker : WF_vars(WorkerStep(w))
    /\ \A e \in Email : WF_vars(TimePasses(e))

-----------------------------------------------------------------------------
(* Properties.                                                             *)

\* claim_due_batch promises an atomic claim: an attempt number of a message is
\* granted to one worker, however the two claim queries interleave.
AttemptGrantedOnce ==
    \A g, h \in grants : g.email = h.email /\ g.attempt = h.attempt => g = h

\* The provider never takes more copies of a message than it has attempts.
CopiesBounded == \A e \in Email : accepted[e] <= MaxAttempts

\* A second copy goes out only when a claim went stale under its worker or the
\* provider reported an error for a message it had taken.
DuplicateNeedsExcuse == \A e \in Email : accepted[e] > 1 => excused[e]

\* The delivery a customer sees mirrors the outbox message, also when a slow worker and
\* an operator write over one another.  Only a recovery turn that loses its locks between
\* reading the delivery and committing, or an operator who loaded what it left, can part
\* them, and never for longer than until a worker claims the message again.
DeliveryMirrorsMessage ==
    \A e \in Email : ~Mirrors(row[e]) => crossed[e] /\ row[e].status # "sending"

\* Every queued message settles: it ends sent, or failed with no attempt left.
Settled(e) == \/ row[e].status = "sent"
              \/ row[e].status = "failed" /\ row[e].attempts >= MaxAttempts
EveryMessageSettles ==
    \A e \in Email \ Manual : row[e].status = "queued" ~> [](Settled(e))

\* A message waiting in the queue can still be claimed: stale-claim recovery never
\* puts back a message whose attempts are used up.
QueuedCanBeClaimed == \A e \in Email : row[e].status = "queued" => row[e].attempts < MaxAttempts

\* A failure whose error is not retryable is not scheduled again: a worker claims
\* the message only after an operator queues it.
PermanentFailureNotClaimed ==
    [][\A e \in Email : row[e].status = "failed" /\ verdict[e] = "permanent"
                         => row'[e].status # "sending"]_vars
=============================================================================
