----------------------------- MODULE Scheduling -----------------------------
(***************************************************************************)
(* When work orders are booked, and on whom: the members of the workforce  *)
(* and the assets assigned to each, and the time they are assigned for.    *)
(*                                                                         *)
(* Scheduling and dispatching look for conflicts with other bookings, and  *)
(* commit later, without a lock; a status they write may open a job again  *)
(* that was closed meanwhile.  Whether a conflict fails the request is the *)
(* caller's choice; every other way to change a booking looks for none.    *)
(* vetted remembers the bookings that nothing has changed, theirs or       *)
(* others', since they were last found free of conflicts.                  *)
(***************************************************************************)
EXTENDS Requests, Integers

CONSTANTS
    Job,        \* work orders that may be booked
    Resource,   \* active and available members of the workforce, and assets
    Asset,      \* the assets of them
    Start, End  \* bound: when a booking may start and end

ASSUME SchedulingAssumption ==
    /\ Asset \subseteq Resource
    /\ Start \subseteq Nat /\ End \subseteq Nat
    /\ None \notin Request \cup Job \cup Nat

VARIABLES
    booking,    \* work_orders: standing, scheduled_start and _end, assignments
    vetted,
    planning    \* per request: the change of a booking it has checked

schedulingVars == <<booking, vetted, planning>>

Bookings == [standing : {"none", "open", "inactive", "closed"},  \* closed: completed or cancelled
             start : Start \cup {None}, end : End \cup {None}, crew : SUBSET Resource]

NoBooking == [standing |-> "none", start |-> None, end |-> None, crew |-> {}]
NoPlan    == [job |-> None, columns |-> <<>>, opens |-> FALSE, checked |-> FALSE]

SchedulingTypeOK ==
    /\ booking \in [Job -> Bookings]
    /\ vetted \subseteq Job
    /\ \A p \in Request :
         /\ planning[p].job \in Job \cup {None}
         /\ Overwritten(NoBooking, planning[p].columns) \in Bookings
         /\ planning[p].opens \in BOOLEAN /\ planning[p].checked \in BOOLEAN

SchedulingInit ==
    /\ booking = [j \in Job |-> NoBooking]
    /\ vetted = {}
    /\ planning = [p \in Request |-> NoPlan]

-----------------------------------------------------------------------------
(* Changes of a booking that look at no other: they commit at once, and    *)
(* what plans that are under way found no longer counts.                   *)

Outdated(plans) == [p \in Request |-> [plans[p] EXCEPT !.checked = FALSE]]

SetBooking(j, to) ==
    /\ booking' = [booking EXCEPT ![j] = to]
    /\ vetted' = vetted \ {j}
    /\ planning' = Outdated(planning)

Standing(j) == booking[j].standing

CreateJob(j) == Standing(j) = "none" /\ SetBooking(j, [NoBooking EXCEPT !.standing = "open"])

\* update_work_order: any times, the end after the start where there are both.
EditTimes(j, start, end) ==
    /\ Standing(j) = "open"
    /\ start # None /\ end # None => start < end
    /\ SetBooking(j, [booking[j] EXCEPT !.start = start, !.end = end])

Assign(j, r) ==
    Standing(j) \in {"open", "closed"} /\ SetBooking(j, [booking[j] EXCEPT !.crew = @ \cup {r}])

Unassign(j, r) ==
    /\ Standing(j) \in {"open", "closed"} /\ r \in booking[j].crew
    /\ SetBooking(j, [booking[j] EXCEPT !.crew = @ \ {r}])

CloseJob(j)      == Standing(j) = "open" /\ SetBooking(j, [booking[j] EXCEPT !.standing = "closed"])
DeactivateJob(j) == Standing(j) = "open" /\ SetBooking(j, [booking[j] EXCEPT !.standing = "inactive"])
ReactivateJob(j) == Standing(j) = "inactive" /\ SetBooking(j, [booking[j] EXCEPT !.standing = "open"])

-----------------------------------------------------------------------------
(* Scheduling and dispatching: check ...                                   *)

Overlaps(j, start, end) ==
    /\ Standing(j) = "open" /\ booking[j].start # None /\ booking[j].end # None
    /\ booking[j].start < end /\ start < booking[j].end

\* Mutated form: a booking conflicts with those it starts in the middle of.
StartsDuring(j, start, end, crew) ==
    \E k \in Job \ {j} :
        /\ Overlaps(k, start, end) /\ booking[k].start < start
        /\ booking[k].crew \cap crew # {}

Conflict(j, start, end, crew) ==
    \E k \in Job \ {j} : Overlaps(k, start, end) /\ booking[k].crew \cap crew # {}

\* opens: the status is written as well, one of a job that is not closed.
Plan(p, j, to, opens, fail_on_conflict) ==
    /\ planning[p].job = None
    /\ Standing(j) = "open"
    /\ fail_on_conflict => ~Conflict(j, to.start, to.end, to.crew)
    /\ planning' = [planning EXCEPT ![p] = [job |-> j, columns |-> Changed(booking[j], to),
                                            opens |-> opens, checked |-> fail_on_conflict]]
    /\ UNCHANGED <<booking, vetted>>

\* set_status_to_scheduled is the caller's choice.
ScheduleJob(p, j, start, end, crew, set_status, fail_on_conflict) ==
    /\ start < end
    /\ Plan(p, j, [booking[j] EXCEPT !.start = start, !.end = end, !.crew = crew],
            set_status, fail_on_conflict)

DispatchJob(p, j, fail_on_conflict) ==
    /\ booking[j].start # None /\ booking[j].end # None /\ booking[j].crew \ Asset # {}
    /\ Plan(p, j, booking[j], TRUE, fail_on_conflict)

\* Any other change of the status that does not close the job.
ChangeJobStatus(p, j) == Plan(p, j, booking[j], TRUE, FALSE)

(* ... and commit the columns that changed.  A status written over that of *)
(* a job closed in between opens the job again.                            *)

Planned(plan) ==
    LET row == Overwritten(booking[plan.job], plan.columns)
    IN IF plan.opens /\ row.standing = "closed" THEN [row EXCEPT !.standing = "open"] ELSE row

CommitPlan(p) ==
    LET plan == planning[p]
        plans == [planning EXCEPT ![p] = NoPlan]
        alike == Planned(plan) = booking[plan.job]
    IN /\ plan.job # None
       /\ booking' = [booking EXCEPT ![plan.job] = Planned(plan)]
       /\ vetted' = IF plan.checked THEN vetted \cup {plan.job}
                    ELSE IF alike THEN vetted ELSE vetted \ {plan.job}
       /\ planning' = IF alike THEN plans ELSE Outdated(plans)

\* A check fails, the database reports a conflict or the process dies.
AbandonPlan(p) ==
    /\ planning[p].job # None
    /\ planning' = [planning EXCEPT ![p] = NoPlan]
    /\ UNCHANGED <<booking, vetted>>

-----------------------------------------------------------------------------
JobStep(j) ==
    \/ CreateJob(j) \/ CloseJob(j) \/ DeactivateJob(j) \/ ReactivateJob(j)
    \/ \E start \in Start \cup {None}, end \in End \cup {None} : EditTimes(j, start, end)
    \/ \E r \in Resource : Assign(j, r) \/ Unassign(j, r)

PlanningStep(p) ==
    \/ \E j \in Job, fail \in BOOLEAN :
         \/ \E start \in Start, end \in End, crew \in SUBSET Resource, set \in BOOLEAN :
              ScheduleJob(p, j, start, end, crew, set, fail)
         \/ DispatchJob(p, j, fail)
    \/ \E j \in Job : ChangeJobStatus(p, j)
    \/ CommitPlan(p) \/ AbandonPlan(p)

SchedulingNext ==
    \/ \E j \in Job : JobStep(j)
    \/ \E p \in Request : PlanningStep(p)

SchedulingSpec == SchedulingInit /\ [][SchedulingNext]_schedulingVars

-----------------------------------------------------------------------------
(* Properties.                                                             *)

\* Nobody is booked twice at a time by two bookings that each failed on conflicts,
\* unless a booking changed between the check and the commit of one.
VettedBookingsDisjoint ==
    \A j, k \in vetted : j # k =>
        ~ /\ Standing(j) = "open" /\ Overlaps(k, booking[j].start, booking[j].end)
          /\ booking[j].crew \cap booking[k].crew # {}
=============================================================================
