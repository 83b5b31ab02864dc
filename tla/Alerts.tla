------------------------------- MODULE Alerts -------------------------------
(***************************************************************************)
(* The procurement alerts of one user, and the notifications that carry    *)
(* them.  An alert is keyed by its type, its entity and its date.  A       *)
(* dispatch collects candidates and, one after the other, adds a           *)
(* notification and a delivery for those enabled and not yet delivered; it *)
(* commits once, at the end.  Deliveries have the key as a unique key: who *)
(* inserts one that another transaction inserted waits for it to end.      *)
(***************************************************************************)
EXTENDS Requests, Naturals, FiniteSetsExt

CONSTANT LastAlert  \* bound: alerts, in the order in which the candidates come

ASSUME AlertsAssumption == LastAlert \in Nat \ {0} /\ None \notin Request

VARIABLES
    preference,    \* procurement_alert_preferences: what is disabled, None for no row
    deliveries,    \* procurement_alert_deliveries: the alerts
    notification,  \* notifications that carry each alert
    dispatching    \* per request

alertsVars == <<preference, deliveries, notification, dispatching>>

Alert           == 1 .. LastAlert
Notifications   == [made : Nat, is_read : BOOLEAN, is_archived : BOOLEAN]
AlertDispatches == [step : {"none", "check", "insert"}, todo : SUBSET Alert,
                    disabled : SUBSET Alert, added : SUBSET Alert]
NotDispatching  == [step |-> "none", todo |-> {}, disabled |-> {}, added |-> {}]

AlertsTypeOK ==
    /\ preference \in (SUBSET Alert) \cup {None}
    /\ deliveries \subseteq Alert
    /\ notification \in [Alert -> Notifications]
    /\ dispatching \in [Request -> AlertDispatches]

AlertsInit ==
    /\ preference = None
    /\ deliveries = {}
    /\ notification = [a \in Alert |-> [made |-> 0, is_read |-> FALSE, is_archived |-> FALSE]]
    /\ dispatching = [p \in Request |-> NotDispatching]

-----------------------------------------------------------------------------
\* The row is locked from the read to the commit; without it nothing is disabled.
UpdatePreferences(disabled) ==
    preference' = disabled /\ UNCHANGED <<deliveries, notification, dispatching>>

Disabled == IF preference = None THEN {} ELSE preference

\* What the rows of the other parts, the user's permissions and the date make candidates.
Dispatch(p, candidates) ==
    /\ dispatching[p].step = "none"
    /\ dispatching' = [dispatching EXCEPT ![p] =
         [step |-> "check", todo |-> candidates, disabled |-> Disabled, added |-> {}]]
    /\ UNCHANGED <<preference, deliveries, notification>>

Following(d) == CHOOSE a \in d.todo : \A b \in d.todo : a <= b

DeliveryExists(a) == a \in deliveries

\* Disabled or delivered candidates are skipped.
CheckCandidate(p) ==
    LET d == dispatching[p]
        a == Following(d)
    IN /\ d.step = "check" /\ d.todo # {}
       /\ dispatching' = [dispatching EXCEPT ![p] =
            IF a \in d.disabled \/ DeliveryExists(a) THEN [d EXCEPT !.todo = @ \ {a}]
                                                     ELSE [d EXCEPT !.step = "insert"]]
       /\ UNCHANGED <<preference, deliveries, notification>>

\* Mutated form: deliveries have no unique key.
KeyIgnored(p, a) == TRUE

KeyFree(p, a) == a \notin deliveries /\ \A q \in Request \ {p} : a \notin dispatching[q].added

InsertDelivery(p) ==
    LET d == dispatching[p]
        a == Following(d)
    IN /\ d.step = "insert"
       /\ KeyFree(p, a)
       /\ dispatching' = [dispatching EXCEPT ![p] =
            [d EXCEPT !.step = "check", !.todo = @ \ {a}, !.added = @ \cup {a}]]
       /\ UNCHANGED <<preference, deliveries, notification>>

EndAlertDispatch(p) == dispatching' = [dispatching EXCEPT ![p] = NotDispatching] /\ UNCHANGED preference

CommitDispatch(p) ==
    LET d == dispatching[p]
    IN /\ d.step = "check" /\ d.todo = {}
       /\ deliveries' = deliveries \cup d.added
       /\ notification' = [a \in Alert |->
            IF a \in d.added THEN [notification[a] EXCEPT !.made = @ + 1, !.is_read = FALSE]
                             ELSE notification[a]]
       /\ EndAlertDispatch(p)

\* The key is taken, or the process dies: nothing of the dispatch is left.
AbandonDispatch(p) ==
    /\ dispatching[p].step # "none"
    /\ EndAlertDispatch(p) /\ UNCHANGED <<deliveries, notification>>

-----------------------------------------------------------------------------
(* The notifications are read and put away by their recipient.             *)

Owned(a) == notification[a].made > 0

SetNotification(to) ==
    notification' = to /\ UNCHANGED <<preference, deliveries, dispatching>>

MarkAsRead(a) == Owned(a) /\ SetNotification([notification EXCEPT ![a].is_read = TRUE])

MarkAllAsRead ==
    SetNotification([a \in Alert |->
        IF Owned(a) /\ ~notification[a].is_archived THEN [notification[a] EXCEPT !.is_read = TRUE]
                                                    ELSE notification[a]])

ArchiveNotification(a) == Owned(a) /\ SetNotification([notification EXCEPT ![a].is_archived = TRUE])

-----------------------------------------------------------------------------
AlertsNext ==
    \/ \E disabled \in SUBSET Alert : UpdatePreferences(disabled)
    \/ \E p \in Request :
         \/ \E candidates \in SUBSET Alert : Dispatch(p, candidates)
         \/ CheckCandidate(p) \/ InsertDelivery(p) \/ CommitDispatch(p) \/ AbandonDispatch(p)
    \/ \E a \in Alert : MarkAsRead(a) \/ ArchiveNotification(a)
    \/ MarkAllAsRead

AlertsSpec == AlertsInit /\ [][AlertsNext]_alertsVars

-----------------------------------------------------------------------------
(* Properties.                                                             *)

\* However dispatches overlap, fail and are repeated, an alert has one notification when
\* it is delivered and none before; two dispatches do not insert the same alert at once;
\* and none inserts what its user had disabled when it began.
NotifiedOnce ==
    /\ \A a \in Alert : notification[a].made = IF a \in deliveries THEN 1 ELSE 0
    /\ \A p, q \in Request : p # q => dispatching[p].added \cap dispatching[q].added = {}
    /\ \A p \in Request : dispatching[p].added \cap (dispatching[p].disabled \cup deliveries) = {}
=============================================================================
