---------------------------- MODULE OfficeProofs ----------------------------
(***************************************************************************)
(* Proofs about Memberships, Alerts, Directory and Quotes, for any users,  *)
(* alerts, entries, identifiers, quotes and any number of concurrent       *)
(* requests.                                                               *)
(*                                                                         *)
(* In the first three a request checks rows which it does not lock: what   *)
(* carries the proofs is what the check still says when the request        *)
(* commits, that it was the only one, or what a unique key adds.  Of a     *)
(* quote it holds the lock from the read to the commit, so what it is to   *)
(* write continues the quote as it is; and the work order a conversion is  *)
(* to make is nobody else's.                                               *)
(***************************************************************************)
EXTENDS Memberships, Alerts, Directory, Quotes, SumTheorems, SequenceTheorems

-----------------------------------------------------------------------------
(* Memberships.                                                            *)

\* As long as requests that alter a membership did not overlap there is one at most, the
\* role it found is the role its user has, and if it takes the role of an Owner there is
\* another one.
MembershipsInv ==
    /\ role \in [User -> Roles]
    /\ changing \in [Request -> RoleChanges]
    /\ ~contested =>
         /\ \E u \in User : role[u] = "owner"
         /\ \A p, q \in Request : Alters(changing[p]) /\ Alters(changing[q]) => p = q
         /\ \A p \in Request : Alters(changing[p]) =>
              /\ changing[p].user \in User /\ role[changing[p].user] = changing[p].from
              /\ Disowns(changing[p]) => NotSoleOwner(changing[p].user)

LEMMA MembershipsInitially == MembershipsInit => MembershipsInv
BY MembershipsAssumption DEF MembershipsInit, MembershipsInv, Roles, RoleChanges, NoChange, Alters

LEMMA MembershipsChangeBegins ==
    ASSUME MembershipsInv, NEW p \in Request, NEW requester \in User, NEW u \in User,
           NEW to \in Roles, BeginChange(p, requester, u, to)
    PROVE  MembershipsInv'
<1> DEFINE w == [user |-> u, from |-> role[u], to |-> to]
<1>1. w \in RoleChanges BY DEF MembershipsInv, RoleChanges
<1>2. changing' = [changing EXCEPT ![p] = w] /\ role' = role BY DEF BeginChange
<1>3. changing[p].user = None BY DEF BeginChange
<1>4. changing' \in [Request -> RoleChanges] BY <1>1, <1>2 DEF MembershipsInv
<1>5. ASSUME ~contested' PROVE ~contested /\ (Alters(w) => \A q \in Request : ~Alters(changing[q]))
      BY <1>5 DEF BeginChange
<1>6. Disowns(w) => NotSoleOwner(u) BY DEF BeginChange
<1> HIDE DEF w
<1>7. w.user = u /\ w.from = role[u] BY DEF w
<1> QED BY MembershipsAssumption, <1>2, <1>3, <1>4, <1>5, <1>6, <1>7
        DEF MembershipsInv, NotSoleOwner

LEMMA MembershipsStep == MembershipsInv /\ [MembershipsNext]_membershipsVars => MembershipsInv'
<1> SUFFICES ASSUME MembershipsInv, [MembershipsNext]_membershipsVars PROVE MembershipsInv'
    OBVIOUS
<1>1. CASE UNCHANGED membershipsVars
      BY <1>1 DEF membershipsVars, MembershipsInv, NotSoleOwner
<1>2. ASSUME NEW p \in Request, NEW requester \in User, NEW u \in User, NEW to \in Roles,
             AddMember(p, requester, u, to) \/ UpdateMemberRole(p, requester, u, to)
      PROVE  MembershipsInv'
      BY <1>2, MembershipsChangeBegins DEF AddMember, UpdateMemberRole
<1>3. ASSUME NEW p \in Request, NEW requester \in User, NEW u \in User,
             RemoveMember(p, requester, u)
      PROVE  MembershipsInv'
      BY <1>3, MembershipsChangeBegins DEF RemoveMember, Roles
<1>4. ASSUME NEW p \in Request, CommitChange(p) PROVE MembershipsInv'
  <2> DEFINE w == changing[p]
  <2>1. /\ w.user \in User /\ w.to \in Roles /\ w.from \in Roles
        /\ role' = [role EXCEPT ![w.user] = w.to] /\ contested' = contested
        /\ (w.from = "none") = (role[w.user] = "none")
        BY MembershipsAssumption, <1>4 DEF CommitChange, MembershipsInv, RoleChanges
  <2>2. /\ changing' \in [Request -> RoleChanges]
        /\ changing'[p] = NoChange
        /\ \A q \in Request : changing'[q] = NoChange \/ changing'[q] = changing[q]
        BY <1>4, <2>1 DEF CommitChange, EndChange, MembershipsInv, RoleChanges, NoChange, Roles
  <2>3. ~Alters(NoChange) BY DEF Alters, NoChange
  <2>4. \A v \in User \ {w.user} : role'[v] = role[v]
        BY <2>1 DEF MembershipsInv
  <2>5. ASSUME ~contested PROVE \E u \in User : role'[u] = "owner"
    <3>1. PICK u \in User : role[u] = "owner" BY <2>5 DEF MembershipsInv
    <3>2. CASE w.from = "none"
          BY <2>1, <2>4, <3>1, <3>2
    <3>3. CASE w.from # "none"
      <4>1. role[w.user] = w.from /\ (Disowns(w) => NotSoleOwner(w.user))
            BY <2>5, <3>3 DEF MembershipsInv, Alters
      <4>2. role'[w.user] = w.to BY <2>1 DEF MembershipsInv
      <4> QED BY <2>1, <2>4, <3>1, <4>1, <4>2 DEF NotSoleOwner, Disowns
    <3> QED BY <3>2, <3>3
  <2>6. ASSUME ~contested, NEW q \in Request, Alters(changing'[q])
        PROVE  /\ changing'[q] = changing[q] /\ changing[q].user \in User
               /\ role'[changing[q].user] = changing[q].from
               /\ Disowns(changing[q]) => \E v \in User \ {changing[q].user} : role'[v] = "owner"
    <3>1. changing'[q] = changing[q] /\ Alters(changing[q])
      <4>1. changing'[q] # NoChange BY <2>6 DEF Alters, NoChange
      <4>2. changing'[q] = changing[q] BY <2>2, <4>1
      <4> QED BY <2>6, <4>2 DEF Alters
    <3>2. q # p BY <2>2, <2>6 DEF Alters, NoChange
    <3>3. /\ changing[q].user \in User /\ role[changing[q].user] = changing[q].from
          /\ Disowns(changing[q]) => NotSoleOwner(changing[q].user)
          BY <2>6, <3>1 DEF MembershipsInv
    <3>4. w.from = "none" /\ role[w.user] = "none"
          BY <2>1, <2>6, <3>1, <3>2 DEF MembershipsInv, Alters
    <3> QED BY <2>4, <3>1, <3>3, <3>4 DEF NotSoleOwner, Alters
  <2> QED BY <2>1, <2>2, <2>3, <2>5, <2>6 DEF MembershipsInv, NotSoleOwner
<1>5. ASSUME NEW p \in Request, AbandonChange(p) PROVE MembershipsInv'
  <2>1. changing' \in [Request -> RoleChanges] /\ role' = role /\ contested' = contested
        /\ \A q \in Request : changing'[q] = NoChange \/ changing'[q] = changing[q]
        BY <1>5 DEF AbandonChange, EndChange, MembershipsInv, RoleChanges, NoChange, Roles
  <2>2. ~Alters(NoChange) BY DEF Alters, NoChange
  <2> QED BY <2>1, <2>2 DEF MembershipsInv, NotSoleOwner
<1> QED BY <1>1, <1>2, <1>3, <1>4, <1>5 DEF MembershipsNext

\* For any users and concurrent requests, the organization keeps an Owner as long as no two
\* requests that alter memberships overlap.
THEOREM OwnersStay == MembershipsSpec => []OwnerStays
<1>1. MembershipsInv => OwnerStays BY DEF MembershipsInv, OwnerStays
<1> QED BY <1>1, MembershipsInitially, MembershipsStep, PTL DEF MembershipsSpec

\* For any users, requests and roles: memberships, and what each request found and is to
\* write, keep their types (organization_membership_service.py).
THEOREM MembershipsTyped == MembershipsSpec => []MembershipsTypeOK
<1>1. MembershipsInit => MembershipsTypeOK
      BY MembershipsInitially DEF MembershipsInit, MembershipsInv, MembershipsTypeOK
<1>2. ASSUME MembershipsInv, MembershipsTypeOK, [MembershipsNext]_membershipsVars
      PROVE  MembershipsTypeOK'
  <2>1. MembershipsInv' BY <1>2, MembershipsStep
  <2>2. contested \in BOOLEAN BY <1>2 DEF MembershipsTypeOK
  <2>3. ASSUME NEW p \in Request, NEW requester, NEW u, NEW to, BeginChange(p, requester, u, to)
        PROVE  contested' \in BOOLEAN
        BY <2>2, <2>3, Zenon DEF BeginChange
  <2>4. contested' \in BOOLEAN
        BY <1>2, <2>2, <2>3, Zenon
           DEF MembershipsNext, AddMember, UpdateMemberRole, RemoveMember, CommitChange,
               AbandonChange, membershipsVars
  <2> QED BY <2>1, <2>4 DEF MembershipsInv, MembershipsTypeOK
<1> QED BY <1>1, <1>2, MembershipsInitially, MembershipsStep, PTL DEF MembershipsSpec

-----------------------------------------------------------------------------
(* Alerts.                                                                 *)

\* The alert a dispatch is about to insert was not disabled when the dispatch began.
AlertsInv ==
    /\ notification \in [Alert -> Notifications]
    /\ DOMAIN dispatching = Request
    /\ \A p \in Request :
         /\ DOMAIN dispatching[p] = {"step", "todo", "disabled", "added"}
         /\ dispatching[p].step = "none" => dispatching[p].added = {}
         /\ dispatching[p].step = "insert" =>
              Following(dispatching[p]) \notin dispatching[p].disabled
    /\ NotifiedOnce

LEMMA AlertsInitially == AlertsInit => AlertsInv
BY DEF AlertsInit, AlertsInv, NotifiedOnce, NotDispatching, Notifications

LEMMA NotificationFields ==
    ASSUME NEW n \in Notifications, NEW k \in Nat
    PROVE  /\ [n EXCEPT !.made = k, !.is_read = FALSE] \in Notifications
           /\ [n EXCEPT !.made = k, !.is_read = FALSE].made = k
           /\ [n EXCEPT !.is_read = TRUE] \in Notifications
           /\ [n EXCEPT !.is_read = TRUE].made = n.made
           /\ [n EXCEPT !.is_archived = TRUE] \in Notifications
           /\ [n EXCEPT !.is_archived = TRUE].made = n.made
BY DEF Notifications

LEMMA AlertsStep == AlertsInv /\ [AlertsNext]_alertsVars => AlertsInv'
<1> SUFFICES ASSUME AlertsInv, [AlertsNext]_alertsVars PROVE AlertsInv'
    OBVIOUS
<1> USE DEF AlertsInv, NotifiedOnce
<1>1. CASE UNCHANGED alertsVars
      BY <1>1 DEF alertsVars, Following
<1>2. ASSUME NEW disabled \in SUBSET Alert, UpdatePreferences(disabled) PROVE AlertsInv'
      BY <1>2 DEF UpdatePreferences, Following
<1>3. ASSUME NEW p \in Request, NEW candidates \in SUBSET Alert, Dispatch(p, candidates)
      PROVE  AlertsInv'
      BY <1>3 DEF Dispatch, Following
<1>4. ASSUME NEW p \in Request, CheckCandidate(p) PROVE AlertsInv'
  <2> DEFINE d == dispatching[p]
             a == Following(d)
  <2>1. /\ UNCHANGED <<deliveries, notification>> /\ DOMAIN dispatching' = Request
        /\ \A q \in Request \ {p} : dispatching'[q] = dispatching[q]
        /\ DOMAIN dispatching'[p] = DOMAIN d
        /\ dispatching'[p].disabled = d.disabled /\ dispatching'[p].added = d.added
        BY <1>4 DEF CheckCandidate
  <2>2. CASE a \in d.disabled \/ DeliveryExists(a)
    <3>1. dispatching'[p].step = "check" BY <1>4, <2>2 DEF CheckCandidate
    <3> QED BY <2>1, <3>1 DEF Following
  <2>3. CASE ~(a \in d.disabled \/ DeliveryExists(a))
    <3>1. dispatching'[p].step = "insert" /\ dispatching'[p].todo = d.todo
          BY <1>4, <2>3 DEF CheckCandidate
    <3>2. Following(dispatching'[p]) = a BY <3>1 DEF Following
    <3>3. Following(dispatching'[p]) \notin dispatching'[p].disabled BY <2>1, <2>3, <3>2
    <3>4. \A q \in Request \ {p} : Following(dispatching'[q]) = Following(dispatching[q])
          BY <2>1
    <3> HIDE DEF a
    <3> QED BY <2>1, <3>1, <3>3, <3>4, ZenonT(60) DEF Following
  <2> QED BY <2>2, <2>3
<1>5. ASSUME NEW p \in Request, InsertDelivery(p) PROVE AlertsInv'
  <2> DEFINE a == Following(dispatching[p])
  <2>1. a \notin dispatching[p].disabled /\ KeyFree(p, a)
        BY <1>5 DEF InsertDelivery
  <2>2. /\ dispatching'[p].added = dispatching[p].added \cup {a}
        /\ dispatching'[p].step = "check" /\ dispatching'[p].disabled = dispatching[p].disabled
        /\ DOMAIN dispatching'[p] = DOMAIN dispatching[p]
        BY <1>5 DEF InsertDelivery
  <2>3. \A q \in Request \ {p} : dispatching'[q] = dispatching[q]
        BY <1>5 DEF InsertDelivery
  <2> HIDE DEF a
  <2> QED BY <1>5, <2>1, <2>2, <2>3 DEF InsertDelivery, KeyFree, Following
<1>6. ASSUME NEW p \in Request, CommitDispatch(p) PROVE AlertsInv'
  <2>1. /\ dispatching'[p] = NotDispatching
        /\ \A q \in Request \ {p} : dispatching'[q] = dispatching[q]
        /\ DOMAIN dispatching' = Request
        BY <1>6 DEF CommitDispatch, EndAlertDispatch
  <2>2. deliveries' = deliveries \cup dispatching[p].added
        BY <1>6 DEF CommitDispatch
  <2>3. notification' = [b \in Alert |->
            IF b \in dispatching[p].added THEN [notification[b] EXCEPT !.made = @ + 1, !.is_read = FALSE]
                                          ELSE notification[b]]
        BY <1>6 DEF CommitDispatch
  <2>4. ASSUME NEW b \in Alert
        PROVE  /\ notification'[b] \in Notifications
               /\ notification'[b].made = IF b \in deliveries' THEN 1 ELSE 0
    <3>1. CASE b \in dispatching[p].added
      <4> DEFINE k == notification[b].made + 1
      <4>1. notification[b].made = 0 /\ notification[b] \in Notifications BY <3>1
      <4>2. k = 1 /\ k \in Nat BY <4>1
      <4>3. notification'[b] = [notification[b] EXCEPT !.made = k, !.is_read = FALSE]
            BY <2>3, <3>1
      <4> HIDE DEF k
      <4>4. /\ [notification[b] EXCEPT !.made = k, !.is_read = FALSE] \in Notifications
            /\ [notification[b] EXCEPT !.made = k, !.is_read = FALSE].made = k
            BY <4>1, <4>2, NotificationFields, ZenonT(60)
      <4> QED BY <2>2, <3>1, <4>2, <4>3, <4>4
    <3>2. CASE b \notin dispatching[p].added
      <4>1. notification'[b] = notification[b] BY <2>3, <3>2
      <4> QED BY <2>2, <3>2, <4>1
    <3> QED BY <3>1, <3>2
  <2>5. notification' \in [Alert -> Notifications] BY <2>3, <2>4
  <2> QED BY <2>1, <2>2, <2>4, <2>5 DEF NotDispatching, Following
<1>7. ASSUME NEW p \in Request, AbandonDispatch(p) PROVE AlertsInv'
      BY <1>7 DEF AbandonDispatch, EndAlertDispatch, NotDispatching, Following
<1>8. ASSUME UNCHANGED <<preference, deliveries, dispatching>>,
             notification' \in [Alert -> Notifications],
             \A b \in Alert : notification'[b].made = notification[b].made
      PROVE  AlertsInv'
      BY <1>8 DEF Following
<1>9. ASSUME NEW a \in Alert, MarkAsRead(a) PROVE AlertsInv'
  <2>1. notification' = [notification EXCEPT ![a] = [notification[a] EXCEPT !.is_read = TRUE]]
        BY <1>9 DEF MarkAsRead, SetNotification
  <2>2. /\ [notification[a] EXCEPT !.is_read = TRUE] \in Notifications
        /\ [notification[a] EXCEPT !.is_read = TRUE].made = notification[a].made
        BY NotificationFields
  <2> QED BY <1>8, <1>9, <2>1, <2>2 DEF MarkAsRead, SetNotification
<1>10. ASSUME NEW a \in Alert, ArchiveNotification(a) PROVE AlertsInv'
  <2>1. notification' = [notification EXCEPT ![a] = [notification[a] EXCEPT !.is_archived = TRUE]]
        BY <1>10 DEF ArchiveNotification, SetNotification
  <2>2. /\ [notification[a] EXCEPT !.is_archived = TRUE] \in Notifications
        /\ [notification[a] EXCEPT !.is_archived = TRUE].made = notification[a].made
        BY NotificationFields
  <2> QED BY <1>8, <1>10, <2>1, <2>2 DEF ArchiveNotification, SetNotification
<1>11. CASE MarkAllAsRead
  <2>1. ASSUME NEW b \in Alert
        PROVE  /\ notification'[b] \in Notifications
               /\ notification'[b].made = notification[b].made
        BY <1>11, NotificationFields DEF MarkAllAsRead, SetNotification
  <2>2. notification' = [b \in Alert |-> notification'[b]]
        BY <1>11 DEF MarkAllAsRead, SetNotification
  <2> QED BY <1>8, <1>11, <2>1, <2>2 DEF MarkAllAsRead, SetNotification
<1> QED BY <1>1, <1>2, <1>3, <1>4, <1>5, <1>6, <1>7, <1>9, <1>10, <1>11 DEF AlertsNext

\* For any alerts and any overlapping, failing and repeated dispatches, an alert is notified
\* when it is delivered, once, and nothing disabled is.
THEOREM AlertsNotifiedOnce == AlertsSpec => []NotifiedOnce
<1>1. AlertsInv => NotifiedOnce BY DEF AlertsInv
<1> QED BY <1>1, AlertsInitially, AlertsStep, PTL DEF AlertsSpec

\* What a dispatch takes next, the smallest it has not looked at, is an alert.
LEMMA FirstFollowing ==
    ASSUME NEW d \in AlertDispatches, d.todo # {}
    PROVE  Following(d) \in Alert
<1>1. d.todo \subseteq Alert BY DEF AlertDispatches
<1>2. IsFiniteSet(d.todo) BY <1>1, AlertsAssumption, FS_Interval, FS_Subset DEF Alert
<1>3. d.todo \subseteq Int BY <1>1 DEF Alert
<1>4. \E a \in d.todo : \A b \in d.todo : a =< b BY <1>2, <1>3, MinIn
<1> QED BY <1>1, <1>4 DEF Following

\* What a dispatch has under way: it inserts only what is still to be looked at.
DispatchesTyped ==
    /\ preference \in (SUBSET Alert) \cup {None}
    /\ deliveries \subseteq Alert
    /\ dispatching \in [Request -> AlertDispatches]
    /\ \A p \in Request : dispatching[p].step = "insert" => dispatching[p].todo # {}

LEMMA DispatchesStayTyped ==
    ASSUME DispatchesTyped, [AlertsNext]_alertsVars
    PROVE  DispatchesTyped'
<1>1. ASSUME UNCHANGED <<deliveries, dispatching>>, preference' \in (SUBSET Alert) \cup {None}
      PROVE  DispatchesTyped'
      BY <1>1 DEF DispatchesTyped
<1>2. ASSUME NEW p \in Request, NEW d \in AlertDispatches, d.step = "insert" => d.todo # {},
             dispatching' = [dispatching EXCEPT ![p] = d], UNCHANGED preference,
             deliveries' \subseteq Alert
      PROVE  DispatchesTyped'
      BY <1>2 DEF DispatchesTyped
<1>3. CASE UNCHANGED alertsVars BY <1>1, <1>3 DEF alertsVars, DispatchesTyped
<1>4. ASSUME NEW disabled \in SUBSET Alert, UpdatePreferences(disabled) PROVE DispatchesTyped'
      BY <1>1, <1>4 DEF UpdatePreferences
<1>5. ASSUME NEW p \in Request, NEW candidates \in SUBSET Alert, Dispatch(p, candidates)
      PROVE  DispatchesTyped'
  <2> DEFINE d == [step |-> "check", todo |-> candidates, disabled |-> Disabled, added |-> {}]
  <2>1. Disabled \subseteq Alert
    <3>1. CASE preference = None BY <3>1 DEF Disabled
    <3>2. CASE preference # None BY <3>2 DEF Disabled, DispatchesTyped
    <3> QED BY <3>1, <3>2
  <2>2. d \in AlertDispatches BY <2>1 DEF AlertDispatches
  <2>3. d.step = "check" /\ dispatching' = [dispatching EXCEPT ![p] = d]
        /\ UNCHANGED <<preference, deliveries>>
        BY <1>5 DEF Dispatch
  <2> HIDE DEF d
  <2> QED BY <1>2, <2>2, <2>3 DEF DispatchesTyped
<1>6. ASSUME NEW p \in Request, CheckCandidate(p) PROVE DispatchesTyped'
  <2> DEFINE d == dispatching[p]
             a == Following(d)
             next == IF a \in d.disabled \/ DeliveryExists(a) THEN [d EXCEPT !.todo = @ \ {a}]
                                                     ELSE [d EXCEPT !.step = "insert"]
  <2>1. d \in AlertDispatches /\ d.step = "check" /\ d.todo # {}
        BY <1>6 DEF CheckCandidate, DispatchesTyped
  <2>2. dispatching' = [dispatching EXCEPT ![p] = next] /\ UNCHANGED <<preference, deliveries>>
        BY <1>6 DEF CheckCandidate
  <2> HIDE DEF d, a
  <2>3. next \in AlertDispatches /\ (next.step = "insert" => next.todo # {})
        BY <2>1 DEF AlertDispatches
  <2> HIDE DEF next
  <2> QED BY <1>2, <2>2, <2>3 DEF DispatchesTyped
<1>7. ASSUME NEW p \in Request, InsertDelivery(p) PROVE DispatchesTyped'
  <2> DEFINE d == dispatching[p]
             a == Following(d)
             next == [d EXCEPT !.step = "check", !.todo = @ \ {a}, !.added = @ \cup {a}]
  <2>1. d \in AlertDispatches /\ d.todo # {}
        BY <1>7 DEF InsertDelivery, DispatchesTyped
  <2>2. dispatching' = [dispatching EXCEPT ![p] = next] /\ UNCHANGED <<preference, deliveries>>
        BY <1>7 DEF InsertDelivery
  <2>3. a \in Alert BY <2>1, FirstFollowing
  <2> HIDE DEF d, a
  <2>4. next \in AlertDispatches /\ next.step = "check"
        BY <2>1, <2>3 DEF AlertDispatches
  <2> HIDE DEF next
  <2> QED BY <1>2, <2>2, <2>4 DEF DispatchesTyped
<1>8. ASSUME NEW p \in Request, CommitDispatch(p) \/ AbandonDispatch(p) PROVE DispatchesTyped'
  <2>1. NotDispatching \in AlertDispatches /\ NotDispatching.step = "none"
        BY DEF NotDispatching, AlertDispatches
  <2>2. dispatching[p].added \subseteq Alert BY DEF DispatchesTyped, AlertDispatches
  <2>3. deliveries' \subseteq Alert /\ UNCHANGED preference
        /\ dispatching' = [dispatching EXCEPT ![p] = NotDispatching]
        BY <1>8, <2>2 DEF CommitDispatch, AbandonDispatch, EndAlertDispatch, DispatchesTyped
  <2> QED BY <1>2, <2>1, <2>3
<1>9. ASSUME (\E a \in Alert : MarkAsRead(a) \/ ArchiveNotification(a)) \/ MarkAllAsRead
      PROVE  DispatchesTyped'
      BY <1>1, <1>9 DEF MarkAsRead, ArchiveNotification, MarkAllAsRead, SetNotification,
                        DispatchesTyped
<1> QED BY <1>3, <1>4, <1>5, <1>6, <1>7, <1>8, <1>9 DEF AlertsNext

\* For any alerts, preferences and overlapping dispatches: notifications, deliveries and what
\* every dispatch has under way keep their types (procurement_alert_service.py).
THEOREM AlertsTyped == AlertsSpec => []AlertsTypeOK
<1>1. AlertsInit => DispatchesTyped
  <2>1. NotDispatching \in AlertDispatches /\ NotDispatching.step = "none"
        BY DEF NotDispatching, AlertDispatches
  <2> QED BY <2>1 DEF AlertsInit, DispatchesTyped
<1>2. AlertsInv /\ DispatchesTyped => AlertsTypeOK
      BY DEF AlertsInv, DispatchesTyped, AlertsTypeOK
<1>3. DispatchesTyped /\ [AlertsNext]_alertsVars => DispatchesTyped' BY DispatchesStayTyped
<1> QED BY <1>1, <1>2, <1>3, AlertsInitially, AlertsStep, PTL DEF AlertsSpec

-----------------------------------------------------------------------------
(* Directory.                                                              *)

\* What a commit leaves of a row.
LEMMA OverwrittenRow ==
    ASSUME NEW from \in EntryRows, NEW to \in EntryRows, NEW now \in EntryRows
    PROVE  /\ Overwritten(now, Changed(from, to)) \in EntryRows
           /\ \A c \in DOMAIN now :
                Overwritten(now, Changed(from, to))[c] = IF to[c] # from[c] THEN to[c] ELSE now[c]
           /\ DOMAIN now = {"identifier", "made", "is_active", "works", "is_available"}
<1> DEFINE row == Overwritten(now, Changed(from, to))
<1>1. DOMAIN now = DOMAIN to /\ DOMAIN to = {"identifier", "made", "is_active", "works", "is_available"}
      BY DEF EntryRows
<1>2. row = [c \in DOMAIN now |-> IF to[c] # from[c] THEN to[c] ELSE now[c]]
      BY <1>1 DEF Changed, Overwritten
<1>3. row = [identifier |-> row.identifier, made |-> row.made, is_active |-> row.is_active,
             works |-> row.works, is_available |-> row.is_available]
      BY <1>1, <1>2
<1>4. /\ row.identifier \in Identifier \cup {None}
      /\ row.made \in BOOLEAN /\ row.is_active \in BOOLEAN /\ row.works \in BOOLEAN
      /\ row.is_available \in BOOLEAN
      BY <1>1, <1>2 DEF EntryRows
<1> HIDE DEF row
<1>5. row \in EntryRows BY <1>3, <1>4 DEF EntryRows
<1> QED BY <1>1, <1>2, <1>5 DEF row

\* The identifier a request is to give, if any.
Given(job) == IF "identifier" \in DOMAIN job.columns THEN job.columns.identifier ELSE None

\* It writes over the row it found the columns in which another differs from it.
Writes(job, from, to) == job = [entry |-> job.entry, columns |-> Changed(from, to)]

LEMMA GivenIs ==
    ASSUME NEW job, NEW from \in EntryRows, NEW to \in EntryRows, Writes(job, from, to)
    PROVE  /\ Given(job) = IF to.identifier # from.identifier THEN to.identifier ELSE None
           /\ "identifier" \in DOMAIN job.columns <=> to.identifier # from.identifier
<1>1. job.columns = Changed(from, to) BY DEF Writes
<1>2. DOMAIN Changed(from, to) = {d \in DOMAIN to : to[d] # from[d]} /\ "identifier" \in DOMAIN to
      BY DEF Changed, EntryRows
<1>3. to.identifier # from.identifier => Changed(from, to).identifier = to.identifier
      BY <1>2 DEF Changed
<1> QED BY <1>1, <1>2, <1>3 DEF Given

Ready(row) == directory = "workforce" /\ row.is_available => row.works /\ row.is_active

\* Alone on its entry, a request makes of it a row whose availability is in order.
SavingFormed(p) ==
    /\ saving[p].entry \in Entry
    /\ \E from, to \in EntryRows :
         /\ Writes(saving[p], from, to)
         /\ saving[p].entry \notin shared => from = entry[saving[p].entry] /\ Ready(to)
    /\ saving[p].entry \notin shared => \A q \in Request \ {p} : saving[q].entry # saving[p].entry

\* What a customer is about to be known by, unless it is shared, nobody is known by, and
\* nobody else is about to be.
GivenIsFree(p) ==
    directory = "customers" /\ Given(saving[p]) \notin shared \cup {None} =>
        /\ \A f \in Entry \ {saving[p].entry} : entry[f].identifier # Given(saving[p])
        /\ \A q \in Request \ {p} : Given(saving[q]) # Given(saving[p])

DirectoryInv ==
    /\ entry \in [Entry -> EntryRows]
    /\ DOMAIN saving = Request
    /\ \A p \in Request : saving[p] = NotSaving \/ SavingFormed(p)
    /\ \A p \in Request : GivenIsFree(p)
    /\ EntriesKnownApart

LEMMA NothingGiven == Given(NotSaving) = None /\ NotSaving.entry = None
BY DEF Given, NotSaving

LEMMA DirectoryInitially == DirectoryInit => DirectoryInv
<1> SUFFICES ASSUME DirectoryInit PROVE DirectoryInv OBVIOUS
<1>1. NoEntry \in EntryRows BY DEF NoEntry, EntryRows
<1>2. \A e \in Entry : entry[e] = NoEntry BY DEF DirectoryInit
<1>3. \A p \in Request : saving[p] = NotSaving BY DEF DirectoryInit
<1>4. EntriesKnownApart BY <1>2 DEF EntriesKnownApart, NoEntry
<1>5. \A p \in Request : GivenIsFree(p) BY <1>3, NothingGiven DEF GivenIsFree
<1> QED BY <1>1, <1>3, <1>4, <1>5 DEF DirectoryInit, DirectoryInv

\* A request begins that is to make of an entry a row in order, with a free identifier.
LEMMA SavingBegins ==
    ASSUME DirectoryInv, NEW p \in Request, NEW e \in Entry, NEW to \in EntryRows,
           SaveEntry(p, e, to),
           to.identifier # entry[e].identifier => Unused(to.identifier, e),
           Ready(entry[e]) => Ready(to)
    PROVE  DirectoryInv'
<1> DEFINE job == [entry |-> e, columns |-> Changed(entry[e], to)]
<1>1. /\ UNCHANGED <<directory, entry, customerActive>> /\ saving[p] = NotSaving
      /\ saving' = [saving EXCEPT ![p] = job]
      /\ shared' = shared \cup ((Involved(job) \cap UNION {Involved(saving[q]) : q \in Request}) \ {None})
      BY DEF SaveEntry
<1>2. saving'[p] = job /\ \A q \in Request \ {p} : saving'[q] = saving[q]
      BY <1>1 DEF DirectoryInv
<1>3. entry[e] \in EntryRows BY DEF DirectoryInv
<1>4. Writes(job, entry[e], to) BY DEF Writes
<1>5. Given(job) = IF to.identifier # entry[e].identifier THEN to.identifier ELSE None
      BY <1>3, <1>4, GivenIs
<1>6. /\ e \notin shared' => \A q \in Request : saving[q].entry # e
      /\ Given(job) \notin shared' \cup {None} =>
           \A q \in Request : Given(saving[q]) # Given(job)
      /\ shared \subseteq shared'
  <2>1. /\ job.entry = e /\ e \in Involved(job)
        /\ Given(job) # None => Given(job) \in Involved(job)
        BY DEF Involved, Given
  <2>2. ASSUME NEW q \in Request
        PROVE  /\ saving[q].entry \in Involved(saving[q])
               /\ Given(saving[q]) # None => Given(saving[q]) \in Involved(saving[q])
        BY DEF Involved, Given
  <2> HIDE DEF job
  <2> QED BY <1>1, <2>1, <2>2, DirectoryAssumption
<1>7. SavingFormed(p)'
  <2>1. saving'[p].entry = e BY <1>2
  <2>2. e \notin shared' => Ready(to)' BY <1>1, <1>6 DEF DirectoryInv, EntriesKnownApart, Ready
  <2>3. Writes(saving'[p], entry'[e], to) BY <1>1, <1>2, <1>4
  <2>4. e \notin shared' => \A q \in Request \ {p} : saving'[q].entry # e
        BY <1>2, <1>6
  <2> QED BY <1>1, <1>3, <2>1, <2>2, <2>3, <2>4 DEF SavingFormed
<1>8. ASSUME NEW q \in Request \ {p}, saving[q] # NotSaving PROVE SavingFormed(q)'
  <2>1. saving[q].entry \notin shared' => saving[q].entry # e BY <1>6
  <2>2. SavingFormed(q) BY <1>8 DEF DirectoryInv
  <2>3. saving'[p].entry = e BY <1>2
  <2> QED BY <1>1, <1>2, <1>6, <2>1, <2>2, <2>3 DEF SavingFormed, Ready
<1>9. GivenIsFree(p)'
  <2>1. saving'[p].entry = e /\ Given(saving'[p]) = Given(job) BY <1>2
  <2>2. Given(job) # None => \A f \in Entry \ {e} : entry[f].identifier # Given(job)
        BY <1>5 DEF Unused
  <2> HIDE DEF job
  <2> QED BY <1>1, <1>2, <1>6, <2>1, <2>2 DEF GivenIsFree
<1>10. ASSUME NEW q \in Request \ {p} PROVE GivenIsFree(q)'
  <2>1. GivenIsFree(q) BY DEF DirectoryInv
  <2>2. saving'[q] = saving[q] /\ Given(saving'[p]) = Given(job) BY <1>2
  <2> HIDE DEF job
  <2> QED BY <1>1, <1>2, <1>6, <2>1, <2>2 DEF GivenIsFree
<1>11. EntriesKnownApart' BY <1>1, <1>6 DEF DirectoryInv, EntriesKnownApart
<1> QED BY <1>1, <1>2, <1>7, <1>8, <1>9, <1>10, <1>11 DEF DirectoryInv

LEMMA EntryCommits ==
    ASSUME DirectoryInv, NEW p \in Request, CommitEntry(p)
    PROVE  DirectoryInv'
<1> DEFINE job == saving[p]
           e == saving[p].entry
<1>1. /\ job # NotSaving /\ KeysHold(e, job.columns)
      /\ entry' = [entry EXCEPT ![e] = Overwritten(entry[e], job.columns)]
      /\ saving' = [saving EXCEPT ![p] = NotSaving]
      /\ UNCHANGED <<directory, customerActive, shared>>
      BY DEF CommitEntry
<1>2. SavingFormed(p) /\ e \in Entry BY <1>1 DEF DirectoryInv, SavingFormed
<1>3. PICK from \in EntryRows, to \in EntryRows :
        /\ Writes(job, from, to)
        /\ e \notin shared => from = entry[e] /\ Ready(to)
      BY <1>2 DEF SavingFormed
<1>4. entry[e] \in EntryRows BY <1>2 DEF DirectoryInv
<1>5. entry'[e] = Overwritten(entry[e], Changed(from, to))
      BY <1>1, <1>2, <1>3 DEF DirectoryInv, Writes
<1>6. \A f \in Entry \ {e} : entry'[f] = entry[f] BY <1>1 DEF DirectoryInv
<1>7. /\ entry'[e] \in EntryRows
      /\ \A c \in {"identifier", "made", "is_active", "works", "is_available"} :
           entry'[e][c] = IF to[c] # from[c] THEN to[c] ELSE entry[e][c]
      BY <1>4, <1>5, OverwrittenRow
<1>8. /\ Given(job) = IF to.identifier # from.identifier THEN to.identifier ELSE None
      /\ "identifier" \in DOMAIN job.columns <=> to.identifier # from.identifier
      BY <1>3, GivenIs
<1>9. entry'[e].identifier = IF to.identifier # from.identifier THEN Given(job)
                             ELSE entry[e].identifier
      BY <1>7, <1>8
<1>10. entry' \in [Entry -> EntryRows] BY <1>1, <1>2, <1>5, <1>7 DEF DirectoryInv
<1>11. saving'[p] = NotSaving /\ \A q \in Request \ {p} : saving'[q] = saving[q]
       BY <1>1 DEF DirectoryInv
<1>12. ASSUME to.identifier # from.identifier, Given(job) # None,
              directory = "customers" => Given(job) \notin shared
       PROVE  \A f \in Entry \ {e} : entry[f].identifier # Given(job)
  <2>1. CASE directory = "customers"
    <3>1. GivenIsFree(p) BY DEF DirectoryInv
    <3> QED BY <1>12, <2>1, <3>1 DEF GivenIsFree
  <2>2. CASE directory # "customers"
    <3>1. to.identifier # from.identifier => Unused(job.columns.identifier, e)
          BY <1>1, <1>8, <2>2 DEF KeysHold
    <3>2. to.identifier # from.identifier => job.columns.identifier = Given(job)
          BY <1>8 DEF Given
    <3> QED BY <1>12, <3>1, <3>2 DEF Unused
  <2> QED BY <2>1, <2>2
<1>13. ASSUME e \notin shared, directory = "workforce", entry'[e].is_available
       PROVE  entry'[e].works /\ entry'[e].is_active
  <2>1. from = entry[e] /\ Ready(to) BY <1>3, <1>13
  <2>2. /\ entry'[e].works = to.works /\ entry'[e].is_active = to.is_active
        /\ entry'[e].is_available = to.is_available
        BY <1>7, <2>1
  <2> QED BY <1>13, <2>1, <2>2 DEF Ready
<1> HIDE DEF job, e
<1>14. EntriesKnownApart'
  <2>1. ASSUME NEW f \in Entry, NEW g \in Entry, f # g, entry'[f].identifier = entry'[g].identifier,
               entry'[f].identifier # None, directory = "customers" => entry'[f].identifier \notin shared
        PROVE  FALSE
    <3>1. f # e /\ g # e => FALSE BY <1>6, <2>1 DEF DirectoryInv, EntriesKnownApart
    <3>2. ASSUME NEW h \in Entry, h # e, entry[h].identifier = entry'[e].identifier,
                 entry'[e].identifier # None,
                 directory = "customers" => entry'[e].identifier \notin shared
          PROVE  FALSE
      <4>1. CASE to.identifier # from.identifier BY <1>9, <1>12, <3>2, <4>1
      <4>2. CASE to.identifier = from.identifier
            BY <1>2, <1>9, <3>2, <4>2 DEF DirectoryInv, EntriesKnownApart
      <4> QED BY <4>1, <4>2
    <3> QED BY <1>2, <1>6, <2>1, <3>1, <3>2
  <2>2. ASSUME NEW f \in Entry \ shared, directory = "workforce", entry'[f].is_available
        PROVE  entry'[f].works /\ entry'[f].is_active
    <3>1. CASE f = e BY <1>13, <2>2, <3>1
    <3>2. CASE f # e BY <1>6, <2>2, <3>2 DEF DirectoryInv, EntriesKnownApart
    <3> QED BY <3>1, <3>2
  <2> QED BY <1>1, <2>1, <2>2 DEF EntriesKnownApart
<1>15. ASSUME NEW q \in Request \ {p}, saving[q] # NotSaving PROVE SavingFormed(q)'
  <2>1. SavingFormed(q) BY <1>15 DEF DirectoryInv
  <2>2. saving[q].entry \notin shared => saving[q].entry # e BY <2>1 DEF SavingFormed, e
  <2>3. saving'[p].entry = None /\ None \notin Entry BY <1>11, NothingGiven, DirectoryAssumption
  <2> QED BY <1>1, <1>6, <1>11, <2>1, <2>2, <2>3 DEF SavingFormed, Ready
<1>16. ASSUME NEW q \in Request PROVE GivenIsFree(q)'
  <2>1. GivenIsFree(q) /\ GivenIsFree(p) BY DEF DirectoryInv
  <2>2. Given(saving'[p]) = None BY <1>11, NothingGiven
  <2>3. q # p => saving'[q] = saving[q] BY <1>11
  <2>4. Given(job) = Given(saving[p]) BY DEF job
  <2> QED BY <1>1, <1>6, <1>9, <1>11, <2>1, <2>2, <2>3, <2>4 DEF GivenIsFree
<1> QED BY <1>1, <1>10, <1>11, <1>14, <1>15, <1>16 DEF DirectoryInv

LEMMA EntryAbandoned ==
    ASSUME DirectoryInv, NEW p \in Request, AbandonEntry(p)
    PROVE  DirectoryInv'
<1>1. /\ saving' = [saving EXCEPT ![p] = NotSaving]
      /\ UNCHANGED <<directory, entry, customerActive, shared>>
      BY DEF AbandonEntry
<1>2. saving'[p] = NotSaving /\ \A q \in Request \ {p} : saving'[q] = saving[q]
      BY <1>1 DEF DirectoryInv
<1>3. ASSUME NEW q \in Request \ {p}, saving[q] # NotSaving PROVE SavingFormed(q)'
  <2>1. SavingFormed(q) BY <1>3 DEF DirectoryInv
  <2>2. saving'[p].entry = None /\ None \notin Entry BY <1>2, NothingGiven, DirectoryAssumption
  <2> QED BY <1>1, <1>2, <2>1, <2>2 DEF SavingFormed, Ready
<1>4. ASSUME NEW q \in Request PROVE GivenIsFree(q)'
  <2>1. GivenIsFree(q) BY DEF DirectoryInv
  <2>2. Given(saving'[p]) = None BY <1>2, NothingGiven
  <2>3. q # p => saving'[q] = saving[q] BY <1>2
  <2> QED BY <1>1, <1>2, <2>1, <2>2, <2>3 DEF GivenIsFree
<1> QED BY <1>1, <1>2, <1>3, <1>4 DEF DirectoryInv, EntriesKnownApart

\* What the services ask for: the row an entry is made of, or the changes to it.
LEMMA RowsAskedFor ==
    ASSUME NEW row \in EntryRows, NEW id \in Identifier \cup {None},
           NEW works \in BOOLEAN, NEW available \in BOOLEAN
    PROVE  /\ NewEntry(id) \in EntryRows /\ NewEntry(id).identifier = id
           /\ ~NewEntry(id).is_available
           /\ [row EXCEPT !.identifier = id] \in EntryRows
           /\ [row EXCEPT !.identifier = id].identifier = id
           /\ Ready(row) => Ready([row EXCEPT !.identifier = id])
           /\ \A active \in BOOLEAN :
                /\ [row EXCEPT !.is_active = active] \in EntryRows
                /\ [row EXCEPT !.is_active = active].identifier = row.identifier
                /\ [row EXCEPT !.is_active = active].is_active = active
           /\ Working(row, works, available) \in EntryRows
           /\ Working(row, works, available).identifier = row.identifier
           /\ row.is_active \/ ~works => Ready(Working(row, works, available))
BY DEF NewEntry, NoEntry, Working, EntryRows, Ready

LEMMA DirectoryStep == DirectoryInv /\ [DirectoryNext]_directoryVars => DirectoryInv'
<1> SUFFICES ASSUME DirectoryInv, [DirectoryNext]_directoryVars PROVE DirectoryInv'
    OBVIOUS
<1>1. CASE UNCHANGED directoryVars
      BY <1>1 DEF directoryVars, DirectoryInv, EntriesKnownApart, SavingFormed, GivenIsFree, Ready
<1>2. CASE ToggleCustomer
      BY <1>2 DEF ToggleCustomer, DirectoryInv, EntriesKnownApart, SavingFormed, GivenIsFree, Ready
<1>3. ASSUME NEW p \in Request, CommitEntry(p) PROVE DirectoryInv' BY <1>3, EntryCommits
<1>4. ASSUME NEW p \in Request, AbandonEntry(p) PROVE DirectoryInv' BY <1>4, EntryAbandoned
<1>5. ASSUME NEW p \in Request, NEW e \in Entry, NEW id \in Identifier \cup {None},
             Naming(p, e, id)
      PROVE  DirectoryInv'
  <2>1. entry[e] \in EntryRows BY DEF DirectoryInv
  <2>2. CASE CreateEntry(p, e, NewEntry(id))
    <3>1. NewEntry(id) \in EntryRows /\ Ready(NewEntry(id)) BY <2>1, RowsAskedFor DEF Ready
    <3> QED BY <2>2, <3>1, SavingBegins DEF CreateEntry
  <2>3. CASE UpdateEntry(p, e, Renamed(e, id))
    <3>1. /\ Renamed(e, id) \in EntryRows
          /\ Ready(entry[e]) => Ready(Renamed(e, id))
          BY <2>1, RowsAskedFor DEF Renamed
    <3> QED BY <2>3, <3>1, SavingBegins DEF UpdateEntry
  <2>4. ASSUME NEW works \in BOOLEAN, NEW available \in BOOLEAN,
               CreateProfile(p, e, id, works, available)
        PROVE  DirectoryInv'
    <3> DEFINE row == Working(NewEntry(id), works, available)
    <3>1. NewEntry(id) \in EntryRows /\ NewEntry(id).is_active
          BY <2>1, RowsAskedFor DEF NewEntry, NoEntry
    <3>2. row \in EntryRows /\ Ready(row) BY <3>1, RowsAskedFor
    <3>3. CreateEntry(p, e, row) BY <2>4 DEF CreateProfile
    <3> HIDE DEF row
    <3> QED BY <3>2, <3>3, SavingBegins DEF CreateEntry
  <2>5. ASSUME NEW works \in BOOLEAN, NEW available \in BOOLEAN,
               UpdateProfile(p, e, id, works, available)
        PROVE  DirectoryInv'
    <3> DEFINE row == Working(Renamed(e, id), works, available)
    <3>1. UpdateEntry(p, e, row) BY <2>5 DEF UpdateProfile
    <3>2. Renamed(e, id) \in EntryRows BY <2>1, RowsAskedFor DEF Renamed
    <3>3. Renamed(e, id).is_active
          BY <2>1, <3>1 DEF Renamed, UpdateEntry, EntryRows
    <3>4. row \in EntryRows /\ Ready(row) BY <3>2, <3>3, RowsAskedFor
    <3> HIDE DEF row
    <3> QED BY <3>1, <3>4, SavingBegins DEF UpdateEntry
  <2> QED BY <1>5, <2>2, <2>3, <2>4, <2>5
          DEF Naming, CreateCustomer, CreateSite, CreateAsset, CreateSupplier, CreateLocation,
              CreateCatalogueItem, UpdateCustomer, UpdateSite, UpdateAsset, UpdateSupplier,
              UpdateLocation, UpdateCatalogueItem
<1>6. ASSUME NEW p \in Request, NEW e \in Entry, Removing(p, e) \/ Restoring(p, e)
      PROVE  DirectoryInv'
  <2>1. entry[e] \in EntryRows BY DEF DirectoryInv
  <2>2. ASSUME NEW active \in BOOLEAN, directory # "workforce",
               SaveEntry(p, e, [entry[e] EXCEPT !.is_active = active])
        PROVE  DirectoryInv'
    <3> DEFINE row == [entry[e] EXCEPT !.is_active = active]
    <3>1. row \in EntryRows /\ row.identifier = entry[e].identifier BY <2>1, RowsAskedFor
    <3>2. Ready(row) BY <2>2 DEF Ready
    <3> HIDE DEF row
    <3> QED BY <2>2, <3>1, <3>2, SavingBegins DEF row
  <2>3. ASSUME NEW active \in BOOLEAN,
               SaveEntry(p, e, Working([entry[e] EXCEPT !.is_active = active], active, active))
        PROVE  DirectoryInv'
    <3> DEFINE bare == [entry[e] EXCEPT !.is_active = active]
               row  == Working(bare, active, active)
    <3>1. bare \in EntryRows /\ bare.identifier = entry[e].identifier /\ bare.is_active = active
          BY <2>1 DEF EntryRows
    <3> HIDE DEF bare
    <3>2. row \in EntryRows /\ row.identifier = entry[e].identifier /\ Ready(row)
          BY <3>1, RowsAskedFor
    <3>3. SaveEntry(p, e, row) BY <2>3 DEF bare
    <3> HIDE DEF row
    <3> QED BY <3>2, <3>3, SavingBegins
  <2> QED BY <1>6, <2>2, <2>3
          DEF Removing, Restoring, DeactivateCustomer, DeactivateSite, DeactivateAsset,
              DeactivateProfile, DeactivateSupplier, DeactivateLocation, DeactivateCatalogueItem,
              ReactivateCustomer, ReactivateSite, ReactivateAsset, ReactivateProfile,
              ReactivateSupplier, ReactivateLocation, ReactivateCatalogueItem, DeactivateEntry,
              ReactivateEntry, Customers, CustomerExists, Assets, Profiles, Suppliers, Locations,
              Catalogue
<1> QED BY <1>1, <1>2, <1>3, <1>4, <1>5, <1>6 DEF DirectoryNext

\* For any entries and identifiers and any overlapping requests, no two rows of a directory
\* are known by the same, but customers whose requests overlapped, and a profile that cannot
\* work is not available unless requests on it overlapped.
THEOREM EntriesApart == DirectorySpec => []EntriesKnownApart
<1>1. DirectoryInv => EntriesKnownApart BY DEF DirectoryInv
<1> QED BY <1>1, DirectoryInitially, DirectoryStep, PTL DEF DirectorySpec

\* What requests shared are entries and identifiers.
LEMMA SharedIsKnown ==
    ASSUME DirectoryInv, shared \subseteq Entry \cup Identifier, [DirectoryNext]_directoryVars
    PROVE  shared' \subseteq Entry \cup Identifier
<1>1. ASSUME NEW p \in Request
      PROVE  Involved(saving[p]) \subseteq Entry \cup Identifier \cup {None}
  <2>1. CASE saving[p] = NotSaving BY <2>1 DEF NotSaving, Involved
  <2>2. CASE SavingFormed(p)
    <3>1. PICK from \in EntryRows, to \in EntryRows : Writes(saving[p], from, to)
          BY <2>2 DEF SavingFormed
    <3>2. Given(saving[p]) \in Identifier \cup {None}
          BY <3>1, GivenIs DEF EntryRows
    <3> QED BY <2>2, <3>2 DEF SavingFormed, Involved, Given
  <2> QED BY <2>1, <2>2 DEF DirectoryInv
<1>2. ASSUME NEW p \in Request, NEW e \in Entry, NEW to, SaveEntry(p, e, to)
      PROVE  shared' \subseteq Entry \cup Identifier
  <2> DEFINE all == UNION {Involved(saving[q]) : q \in Request}
  <2>1. all \subseteq Entry \cup Identifier \cup {None} BY <1>1
  <2>2. shared' \subseteq shared \cup (all \ {None}) BY <1>2 DEF SaveEntry
  <2> HIDE DEF all
  <2> QED BY <2>1, <2>2
<1>3. ASSUME NEW p \in Request, NEW e \in Entry, NEW id \in Identifier \cup {None}, Naming(p, e, id)
      PROVE  shared' \subseteq Entry \cup Identifier
      BY <1>2, <1>3
          DEF Naming, CreateCustomer, CreateSite, CreateAsset, CreateSupplier, CreateLocation,
              CreateCatalogueItem, UpdateCustomer, UpdateSite, UpdateAsset, UpdateSupplier,
              UpdateLocation, UpdateCatalogueItem, CreateProfile, UpdateProfile, CreateEntry,
              UpdateEntry
<1>4. ASSUME NEW p \in Request, NEW e \in Entry, Removing(p, e) \/ Restoring(p, e)
      PROVE  shared' \subseteq Entry \cup Identifier
      BY <1>2, <1>4
          DEF Removing, Restoring, DeactivateCustomer, DeactivateSite, DeactivateAsset,
              DeactivateProfile, DeactivateSupplier, DeactivateLocation, DeactivateCatalogueItem,
              ReactivateCustomer, ReactivateSite, ReactivateAsset, ReactivateProfile,
              ReactivateSupplier, ReactivateLocation, ReactivateCatalogueItem, DeactivateEntry,
              ReactivateEntry
<1> QED BY <1>3, <1>4 DEF DirectoryNext, CommitEntry, AbandonEntry, ToggleCustomer, directoryVars

\* Which directory it is stays as it began.
LEMMA DirectoryStays ==
    ASSUME directory \in Directories, customerActive \in BOOLEAN, [DirectoryNext]_directoryVars
    PROVE  directory' \in Directories /\ customerActive' \in BOOLEAN
<1>1. ASSUME NEW p \in Request, NEW e \in Entry, NEW to, SaveEntry(p, e, to)
      PROVE  UNCHANGED <<directory, customerActive>>
      BY <1>1 DEF SaveEntry
<1>2. ASSUME NEW p \in Request, NEW e \in Entry, NEW id \in Identifier \cup {None}, Naming(p, e, id)
      PROVE  UNCHANGED <<directory, customerActive>>
      BY <1>1, <1>2
          DEF Naming, CreateCustomer, CreateSite, CreateAsset, CreateSupplier, CreateLocation,
              CreateCatalogueItem, UpdateCustomer, UpdateSite, UpdateAsset, UpdateSupplier,
              UpdateLocation, UpdateCatalogueItem, CreateProfile, UpdateProfile, CreateEntry,
              UpdateEntry
<1>3. ASSUME NEW p \in Request, NEW e \in Entry, Removing(p, e) \/ Restoring(p, e)
      PROVE  UNCHANGED <<directory, customerActive>>
      BY <1>1, <1>3
          DEF Removing, Restoring, DeactivateCustomer, DeactivateSite, DeactivateAsset,
              DeactivateProfile, DeactivateSupplier, DeactivateLocation, DeactivateCatalogueItem,
              ReactivateCustomer, ReactivateSite, ReactivateAsset, ReactivateProfile,
              ReactivateSupplier, ReactivateLocation, ReactivateCatalogueItem, DeactivateEntry,
              ReactivateEntry
<1> QED BY <1>2, <1>3 DEF DirectoryNext, CommitEntry, AbandonEntry, ToggleCustomer, directoryVars

\* For any entries, identifiers and requests, in every directory: its rows, and what a save
\* under way makes of a new row, keep their types (customer_service.py and its siblings).
THEOREM DirectoryTyped == DirectorySpec => []DirectoryTypeOK
<1> DEFINE Steady == /\ directory \in Directories /\ customerActive \in BOOLEAN
                   /\ shared \subseteq Entry \cup Identifier
<1>1. DirectoryInit => Steady BY DEF DirectoryInit
<1>2. DirectoryInv /\ Steady /\ [DirectoryNext]_directoryVars => Steady'
      BY SharedIsKnown, DirectoryStays
<1>3. ASSUME DirectoryInv, Steady PROVE DirectoryTypeOK
  <2>1. ASSUME NEW p \in Request, saving[p] # NotSaving
        PROVE  saving[p].entry \in Entry /\ Overwritten(NoEntry, saving[p].columns) \in EntryRows
    <3>1. SavingFormed(p) BY <1>3, <2>1 DEF DirectoryInv
    <3>2. PICK from \in EntryRows, to \in EntryRows : Writes(saving[p], from, to)
          BY <3>1 DEF SavingFormed
    <3>3. NoEntry \in EntryRows BY DEF NoEntry, EntryRows
    <3>4. saving[p].columns = Changed(from, to) BY <3>2 DEF Writes
    <3> QED BY <3>1, <3>3, <3>4, OverwrittenRow DEF SavingFormed
  <2> QED BY <1>3, <2>1 DEF DirectoryInv, DirectoryTypeOK
<1> QED BY <1>1, <1>2, <1>3, DirectoryInitially, DirectoryStep, PTL DEF DirectorySpec

-----------------------------------------------------------------------------
(* Quotes.                                                                 *)

QuoteFields == {"status", "lines", "discount", "total", "valid_until", "work", "activities"}

Ending(life) == IF life = <<>> THEN "none" ELSE life[Len(life)]

QuoteSound(row) ==
    /\ DOMAIN row = QuoteFields
    /\ row.activities \in Lives /\ row.status = Ending(row.activities)
    /\ row.status \notin {"none", "draft"} =>
         row.total > 0 /\ row.total = QuoteSubtotal(row.lines) - row.discount
    /\ IF row.status = "converted" THEN row.work \in QuotedWork ELSE row.work = None

\* What an operation may make of a quote: a converted one stays as it is.
Continues(was, now) ==
    /\ was.status # "converted" /\ QuoteSound(now)
    /\ was.status \notin {"none", "draft"} =>
         /\ now.status \notin {"none", "draft"}
         /\ now.lines = was.lines /\ now.total = was.total

QuotingFormed(p) ==
    /\ quoting[p].quote \in Quote /\ quoteLock[quoting[p].quote] = p
    /\ Continues(quote[quoting[p].quote], quoting[p].row)
    /\ quoting[p].row.work # None =>
         /\ quotedWork[quoting[p].row.work] = None
         /\ \A r \in Request \ {p} : quoting[r].row.work # quoting[p].row.work

QuotesInv ==
    /\ DOMAIN quote = Quote
    /\ \A q \in Quote : QuoteSound(quote[q])
    /\ quotedWork \in [QuotedWork -> Quote \cup {None}]
    /\ \A w \in QuotedWork, q \in Quote : quotedWork[w] = q <=> quote[q].work = w
    /\ DOMAIN quoteLock = Quote
    /\ DOMAIN quoting = Request
    /\ \A p \in Request : quoting[p].quote # None => QuotingFormed(p)

-----------------------------------------------------------------------------
\* What a sequence is when an element is appended to it.
LEMMA LongerActivities ==
    ASSUME NEW S, NEW seq \in Seq(S), NEW to \in S, NEW longer \in Seq(S),
           Len(longer) = Len(seq) + 1, longer[Len(seq) + 1] = to,
           \A k \in 1 .. Len(seq) : longer[k] = seq[k]
    PROVE  Append(seq, to) = longer
<1> DEFINE made == Append(seq, to)
<1>1. /\ made \in Seq(S) /\ Len(made) = Len(seq) + 1
      /\ \A k \in 1 .. Len(seq) : made[k] = seq[k]
      /\ made[Len(seq) + 1] = to
      BY AppendProperties
<1> HIDE DEF made
<1>2. Len(seq) \in Nat OBVIOUS
<1>3. Len(made) = Len(longer) /\ \A k \in 1 .. Len(made) : made[k] = longer[k] BY <1>1, <1>2
<1>4. made = longer BY <1>1, <1>3, SeqEqual
<1> QED BY <1>4 DEF made

LEMMA LivesContinue ==
    ASSUME NEW life \in Lives
    PROVE  /\ \A to : Ending(Append(life, to)) = to
           /\ Ending(life) = "none" => Append(life, "draft") \in Lives
           /\ Ending(life) = "draft" => Append(life, "sent") \in Lives
           /\ Ending(life) = "sent" =>
                \A to \in {"accepted", "rejected", "expired"} : Append(life, to) \in Lives
           /\ Ending(life) = "accepted" => Append(life, "converted") \in Lives
<1>1. CASE life = <<>> BY <1>1 DEF Ending, Lives
<1>2. CASE life = <<"draft">>
  <2>1. Ending(life) = "draft" BY <1>2 DEF Ending
  <2>2. ASSUME NEW to PROVE Append(life, to) = <<"draft", to>>
    <3> DEFINE S == {"draft", "sent", "accepted", to}
               longer == <<"draft", to>>
    <3>1. life \in Seq(S) /\ to \in S /\ Len(life) = 1 BY <1>2
    <3>2. longer \in Seq(S) /\ Len(longer) = 2 /\ longer[2] = to OBVIOUS
    <3>3. \A k \in 1 .. 1 : longer[k] = life[k] BY <1>2
    <3> HIDE DEF S, longer
    <3>4. /\ Len(longer) = Len(life) + 1 /\ longer[Len(life) + 1] = to
          /\ \A k \in 1 .. Len(life) : longer[k] = life[k]
          BY <3>1, <3>2, <3>3
    <3>5. Append(life, to) = longer BY <3>1, <3>2, <3>4, LongerActivities
    <3> QED BY <3>5 DEF longer
  <2>3. \A to : Ending(<<"draft", to>>) = to BY DEF Ending
  <2> QED BY <2>1, <2>2, <2>3 DEF Lives
<1>3. CASE life = <<"draft", "sent">>
  <2>1. Ending(life) = "sent" BY <1>3 DEF Ending
  <2>2. ASSUME NEW to PROVE Append(life, to) = <<"draft", "sent", to>>
    <3> DEFINE S == {"draft", "sent", "accepted", to}
               longer == <<"draft", "sent", to>>
    <3>1. life \in Seq(S) /\ to \in S /\ Len(life) = 2 BY <1>3
    <3>2. longer \in Seq(S) /\ Len(longer) = 3 /\ longer[3] = to OBVIOUS
    <3>3. \A k \in 1 .. 2 : longer[k] = life[k] BY <1>3
    <3> HIDE DEF S, longer
    <3>4. /\ Len(longer) = Len(life) + 1 /\ longer[Len(life) + 1] = to
          /\ \A k \in 1 .. Len(life) : longer[k] = life[k]
          BY <3>1, <3>2, <3>3
    <3>5. Append(life, to) = longer BY <3>1, <3>2, <3>4, LongerActivities
    <3> QED BY <3>5 DEF longer
  <2>3. \A to : Ending(<<"draft", "sent", to>>) = to BY DEF Ending
  <2> QED BY <2>1, <2>2, <2>3 DEF Lives
<1>4. CASE life = <<"draft", "sent", "accepted">>
  <2>1. Ending(life) = "accepted" BY <1>4 DEF Ending
  <2>2. ASSUME NEW to PROVE Append(life, to) = <<"draft", "sent", "accepted", to>>
    <3> DEFINE S == {"draft", "sent", "accepted", to}
               longer == <<"draft", "sent", "accepted", to>>
    <3>1. life \in Seq(S) /\ to \in S /\ Len(life) = 3 BY <1>4
    <3>2. longer \in Seq(S) /\ Len(longer) = 4 /\ longer[4] = to OBVIOUS
    <3>3. \A k \in 1 .. 3 : longer[k] = life[k] BY <1>4
    <3> HIDE DEF S, longer
    <3>4. /\ Len(longer) = Len(life) + 1 /\ longer[Len(life) + 1] = to
          /\ \A k \in 1 .. Len(life) : longer[k] = life[k]
          BY <3>1, <3>2, <3>3
    <3>5. Append(life, to) = longer BY <3>1, <3>2, <3>4, LongerActivities
    <3> QED BY <3>5 DEF longer
  <2>3. \A to : Ending(<<"draft", "sent", "accepted", to>>) = to BY DEF Ending
  <2> QED BY <2>1, <2>2, <2>3 DEF Lives
<1>5. CASE life = <<"draft", "sent", "rejected">> BY <1>5 DEF Ending, Lives
<1>6. CASE life = <<"draft", "sent", "expired">> BY <1>6 DEF Ending, Lives
<1>7. CASE life = <<"draft", "sent", "accepted", "converted">> BY <1>7 DEF Ending, Lives
<1> QED BY <1>1, <1>2, <1>3, <1>4, <1>5, <1>6, <1>7 DEF Lives

LEMMA QuotesInitially == QuotesInit => QuotesInv
<1> SUFFICES ASSUME QuotesInit PROVE QuotesInv OBVIOUS
<1>1. QuoteSound(NoQuote) BY DEF QuoteSound, NoQuote, QuoteFields, Lives, Ending
<1>2. NoQuote.work = None BY DEF NoQuote
<1> QED BY <1>1, <1>2, QuotesAssumption DEF QuotesInit, QuotesInv, NoQuoting

\* An operation begins that is to continue a quote, and to convert it into nobody's work order.
LEMMA QuotingBegins ==
    ASSUME QuotesInv, NEW p \in Request, NEW q \in Quote, NEW row, LoadQuote(p, q, row),
           Continues(quote[q], row),
           row.work # None =>
             quotedWork[row.work] = None /\ \A r \in Request : quoting[r].row.work # row.work
    PROVE  QuotesInv' /\ UNCHANGED quote
<1>1. /\ UNCHANGED <<quote, quotedWork>>
      /\ DOMAIN quoting' = Request /\ quoting'[p] = [quote |-> q, row |-> row]
      /\ \A r \in Request \ {p} : quoting'[r] = quoting[r]
      BY DEF QuotesInv, LoadQuote
<1>2. /\ DOMAIN quoteLock' = Quote /\ quoteLock'[q] = p /\ quoteLock[q] = None
      /\ \A s \in Quote \ {q} : quoteLock'[s] = quoteLock[s]
      BY DEF QuotesInv, LoadQuote
<1>3. QuotingFormed(p)' BY <1>1, <1>2 DEF QuotingFormed, Continues, QuoteSound
<1>4. ASSUME NEW r \in Request \ {p}, quoting[r].quote # None PROVE QuotingFormed(r)'
  <2>1. QuotingFormed(r) BY <1>4 DEF QuotesInv
  <2>2. quoting[r].quote # q BY <1>2, <2>1, QuotesAssumption DEF QuotingFormed
  <2>3. quoting[r].row.work # None => quoting'[p].row.work # quoting[r].row.work
        BY <1>1
  <2>4. quoting'[r] = quoting[r] /\ quoteLock'[quoting[r].quote] = r
        BY <1>1, <1>2, <2>1, <2>2 DEF QuotingFormed
  <2>5. Continues(quote'[quoting'[r].quote], quoting'[r].row)
        BY <1>1, <2>1, <2>4 DEF QuotingFormed
  <2> QED BY <1>1, <2>1, <2>3, <2>4, <2>5 DEF QuotingFormed
<1> QED BY <1>1, <1>2, <1>3, <1>4 DEF QuotesInv

\* A draft is edited.
LEMMA QuoteEdited ==
    ASSUME QuotesInv, NEW p \in Request, NEW q \in Quote, NEW row, EditQuote(p, q, row),
           DOMAIN row = QuoteFields,
           row.status = quote[q].status, row.activities = quote[q].activities,
           row.work = quote[q].work
    PROVE  QuotesInv' /\ UNCHANGED quote
<1> DEFINE to == Recalculated(row)
<1>1. LoadQuote(p, q, to) /\ row.status = "draft" BY DEF EditQuote
<1>2. /\ DOMAIN to = QuoteFields /\ to.status = row.status /\ to.activities = row.activities
      /\ to.work = row.work
      BY DEF Recalculated, QuoteFields
<1>3. QuoteSound(quote[q]) BY DEF QuotesInv
<1>4. Continues(quote[q], to) /\ to.work = None
      BY <1>1, <1>2, <1>3 DEF Continues, QuoteSound
<1> HIDE DEF to
<1> QED BY <1>1, <1>4, QuotingBegins

\* A quote moves on, with the terms of row.
LEMMA QuoteMoves ==
    ASSUME QuotesInv, NEW p \in Request, NEW q \in Quote, NEW row, NEW to, Move(p, q, row, to),
           DOMAIN row = QuoteFields, row.activities = quote[q].activities,
           Append(row.activities, to) \in Lives,
           quote[q].status # "converted",
           to \notin {"none", "draft"} =>
             row.total > 0 /\ row.total = QuoteSubtotal(row.lines) - row.discount,
           quote[q].status \notin {"none", "draft"} =>
             to \notin {"none", "draft"} /\ row.lines = quote[q].lines /\ row.total = quote[q].total,
           IF to = "converted"
           THEN /\ row.work \in QuotedWork /\ quotedWork[row.work] = None
                /\ \A r \in Request : quoting[r].row.work # row.work
           ELSE row.work = None
    PROVE  QuotesInv' /\ UNCHANGED quote
<1> DEFINE made == [row EXCEPT !.status = to, !.activities = Append(row.activities, to)]
<1>1. LoadQuote(p, q, made) BY DEF Move
<1>2. /\ DOMAIN made = QuoteFields /\ made.status = to
      /\ made.activities = Append(row.activities, to)
      /\ made.lines = row.lines /\ made.total = row.total /\ made.discount = row.discount
      /\ made.work = row.work
      BY DEF QuoteFields
<1>3. row.activities \in Lives BY DEF QuotesInv, QuoteSound
<1>4. Ending(made.activities) = to BY <1>2, <1>3, LivesContinue
<1> HIDE DEF made
<1>5. QuoteSound(made) BY <1>2, <1>4 DEF QuoteSound
<1>6. Continues(quote[q], made) BY <1>2, <1>5 DEF Continues
<1> QED BY <1>1, <1>2, <1>6, QuotingBegins

LEMMA QuoteOperationKeeps ==
    ASSUME QuotesInv, NEW p \in Request, NEW q \in Quote, QuoteOperation(p, q)
    PROVE  QuotesInv' /\ UNCHANGED quote
<1> DEFINE was == quote[q]
<1>1. QuoteSound(was) BY DEF QuotesInv
<1>2. ASSUME NEW lines, NEW d, NEW until, CreateQuote(p, q, lines, d, until)
      PROVE  QuotesInv' /\ UNCHANGED quote
  <2> DEFINE bare == [NoQuote EXCEPT !.lines = lines, !.discount = d, !.valid_until = until]
             row  == Recalculated(bare)
  <2>1. was.status = "none" /\ Move(p, q, row, "draft") BY <1>2 DEF CreateQuote
  <2>2. was.activities = <<>>
        BY <1>1, <2>1 DEF QuoteSound, Ending, Lives
  <2>3. /\ DOMAIN row = QuoteFields /\ row.activities = <<>> /\ row.work = None
        BY DEF Recalculated, NoQuote, QuoteFields
  <2>4. Append(<<>>, "draft") \in Lives BY LivesContinue DEF Lives, Ending
  <2> HIDE DEF row
  <2> QED BY <2>1, <2>2, <2>3, <2>4, QuoteMoves
<1>3. ASSUME NEW d, NEW until, UpdateQuote(p, q, d, until)
      PROVE  QuotesInv' /\ UNCHANGED quote
  <2> DEFINE row == [was EXCEPT !.discount = d, !.valid_until = until]
  <2>1. /\ DOMAIN row = QuoteFields /\ row.status = was.status
        /\ row.activities = was.activities /\ row.work = was.work
        BY <1>1 DEF QuoteSound, QuoteFields
  <2>2. EditQuote(p, q, row) BY <1>3 DEF UpdateQuote
  <2> HIDE DEF row
  <2> QED BY <2>1, <2>2, QuoteEdited
<1>4. ASSUME NEW l \in QuoteLine, NEW a, EditQuote(p, q, [was EXCEPT !.lines[l] = a])
      PROVE  QuotesInv' /\ UNCHANGED quote
  <2> DEFINE row == [was EXCEPT !.lines[l] = a]
  <2>1. /\ DOMAIN row = QuoteFields /\ row.status = was.status
        /\ row.activities = was.activities /\ row.work = was.work
        BY <1>1 DEF QuoteSound, QuoteFields
  <2> HIDE DEF row
  <2> QED BY <1>4, <2>1, QuoteEdited DEF row
<1>5. CASE SendQuote(p, q)
  <2> DEFINE row == Recalculated(was)
  <2>1. was.status = "draft" /\ row.total > 0 /\ Move(p, q, row, "sent") BY <1>5 DEF SendQuote
  <2>2. /\ DOMAIN row = QuoteFields /\ row.activities = was.activities /\ row.work = was.work
        /\ row.total = QuoteSubtotal(row.lines) - row.discount
        BY <1>1 DEF Recalculated, QuoteSound, QuoteFields
  <2>3. was.work = None /\ Append(was.activities, "sent") \in Lives
        BY <1>1, <2>1, LivesContinue DEF QuoteSound
  <2> HIDE DEF row
  <2> QED BY <2>1, <2>2, <2>3, QuoteMoves
<1>6. ASSUME NEW to \in {"accepted", "rejected", "expired"}, Sent(q), Move(p, q, was, to)
      PROVE  QuotesInv' /\ UNCHANGED quote
  <2>1. was.status = "sent" BY <1>6 DEF Sent
  <2>2. was.work = None /\ Append(was.activities, to) \in Lives
        BY <1>1, <2>1, LivesContinue DEF QuoteSound
  <2>3. was.total > 0 /\ was.total = QuoteSubtotal(was.lines) - was.discount
        BY <1>1, <2>1 DEF QuoteSound
  <2> QED BY <1>1, <1>6, <2>1, <2>2, <2>3, QuoteMoves DEF QuoteSound
<1>7. ASSUME NEW w \in QuotedWork, ConvertQuote(p, q, w)
      PROVE  QuotesInv' /\ UNCHANGED quote
  <2> DEFINE row == [was EXCEPT !.work = w]
  <2>1. /\ was.status = "accepted" /\ Move(p, q, row, "converted") /\ quotedWork[w] = None
        /\ \A r \in Request : quoting[r].row.work # w
        BY <1>7 DEF ConvertQuote
  <2>2. /\ DOMAIN row = QuoteFields /\ row.activities = was.activities /\ row.work = w
        /\ row.lines = was.lines /\ row.total = was.total /\ row.discount = was.discount
        BY <1>1 DEF QuoteSound, QuoteFields
  <2>3. Append(was.activities, "converted") \in Lives
        BY <1>1, <2>1, LivesContinue DEF QuoteSound
  <2>4. was.total > 0 /\ was.total = QuoteSubtotal(was.lines) - was.discount
        BY <1>1, <2>1 DEF QuoteSound
  <2> HIDE DEF row
  <2> QED BY <2>1, <2>2, <2>3, <2>4, QuoteMoves
<1> QED BY <1>2, <1>3, <1>4, <1>5, <1>6, <1>7
        DEF QuoteOperation, AddQuoteLine, UpdateQuoteLine, RemoveQuoteLine, AcceptQuote,
            RejectQuote, ExpireQuote

\* A request ends, and lets go of its lock.
LEMMA QuotingEnds ==
    ASSUME QuotesInv, NEW p \in Request, EndQuoting(p), quoting[p].quote # None
    PROVE  /\ DOMAIN quoteLock' = Quote /\ DOMAIN quoting' = Request
           /\ quoting'[p].quote = None /\ quoting'[p].row.work = None
           /\ \A r \in Request \ {p} :
                /\ quoting'[r] = quoting[r]
                /\ quoting[r].quote # None =>
                     /\ quoteLock'[quoting[r].quote] = r
                     /\ quoting[r].quote # quoting[p].quote
<1>1. /\ DOMAIN quoting' = Request /\ quoting'[p] = NoQuoting
      /\ \A r \in Request \ {p} : quoting'[r] = quoting[r]
      BY DEF QuotesInv, EndQuoting
<1>2. /\ DOMAIN quoteLock' = Quote
      /\ \A q \in Quote : quoteLock[q] # p => quoteLock'[q] = quoteLock[q]
      BY DEF EndQuoting
<1>3. NoQuoting.quote = None /\ NoQuoting.row.work = None BY DEF NoQuoting, NoQuote
<1>4. quoteLock[quoting[p].quote] = p BY DEF QuotesInv, QuotingFormed
<1>5. \A r \in Request \ {p} : quoting[r].quote # None =>
         quoting[r].quote \in Quote /\ quoteLock[quoting[r].quote] = r
      BY DEF QuotesInv, QuotingFormed
<1> QED BY <1>1, <1>2, <1>3, <1>4, <1>5

LEMMA QuoteCommits ==
    ASSUME QuotesInv, NEW p \in Request, CommitQuote(p)
    PROVE  /\ QuotesInv'
           /\ \A q \in Quote : quote'[q] = quote[q] \/ Continues(quote[q], quote'[q])
<1> DEFINE q == quoting[p].quote
           row == quoting[p].row
<1>1. /\ q # None /\ EndQuoting(p)
      /\ quote' = [quote EXCEPT ![q] = row]
      /\ quotedWork' = [w \in QuotedWork |-> IF w = row.work THEN q ELSE quotedWork[w]]
      BY DEF CommitQuote
<1>2. QuotingFormed(p) BY <1>1 DEF QuotesInv
<1>3. /\ q \in Quote /\ Continues(quote[q], row) /\ QuoteSound(row)
      /\ quote[q].work = None
      BY <1>2 DEF QuotingFormed, Continues, QuotesInv, QuoteSound
<1>4. row.work # None =>
        quotedWork[row.work] = None /\ \A r \in Request \ {p} : quoting[r].row.work # row.work
      BY <1>2 DEF QuotingFormed
<1>5. /\ DOMAIN quoteLock' = Quote /\ DOMAIN quoting' = Request
      /\ quoting'[p].quote = None /\ quoting'[p].row.work = None
      /\ \A r \in Request \ {p} :
           /\ quoting'[r] = quoting[r]
           /\ quoting[r].quote # None => quoteLock'[quoting[r].quote] = r /\ quoting[r].quote # q
      BY <1>1, QuotingEnds
<1> HIDE DEF q, row
<1>6. /\ DOMAIN quote' = Quote /\ quote'[q] = row
      /\ \A s \in Quote \ {q} : quote'[s] = quote[s]
      BY <1>1, <1>3 DEF QuotesInv
<1>7. \A s \in Quote : QuoteSound(quote'[s]) BY <1>3, <1>6 DEF QuotesInv
<1>8. quotedWork' \in [QuotedWork -> Quote \cup {None}] BY <1>1, <1>3 DEF QuotesInv
<1>9. ASSUME NEW w \in QuotedWork, NEW s \in Quote
      PROVE  quotedWork'[w] = s <=> quote'[s].work = w
  <2>1. quotedWork[w] = s <=> quote[s].work = w BY DEF QuotesInv
  <2>2. CASE w = row.work
    <3>1. quotedWork'[w] = q /\ quotedWork[w] = None BY <1>1, <1>4, <2>2, QuotesAssumption
    <3>2. s # q => quote[s].work # w BY <2>1, <3>1, QuotesAssumption
    <3> QED BY <1>6, <2>2, <3>1, <3>2
  <2>3. CASE w # row.work
    <3>1. quotedWork'[w] = quotedWork[w] BY <1>1, <2>3
    <3>2. quotedWork[w] # q BY <1>3, QuotesAssumption DEF QuotesInv
    <3> QED BY <1>6, <2>1, <2>3, <3>1, <3>2
  <2> QED BY <2>2, <2>3
<1>10. ASSUME NEW r \in Request \ {p}, quoting[r].quote # None PROVE QuotingFormed(r)'
  <2>1. QuotingFormed(r) BY <1>10 DEF QuotesInv
  <2>2. quoting'[r] = quoting[r] /\ quoteLock'[quoting[r].quote] = r /\ quote'[quoting[r].quote] = quote[quoting[r].quote]
        BY <1>5, <1>6, <1>10, <2>1 DEF QuotingFormed
  <2>3. ASSUME quoting[r].row.work # None
        PROVE  /\ quotedWork'[quoting[r].row.work] = None
               /\ \A t \in Request \ {r} : quoting'[t].row.work # quoting[r].row.work
    <3>1. /\ quotedWork[quoting[r].row.work] = None
          /\ \A t \in Request \ {r} : quoting[t].row.work # quoting[r].row.work
          BY <2>1, <2>3 DEF QuotingFormed
    <3>2. quoting[r].row.work \in QuotedWork
          BY <2>1, <2>3 DEF QuotingFormed, Continues, QuoteSound
    <3>3. quoting[r].row.work # row.work BY <3>1 DEF row
    <3> QED BY <1>1, <1>5, <2>3, <3>1, <3>2, <3>3
  <2>4. Continues(quote'[quoting'[r].quote], quoting'[r].row) BY <2>1, <2>2 DEF QuotingFormed
  <2> QED BY <2>1, <2>2, <2>3, <2>4 DEF QuotingFormed
<1>11. \A s \in Quote : quote'[s] = quote[s] \/ Continues(quote[s], quote'[s])
       BY <1>3, <1>6
<1> QED BY <1>5, <1>6, <1>7, <1>8, <1>9, <1>10, <1>11 DEF QuotesInv

LEMMA QuoteAbandoned ==
    ASSUME QuotesInv, NEW p \in Request, AbandonQuote(p)
    PROVE  QuotesInv' /\ UNCHANGED quote
<1>1. EndQuoting(p) /\ UNCHANGED <<quote, quotedWork>> /\ quoting[p].quote # None
      BY DEF AbandonQuote
<1>2. /\ DOMAIN quoteLock' = Quote /\ DOMAIN quoting' = Request
      /\ quoting'[p].quote = None /\ quoting'[p].row.work = None
      /\ \A r \in Request \ {p} :
           /\ quoting'[r] = quoting[r]
           /\ quoting[r].quote # None => quoteLock'[quoting[r].quote] = r
      BY <1>1, QuotingEnds
<1>3. ASSUME NEW r \in Request \ {p}, quoting[r].quote # None PROVE QuotingFormed(r)'
  <2>1. QuotingFormed(r) BY <1>3 DEF QuotesInv
  <2>2. Continues(quote'[quoting'[r].quote], quoting'[r].row)
        BY <1>1, <1>2, <2>1 DEF QuotingFormed
  <2> QED BY <1>1, <1>2, <1>3, <2>1, <2>2 DEF QuotingFormed
<1> QED BY <1>1, <1>2, <1>3 DEF QuotesInv

LEMMA QuotesStep ==
    ASSUME QuotesInv, [QuotesNext]_quotesVars
    PROVE  /\ QuotesInv'
           /\ \A q \in Quote : quote'[q] = quote[q] \/ Continues(quote[q], quote'[q])
<1>1. CASE UNCHANGED quotesVars \/ DayPasses
  <2>1. UNCHANGED <<quote, quotedWork, quoteLock, quoting>> BY <1>1 DEF quotesVars, DayPasses
  <2>2. ASSUME NEW p \in Request, quoting[p].quote # None PROVE QuotingFormed(p)'
    <3>1. QuotingFormed(p) BY <2>2 DEF QuotesInv
    <3>2. Continues(quote'[quoting'[p].quote], quoting'[p].row) BY <2>1, <3>1 DEF QuotingFormed
    <3> QED BY <2>1, <3>1, <3>2 DEF QuotingFormed
  <2> QED BY <2>1, <2>2 DEF QuotesInv
<1>2. ASSUME NEW p \in Request, NEW q \in Quote, QuoteOperation(p, q)
      PROVE  QuotesInv' /\ UNCHANGED quote
      BY <1>2, QuoteOperationKeeps
<1>3. ASSUME NEW p \in Request, AbandonQuote(p) PROVE QuotesInv' /\ UNCHANGED quote
      BY <1>3, QuoteAbandoned
<1>4. ASSUME NEW p \in Request, CommitQuote(p)
      PROVE  /\ QuotesInv'
             /\ \A q \in Quote : quote'[q] = quote[q] \/ Continues(quote[q], quote'[q])
      BY <1>4, QuoteCommits
<1> QED BY <1>1, <1>2, <1>3, <1>4 DEF QuotesNext

-----------------------------------------------------------------------------
\* For any quotes, lines, prices, days and concurrent requests: what a quote was sent with it
\* is answered and converted with, and its total is that of its lines less the discount.
THEOREM SentQuotesStay == QuotesSpec => SentTermsStay
<1>1. ASSUME QuotesInv, [QuotesNext]_quotesVars
      PROVE  [\A q \in Quote : quote[q].status \notin {"none", "draft"} =>
                /\ quote'[q].status \notin {"none", "draft"}
                /\ quote'[q].lines = quote[q].lines
                /\ quote'[q].total = quote[q].total /\ quote[q].total > 0
                /\ quote[q].total = QuoteSubtotal(quote[q].lines) - quote[q].discount]_quotesVars
  <2>1. \A q \in Quote :
          /\ QuoteSound(quote[q])
          /\ quote'[q] = quote[q] \/ Continues(quote[q], quote'[q])
        BY <1>1, QuotesStep DEF QuotesInv
  <2> QED BY <2>1 DEF QuoteSound, Continues
<1>2. QuotesInv /\ [QuotesNext]_quotesVars => QuotesInv' BY QuotesStep
<1> QED BY <1>1, <1>2, QuotesInitially, PTL DEF QuotesSpec, SentTermsStay

\* For any of them too: the activities of a quote are one of the lives it may have, and it
\* has one work order, which no other quote has, when they end in its conversion.
THEOREM ActivitiesTell == QuotesSpec => []ActivitiesTellQuote
<1>1. QuotesInv => ActivitiesTellQuote
  <2> SUFFICES ASSUME QuotesInv, NEW q \in Quote
               PROVE  /\ quote[q].activities \in Lives
                      /\ quote[q].activities # <<>> =>
                           quote[q].status = quote[q].activities[Len(quote[q].activities)]
                      /\ IF quote[q].status = "converted"
                         THEN {w \in QuotedWork : quotedWork[w] = q} = {quote[q].work}
                         ELSE \A w \in QuotedWork : quotedWork[w] # q
      BY DEF ActivitiesTellQuote
  <2>1. QuoteSound(quote[q]) /\ \A w \in QuotedWork : quotedWork[w] = q <=> quote[q].work = w
        BY DEF QuotesInv
  <2> QED BY <2>1, QuotesAssumption DEF QuoteSound, Ending
<1>2. QuotesInv /\ [QuotesNext]_quotesVars => QuotesInv' BY QuotesStep
<1> QED BY <1>1, <1>2, QuotesInitially, PTL DEF QuotesSpec

LEMMA QuoteTotals == \A lines \in QuoteLines : QuoteSubtotal(lines) \in Nat
<1> SUFFICES ASSUME NEW lines \in QuoteLines PROVE QuoteSubtotal(lines) \in Nat OBVIOUS
<1>1. IsFiniteSet(QuoteLine) BY QuotesAssumption
<1>2. lines \in [QuoteLine -> Nat] BY DEF QuoteLines
<1> QED BY <1>1, <1>2, SumNat DEF QuoteSubtotal

\* A row whose total is computed again is a row.
LEMMA RecalculatedTyped ==
    ASSUME NEW row \in QuoteRows
    PROVE  Recalculated(row) \in QuoteRows
<1>1. row.lines \in QuoteLines /\ row.discount \in Nat BY DEF QuoteRows
<1>2. QuoteSubtotal(row.lines) - row.discount \in Int BY <1>1, QuoteTotals
<1> QED BY <1>2 DEF Recalculated, QuoteRows

LEMMA NoQuoteTyped == NoQuote \in QuoteRows /\ NoQuoting \in Quotings
<1>1. NoLine \in QuoteLines BY DEF NoLine, QuoteLines
<1>2. <<>> \in Seq(QuoteStatuses) OBVIOUS
<1>3. NoQuote \in QuoteRows BY <1>1, <1>2 DEF NoQuote, QuoteRows, QuoteStatuses
<1> QED BY <1>3 DEF NoQuoting, Quotings

\* An operation that loads the quote and is to write a row of its type keeps the types.
LEMMA QuoteLoadedTyped ==
    ASSUME QuotesTypeOK, NEW p \in Request, NEW q \in Quote, NEW row \in QuoteRows,
           LoadQuote(p, q, row)
    PROVE  QuotesTypeOK'
<1>1. [quote |-> q, row |-> row] \in Quotings BY DEF Quotings
<1> QED BY <1>1 DEF QuotesTypeOK, LoadQuote

LEMMA QuoteMovedTyped ==
    ASSUME QuotesTypeOK, NEW p \in Request, NEW q \in Quote, NEW row \in QuoteRows,
           NEW to \in QuoteStatuses, Move(p, q, row, to)
    PROVE  QuotesTypeOK'
<1> DEFINE made == [row EXCEPT !.status = to, !.activities = Append(@, to)]
<1>1. row.activities \in Seq(QuoteStatuses) BY DEF QuoteRows
<1>2. Append(row.activities, to) \in Seq(QuoteStatuses) BY <1>1
<1>3. made \in QuoteRows BY <1>2 DEF QuoteRows
<1>4. LoadQuote(p, q, made) BY DEF Move
<1> HIDE DEF made
<1> QED BY <1>3, <1>4, QuoteLoadedTyped

LEMMA QuoteEditedTyped ==
    ASSUME QuotesTypeOK, NEW p \in Request, NEW q \in Quote, NEW row \in QuoteRows,
           EditQuote(p, q, row)
    PROVE  QuotesTypeOK'
BY RecalculatedTyped, QuoteLoadedTyped DEF EditQuote

\* Every operation on a quote does.
LEMMA QuoteOperationTyped ==
    ASSUME QuotesTypeOK, NEW p \in Request, NEW q \in Quote, QuoteOperation(p, q)
    PROVE  QuotesTypeOK'
<1> DEFINE was == quote[q]
<1>0. was \in QuoteRows BY DEF QuotesTypeOK
<1>a. /\ {"draft", "sent", "accepted", "rejected", "expired", "converted"} \subseteq QuoteStatuses
      /\ 1 .. MaxQuoted \subseteq Nat /\ 0 .. MaxQuoted \subseteq Nat /\ 0 .. LastDay \subseteq Nat
      BY QuotesAssumption DEF QuoteStatuses
<1>1. ASSUME NEW lines \in QuoteLines, NEW d \in Nat, NEW until \in Nat,
             CreateQuote(p, q, lines, d, until)
      PROVE  QuotesTypeOK'
  <2> DEFINE row == [NoQuote EXCEPT !.lines = lines, !.discount = d, !.valid_until = until]
  <2>1. row \in QuoteRows BY NoQuoteTyped DEF QuoteRows
  <2>2. Move(p, q, Recalculated(row), "draft") BY <1>1 DEF CreateQuote
  <2> HIDE DEF row
  <2> QED BY <2>1, <2>2, <1>a, RecalculatedTyped, QuoteMovedTyped
<1>2. ASSUME NEW d \in Nat, NEW until \in Nat, UpdateQuote(p, q, d, until)
      PROVE  QuotesTypeOK'
  <2> DEFINE row == [was EXCEPT !.discount = d, !.valid_until = until]
  <2>1. row \in QuoteRows BY <1>0 DEF QuoteRows
  <2>2. EditQuote(p, q, row) BY <1>2 DEF UpdateQuote
  <2> HIDE DEF row
  <2> QED BY <2>1, <2>2, QuoteEditedTyped
<1>3. ASSUME NEW l \in QuoteLine, NEW a \in Nat, EditQuote(p, q, [was EXCEPT !.lines[l] = a])
      PROVE  QuotesTypeOK'
  <2> DEFINE row == [was EXCEPT !.lines[l] = a]
  <2>1. row.lines = [was.lines EXCEPT ![l] = a] /\ was.lines \in QuoteLines
        BY <1>0 DEF QuoteRows
  <2>2. row.lines \in QuoteLines BY <2>1 DEF QuoteLines
  <2>3. row \in QuoteRows BY <1>0, <2>2 DEF QuoteRows
  <2>4. EditQuote(p, q, row) BY <1>3
  <2> HIDE DEF row
  <2> QED BY <2>3, <2>4, QuoteEditedTyped
<1>4. CASE SendQuote(p, q)
  <2>1. Move(p, q, Recalculated(was), "sent") BY <1>4 DEF SendQuote
  <2> QED BY <2>1, <1>0, <1>a, RecalculatedTyped, QuoteMovedTyped
<1>5. CASE AcceptQuote(p, q) \/ RejectQuote(p, q) \/ ExpireQuote(p, q)
  <2>1. PICK to \in QuoteStatuses : Move(p, q, was, to)
        BY <1>5, <1>a DEF AcceptQuote, RejectQuote, ExpireQuote
  <2> QED BY <2>1, <1>0, QuoteMovedTyped
<1>6. ASSUME NEW w \in QuotedWork, ConvertQuote(p, q, w) PROVE QuotesTypeOK'
  <2> DEFINE row == [was EXCEPT !.work = w]
  <2>1. row \in QuoteRows BY <1>0 DEF QuoteRows
  <2>2. Move(p, q, row, "converted") BY <1>6 DEF ConvertQuote
  <2> HIDE DEF row
  <2> QED BY <2>1, <2>2, <1>a, QuoteMovedTyped
<1>7. /\ NoLine \in QuoteLines
      /\ \A l \in QuoteLine, a \in Nat : [NoLine EXCEPT ![l] = a] \in QuoteLines
      BY DEF NoLine, QuoteLines
<1>8. ASSUME NEW d \in 0 .. MaxQuoted, NEW until \in 0 .. LastDay,
             \/ CreateQuote(p, q, NoLine, d, until)
             \/ \E l \in QuoteLine, a \in 1 .. MaxQuoted :
                  CreateQuote(p, q, [NoLine EXCEPT ![l] = a], d, until)
             \/ UpdateQuote(p, q, d, until)
      PROVE  QuotesTypeOK'
  <2>1. d \in Nat /\ until \in Nat BY <1>a
  <2>2. CASE CreateQuote(p, q, NoLine, d, until) BY <2>1, <2>2, <1>1, <1>7
  <2>3. ASSUME NEW l \in QuoteLine, NEW a \in 1 .. MaxQuoted,
               CreateQuote(p, q, [NoLine EXCEPT ![l] = a], d, until)
        PROVE  QuotesTypeOK'
    <3>1. a \in Nat BY <1>a
    <3> QED BY <3>1, <2>1, <2>3, <1>1, <1>7
  <2>4. CASE UpdateQuote(p, q, d, until) BY <2>1, <2>4, <1>2
  <2> QED BY <1>8, <2>2, <2>3, <2>4
<1>9. ASSUME NEW l \in QuoteLine,
             \/ \E a \in 1 .. MaxQuoted : AddQuoteLine(p, q, l, a) \/ UpdateQuoteLine(p, q, l, a)
             \/ RemoveQuoteLine(p, q, l)
      PROVE  QuotesTypeOK'
  <2>1. \E a \in Nat : EditQuote(p, q, [was EXCEPT !.lines[l] = a])
        BY <1>9, <1>a DEF AddQuoteLine, UpdateQuoteLine, RemoveQuoteLine
  <2> QED BY <2>1, <1>3
<1> HIDE DEF was
<1> QED BY <1>4, <1>5, <1>6, <1>8, <1>9 DEF QuoteOperation

LEMMA QuotingEndsTyped ==
    ASSUME QuotesTypeOK, NEW p \in Request, EndQuoting(p)
    PROVE  /\ today' \in 1 .. LastDay /\ quoteLock' \in [Quote -> Request \cup {None}]
           /\ quoting' \in [Request -> Quotings]
<1>1. quoting' \in [Request -> Quotings] BY NoQuoteTyped DEF QuotesTypeOK, EndQuoting
<1>2. quoteLock' \in [Quote -> Request \cup {None}] BY DEF QuotesTypeOK, EndQuoting
<1> QED BY <1>1, <1>2 DEF QuotesTypeOK, EndQuoting

LEMMA QuotesStayTyped == QuotesTypeOK /\ [QuotesNext]_quotesVars => QuotesTypeOK'
<1> SUFFICES ASSUME QuotesTypeOK, [QuotesNext]_quotesVars PROVE QuotesTypeOK' OBVIOUS
<1>1. ASSUME NEW p \in Request, CommitQuote(p) PROVE QuotesTypeOK'
  <2> DEFINE q == quoting[p].quote
             row == quoting[p].row
  <2>1. quoting[p] \in Quotings /\ q # None BY <1>1 DEF QuotesTypeOK, CommitQuote
  <2>2. q \in Quote /\ row \in QuoteRows BY <2>1 DEF Quotings
  <2>3. /\ quote' = [quote EXCEPT ![q] = row]
        /\ quotedWork' = [w \in QuotedWork |-> IF w = row.work THEN q ELSE quotedWork[w]]
        /\ EndQuoting(p)
        BY <1>1 DEF CommitQuote
  <2> HIDE DEF q, row
  <2>4. quote' \in [Quote -> QuoteRows] BY <2>2, <2>3 DEF QuotesTypeOK
  <2>5. quotedWork' \in [QuotedWork -> Quote \cup {None}] BY <2>2, <2>3 DEF QuotesTypeOK
  <2> QED BY <2>3, <2>4, <2>5, QuotingEndsTyped DEF QuotesTypeOK
<1>2. ASSUME NEW p \in Request, AbandonQuote(p) PROVE QuotesTypeOK'
  <2>1. EndQuoting(p) /\ quote' = quote /\ quotedWork' = quotedWork BY <1>2 DEF AbandonQuote
  <2> QED BY <2>1, QuotingEndsTyped DEF QuotesTypeOK
<1>3. CASE DayPasses BY <1>3, QuotesAssumption DEF QuotesTypeOK, DayPasses
<1>4. CASE UNCHANGED quotesVars BY <1>4 DEF QuotesTypeOK, quotesVars
<1> QED BY <1>1, <1>2, <1>3, <1>4, QuoteOperationTyped DEF QuotesNext

\* For any quotes, lines, prices, days and requests: quotes with their totals and activities,
\* the work orders made of them and what every request is to write keep their types
\* (quote_service.py).
THEOREM QuotesTyped == QuotesSpec => []QuotesTypeOK
<1>1. QuotesInit => QuotesTypeOK
      BY NoQuoteTyped, QuotesAssumption DEF QuotesInit, QuotesTypeOK
<1> QED BY <1>1, QuotesStayTyped, PTL DEF QuotesSpec
=============================================================================
