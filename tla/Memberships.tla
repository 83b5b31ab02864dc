---------------------------- MODULE Memberships ----------------------------
(***************************************************************************)
(* The members of one organization and their roles.  A request reads the   *)
(* memberships it needs without locking them, checks, and commits; the     *)
(* Owners are counted in between.  contested remembers that two requests   *)
(* which each change or remove a membership overlapped: both may take the  *)
(* role of an Owner, or one may remove whom the other makes an Owner.      *)
(***************************************************************************)
EXTENDS Requests

CONSTANTS
    User,     \* active users
    Founder   \* who created the organization, as its Owner

ASSUME MembershipsAssumption == Founder \in User /\ None \notin Request \cup User

VARIABLES
    role,      \* memberships: the role of each user, "none" for no row
    changing,  \* per request: the membership to change, and the role it is to have
    contested

membershipsVars == <<role, changing, contested>>

Roles       == {"none", "member", "owner"}  \* member: any role that is not Owner
RoleChanges == [user : User \cup {None}, from : Roles, to : Roles]
NoChange    == [user |-> None, from |-> "none", to |-> "none"]

MembershipsTypeOK ==
    /\ role \in [User -> Roles]
    /\ changing \in [Request -> RoleChanges]
    /\ contested \in BOOLEAN

MembershipsInit ==
    /\ role = [u \in User |-> IF u = Founder THEN "owner" ELSE "none"]
    /\ changing = [p \in Request |-> NoChange]
    /\ contested = FALSE

-----------------------------------------------------------------------------
\* Mutated form: Owners are not counted.
OwnerLeaves(u) == TRUE

NotSoleOwner(u) == \E v \in User \ {u} : role[v] = "owner"

Disowns(w) == w.from = "owner" /\ w.to # "owner"
Alters(w)  == w.from # "none"

\* requester asks that u have the role `to'.
BeginChange(p, requester, u, to) ==
    LET w == [user |-> u, from |-> role[u], to |-> to]
    IN /\ changing[p].user = None
       /\ role[requester] # "none"
       /\ "owner" \in {w.from, to} => role[requester] = "owner"
       /\ Disowns(w) => NotSoleOwner(u)
       /\ changing' = [changing EXCEPT ![p] = w]
       /\ contested' = (contested \/ (Alters(w) /\ \E q \in Request : Alters(changing[q])))
       /\ UNCHANGED role

AddMember(p, requester, u, to) ==
    role[u] = "none" /\ to # "none" /\ BeginChange(p, requester, u, to)

UpdateMemberRole(p, requester, u, to) ==
    role[u] # "none" /\ to \notin {"none", role[u]} /\ BeginChange(p, requester, u, to)

RemoveMember(p, requester, u) == role[u] # "none" /\ BeginChange(p, requester, u, "none")

\* Ends p; a removal also ends the rivals, which find the row of u gone.
EndChange(p, u) ==
    changing' = [q \in Request |-> IF q = p \/ changing[q].user = u THEN NoChange ELSE changing[q]]

\* A second row of u is refused by the unique key, an update of no row by the session.
CommitChange(p) ==
    LET w == changing[p]
    IN /\ w.user # None
       /\ (w.from = "none") = (role[w.user] = "none")
       /\ role' = [role EXCEPT ![w.user] = w.to]
       /\ EndChange(p, IF w.to = "none" THEN w.user ELSE None) /\ UNCHANGED contested

AbandonChange(p) ==
    /\ changing[p].user # None
    /\ EndChange(p, None) /\ UNCHANGED <<role, contested>>

-----------------------------------------------------------------------------
MembershipsNext ==
    \E p \in Request :
        \/ \E requester, u \in User :
             \/ \E to \in Roles : AddMember(p, requester, u, to) \/ UpdateMemberRole(p, requester, u, to)
             \/ RemoveMember(p, requester, u)
        \/ CommitChange(p) \/ AbandonChange(p)

MembershipsSpec == MembershipsInit /\ [][MembershipsNext]_membershipsVars

-----------------------------------------------------------------------------
(* Properties.                                                             *)

\* "Prevent removal or demotion of the sole Owner": the organization keeps an Owner, unless
\* two requests that change or remove memberships overlapped.
OwnerStays == ~contested => \E u \in User : role[u] = "owner"
=============================================================================
