----------------------------- MODULE Directory -----------------------------
(***************************************************************************)
(* The directories of an organization: customers, their sites, assets,     *)
(* workforce profiles, suppliers, and the locations and items of the       *)
(* inventory.  What an entry is known by (e-mail, site code, asset code or *)
(* serial number, employee code, supplier code, tax or registration        *)
(* number, location code, SKU or barcode) is looked up before it is taken. *)
(* All but the e-mail of a customer are unique keys of the database too.   *)
(*                                                                         *)
(* The directories share no rows, so a behaviour is one of one directory.  *)
(***************************************************************************)
EXTENDS Requests

CONSTANTS
    Entry,       \* rows a directory may have
    Identifier   \* what they may be known by

ASSUME DirectoryAssumption == None \notin Request \cup Entry \cup Identifier

VARIABLES
    directory,       \* which of them
    entry,           \* its rows
    customerActive,  \* of sites: is their customer?
    saving,          \* per request: the row, and the columns it is to commit
    shared           \* rows and identifiers that two requests were saving at once

directoryVars == <<directory, entry, customerActive, saving, shared>>

Directories == {"customers", "sites", "assets", "workforce", "suppliers",
                "locations", "items"}
EntryRows   == [identifier : Identifier \cup {None}, made : BOOLEAN, is_active : BOOLEAN,
                works : BOOLEAN,          \* of a profile: is its status active?
                is_available : BOOLEAN]   \* of a profile
NoEntry     == [identifier |-> None, made |-> FALSE, is_active |-> FALSE, works |-> FALSE,
                is_available |-> FALSE]
NotSaving   == [entry |-> None, columns |-> <<>>]

DirectoryTypeOK ==
    /\ directory \in Directories
    /\ entry \in [Entry -> EntryRows]
    /\ customerActive \in BOOLEAN
    /\ \A p \in Request : saving[p] # NotSaving =>
         saving[p].entry \in Entry /\ Overwritten(NoEntry, saving[p].columns) \in EntryRows
    /\ shared \subseteq Entry \cup Identifier

DirectoryInit ==
    /\ directory \in Directories
    /\ entry = [e \in Entry |-> NoEntry]
    /\ customerActive = TRUE
    /\ saving = [p \in Request |-> NotSaving]
    /\ shared = {}

-----------------------------------------------------------------------------
\* Mutated form: only active rows are looked up.
FreeAmongActive(id, e) ==
    id = None \/ \A f \in Entry \ {e} : entry[f].is_active => entry[f].identifier # id

Unused(id, e) == id = None \/ \A f \in Entry \ {e} : entry[f].identifier # id

Involved(job) ==
    {job.entry} \cup (IF "identifier" \in DOMAIN job.columns THEN {job.columns.identifier} ELSE {})

\* p is to make the row of e `to', and will write the columns in which it differs.
SaveEntry(p, e, to) ==
    LET job == [entry |-> e, columns |-> Changed(entry[e], to)]
    IN /\ saving[p] = NotSaving /\ to # entry[e]
       /\ saving' = [saving EXCEPT ![p] = job]
       /\ shared' = shared \cup ((Involved(job) \cap UNION {Involved(saving[q]) : q \in Request})
                                   \ {None})
       /\ UNCHANGED <<directory, entry, customerActive>>

NobodySaves(e) == \A q \in Request : saving[q].entry # e

NewEntry(id) == [NoEntry EXCEPT !.identifier = id, !.made = TRUE, !.is_active = TRUE]

CreateEntry(p, e, row) ==
    entry[e] = NoEntry /\ Unused(row.identifier, e) /\ SaveEntry(p, e, row)

Renamed(e, id) == [entry[e] EXCEPT !.identifier = id]

UpdateEntry(p, e, row) ==
    /\ entry[e].is_active
    /\ row.identifier # entry[e].identifier => Unused(row.identifier, e)
    /\ SaveEntry(p, e, row)

DeactivateEntry(p, e) ==
    entry[e].is_active /\ SaveEntry(p, e, [entry[e] EXCEPT !.is_active = FALSE])

Removed(e) == entry[e].made /\ ~entry[e].is_active

ReactivateEntry(p, e) ==
    Removed(e) /\ SaveEntry(p, e, [entry[e] EXCEPT !.is_active = TRUE])

-----------------------------------------------------------------------------
(* Customers; and their sites, which want them active but stay as they are *)
(* when they are not.                                                      *)

Customers == directory = "customers"

CreateCustomer(p, e, id)  == Customers /\ NobodySaves(e) /\ CreateEntry(p, e, NewEntry(id))
UpdateCustomer(p, e, id)  == Customers /\ UpdateEntry(p, e, Renamed(e, id))
DeactivateCustomer(p, e)  == Customers /\ DeactivateEntry(p, e)
ReactivateCustomer(p, e)  == Customers /\ ReactivateEntry(p, e)

CustomerExists == directory = "sites" /\ customerActive

CreateSite(p, e, id)  == CustomerExists /\ NobodySaves(e) /\ CreateEntry(p, e, NewEntry(id))
UpdateSite(p, e, id)  == CustomerExists /\ UpdateEntry(p, e, Renamed(e, id))
DeactivateSite(p, e)  == CustomerExists /\ DeactivateEntry(p, e)
ReactivateSite(p, e)  == CustomerExists /\ ReactivateEntry(p, e)

ToggleCustomer ==
    /\ directory = "sites" /\ customerActive' = ~customerActive
    /\ UNCHANGED <<directory, entry, saving, shared>>

-----------------------------------------------------------------------------
(* Assets.  Their condition and status follow no rule.                     *)

Assets == directory = "assets"

CreateAsset(p, e, id)  == Assets /\ NobodySaves(e) /\ CreateEntry(p, e, NewEntry(id))
UpdateAsset(p, e, id)  == Assets /\ UpdateEntry(p, e, Renamed(e, id))
DeactivateAsset(p, e)  == Assets /\ DeactivateEntry(p, e)
ReactivateAsset(p, e)  == Assets /\ ReactivateEntry(p, e)

-----------------------------------------------------------------------------
(* Workforce profiles: one that does not work is not available.            *)

Profiles == directory = "workforce"

Working(row, works, available) ==
    [row EXCEPT !.works = works, !.is_available = works /\ available]

\* A profile is made of a membership, which has one: two requests may make the same.
CreateProfile(p, e, id, works, available) ==
    Profiles /\ CreateEntry(p, e, Working(NewEntry(id), works, available))

UpdateProfile(p, e, id, works, available) ==
    Profiles /\ UpdateEntry(p, e, Working(Renamed(e, id), works, available))

DeactivateProfile(p, e) ==
    /\ Profiles /\ entry[e].is_active
    /\ SaveEntry(p, e, Working([entry[e] EXCEPT !.is_active = FALSE], FALSE, FALSE))

ReactivateProfile(p, e) ==
    /\ Profiles /\ Removed(e)
    /\ SaveEntry(p, e, Working([entry[e] EXCEPT !.is_active = TRUE], TRUE, TRUE))

-----------------------------------------------------------------------------
(* Suppliers, locations and items: these rows are locked, from the read to *)
(* the commit.  Whether a location or an item has stock or reservations,   *)
(* and may not be deactivated, is the Inventory's.                         *)

Locked(e) == ~NobodySaves(e)

Suppliers == directory = "suppliers"

CreateSupplier(p, e, id)  == Suppliers /\ NobodySaves(e) /\ CreateEntry(p, e, NewEntry(id))
UpdateSupplier(p, e, id)  == Suppliers /\ ~Locked(e) /\ UpdateEntry(p, e, Renamed(e, id))
DeactivateSupplier(p, e)  == Suppliers /\ ~Locked(e) /\ DeactivateEntry(p, e)
ReactivateSupplier(p, e)  == Suppliers /\ ~Locked(e) /\ ReactivateEntry(p, e)

Locations == directory = "locations"

CreateLocation(p, e, id)  == Locations /\ NobodySaves(e) /\ CreateEntry(p, e, NewEntry(id))
UpdateLocation(p, e, id)  == Locations /\ ~Locked(e) /\ UpdateEntry(p, e, Renamed(e, id))
DeactivateLocation(p, e)  == Locations /\ ~Locked(e) /\ DeactivateEntry(p, e)
ReactivateLocation(p, e)  == Locations /\ ~Locked(e) /\ ReactivateEntry(p, e)

Catalogue == directory = "items"

CreateCatalogueItem(p, e, id)  == Catalogue /\ NobodySaves(e) /\ CreateEntry(p, e, NewEntry(id))
UpdateCatalogueItem(p, e, id)  == Catalogue /\ ~Locked(e) /\ UpdateEntry(p, e, Renamed(e, id))
DeactivateCatalogueItem(p, e)  == Catalogue /\ ~Locked(e) /\ DeactivateEntry(p, e)
ReactivateCatalogueItem(p, e)  == Catalogue /\ ~Locked(e) /\ ReactivateEntry(p, e)

-----------------------------------------------------------------------------
(* The end of a request.                                                   *)

\* The unique keys; a customer has none but its id.
KeysHold(e, columns) ==
    /\ "made" \in DOMAIN columns => ~entry[e].made
    /\ "identifier" \in DOMAIN columns => directory = "customers" \/ Unused(columns.identifier, e)

CommitEntry(p) ==
    LET job == saving[p]
    IN /\ job # NotSaving
       /\ KeysHold(job.entry, job.columns)
       /\ entry' = [entry EXCEPT ![job.entry] = Overwritten(@, job.columns)]
       /\ saving' = [saving EXCEPT ![p] = NotSaving]
       /\ UNCHANGED <<directory, customerActive, shared>>

\* A key does not hold, another check fails, or the process dies.
AbandonEntry(p) ==
    /\ saving[p] # NotSaving
    /\ saving' = [saving EXCEPT ![p] = NotSaving]
    /\ UNCHANGED <<directory, entry, customerActive, shared>>

-----------------------------------------------------------------------------
Naming(p, e, id) ==
    \/ CreateCustomer(p, e, id) \/ CreateSite(p, e, id) \/ CreateAsset(p, e, id)
    \/ CreateSupplier(p, e, id) \/ CreateLocation(p, e, id) \/ CreateCatalogueItem(p, e, id)
    \/ UpdateCustomer(p, e, id) \/ UpdateSite(p, e, id) \/ UpdateAsset(p, e, id)
    \/ UpdateSupplier(p, e, id) \/ UpdateLocation(p, e, id) \/ UpdateCatalogueItem(p, e, id)
    \/ \E works, available \in BOOLEAN :
         CreateProfile(p, e, id, works, available) \/ UpdateProfile(p, e, id, works, available)

Removing(p, e) ==
    \/ DeactivateCustomer(p, e) \/ DeactivateSite(p, e) \/ DeactivateAsset(p, e)
    \/ DeactivateProfile(p, e) \/ DeactivateSupplier(p, e) \/ DeactivateLocation(p, e)
    \/ DeactivateCatalogueItem(p, e)

Restoring(p, e) ==
    \/ ReactivateCustomer(p, e) \/ ReactivateSite(p, e) \/ ReactivateAsset(p, e)
    \/ ReactivateProfile(p, e) \/ ReactivateSupplier(p, e) \/ ReactivateLocation(p, e)
    \/ ReactivateCatalogueItem(p, e)

DirectoryNext ==
    \/ \E p \in Request, e \in Entry :
         \/ \E id \in Identifier \cup {None} : Naming(p, e, id)
         \/ Removing(p, e) \/ Restoring(p, e)
    \/ \E p \in Request : CommitEntry(p) \/ AbandonEntry(p)
    \/ ToggleCustomer

DirectorySpec == DirectoryInit /\ [][DirectoryNext]_directoryVars

-----------------------------------------------------------------------------
(* Properties.                                                             *)

\* No two rows of a directory, active or not, are known by the same, but customers whose
\* requests overlapped; and a profile that does not work, or that was removed, is not
\* available to the scheduler, unless requests on it overlapped.
EntriesKnownApart ==
    /\ \A e, f \in Entry :
         e # f /\ entry[e].identifier = entry[f].identifier =>
            entry[e].identifier \in {None} \cup IF directory = "customers" THEN shared ELSE {}
    /\ \A e \in Entry \ shared :
         directory = "workforce" /\ entry[e].is_available => entry[e].works /\ entry[e].is_active
=============================================================================
