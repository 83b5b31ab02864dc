----------------------------- MODULE Positions -----------------------------
(***************************************************************************)
(* The ordered lists of a work order: its checklist, and the attachments   *)
(* of a note.  A position is looked up, or counted, before it is taken; in *)
(* a checklist it is a unique key of the database as well, which is why a  *)
(* reorder goes through temporary positions, flushed in the transaction    *)
(* that then writes the final ones.  A behaviour is one of one list.       *)
(***************************************************************************)
EXTENDS Requests, Integers, Sequences, FiniteSetsExt

CONSTANTS
    Item,        \* items a list may have
    MaxPosition  \* bound: positions asked for

ASSUME PositionsAssumption ==
    /\ IsFiniteSet(Item) /\ MaxPosition \in Nat
    /\ None \notin Request \cup Item /\ None \notin Nat

VARIABLES
    list,      \* which list
    position,  \* of each item, None where there is no item
    active,    \* is_active, of the items
    placing,   \* per request: what it does
    doubled,   \* positions two requests were about to give to new attachments at once
    refused    \* a request that nobody disturbed found a position taken

positionsVars == <<list, position, active, placing, doubled, refused>>

Placings   == [step : {"none", "add", "reorder", "temporary"}, item : Item \cup {None}, at : Nat,
               order : Seq(Item),
               seen : [Item -> Nat \cup {None}],  \* the positions that were loaded
               flushed : [Item -> Nat \cup {None}],
               alone : BOOLEAN]                   \* did nobody else commit since?
Nowhere    == [i \in Item |-> None]
NotPlacing == [step |-> "none", item |-> None, at |-> 0, order |-> <<>>, seen |-> Nowhere,
               flushed |-> Nowhere, alone |-> TRUE]

PositionsTypeOK ==
    /\ list \in {"checklist", "attachments"}
    /\ position \in [Item -> Nat \cup {None}]
    /\ active \in [Item -> BOOLEAN]
    /\ placing \in [Request -> Placings]
    /\ doubled \subseteq Nat
    /\ refused \in BOOLEAN

PositionsInit ==
    /\ list \in {"checklist", "attachments"}
    /\ position = Nowhere
    /\ active = [i \in Item |-> FALSE]
    /\ placing = [p \in Request |-> NotPlacing]
    /\ doubled = {}
    /\ refused = FALSE

-----------------------------------------------------------------------------
Filled(places) == {i \in Item : places[i] # None}
Taken(places)   == {places[i] : i \in Filled(places)}
Flushed(q)      == Filled(placing[q].flushed)

\* An item that q flushed is locked until q ends.
ItemLocked(p, i) == \E q \in Request \ {p} : i \in Flushed(q)

Highest(places) == Max(Taken(places) \cup {-1})

NextFree == Highest(position) + 1

TakePlace(p, placed) ==
    /\ placing[p] = NotPlacing
    /\ placing' = [placing EXCEPT ![p] = placed]
    /\ UNCHANGED <<list, position, active, refused>>

AddItem(p, i, at) ==
    /\ position[i] = None /\ \A q \in Request : placing[q].item # i
    /\ at \notin Taken(position) /\ at <= MaxPosition
    /\ TakePlace(p, [NotPlacing EXCEPT !.step = "add", !.item = i, !.at = at])
    /\ doubled' = IF \E q \in Request : placing[q].step = "add" /\ placing[q].at = at
                  THEN doubled \cup {at} ELSE doubled

\* p ends; those that go on were disturbed if it changed anything.
EndPlacing(p, disturbs) ==
    placing' = [q \in Request |-> IF q = p THEN NotPlacing
                                  ELSE IF placing[q] = NotPlacing THEN NotPlacing
                                  ELSE [placing[q] EXCEPT !.alone = @ /\ ~disturbs]]

\* Who wants a position that an unfinished reorder gives or takes waits for its end.
Undecided(p, at) ==
    \E q \in Request \ {p} :
        at \in Taken(placing[q].flushed) \cup {position[j] : j \in Flushed(q)}

PositionFree(at) == list = "checklist" => at \notin Taken(position)

CommitAdd(p) ==
    LET a == placing[p]
    IN /\ a.step = "add" /\ PositionFree(a.at)
       /\ list = "checklist" => ~Undecided(p, a.at)
       /\ position' = [position EXCEPT ![a.item] = a.at]
       /\ active' = [active EXCEPT ![a.item] = TRUE]
       /\ EndPlacing(p, TRUE) /\ UNCHANGED <<list, doubled, refused>>

RefuseAdd(p) ==
    /\ placing[p].step = "add" /\ ~PositionFree(placing[p].at)
    /\ refused' = (refused \/ placing[p].alone)
    /\ EndPlacing(p, FALSE) /\ UNCHANGED <<list, position, active, doubled>>

-----------------------------------------------------------------------------
(* The checklist is reordered.                                             *)

\* order holds every active item once.
ReorderItems(p, order) ==
    /\ list = "checklist" /\ order # <<>>
    /\ Range(order) = {i \in Item : active[i]}
    /\ TakePlace(p, [NotPlacing EXCEPT !.step = "reorder", !.order = order,
                   !.seen = [i \in Item |-> IF active[i] THEN position[i] ELSE None]])
    /\ UNCHANGED doubled

\* Mutated form: the temporary positions start where the list does.
FromTheStart(places) == 0

TemporaryStart(places) == Highest(places) + Cardinality(Filled(places)) + 1

\* All the items, in their order; those loaded before are not loaded again.
Temporary(p) ==
    LET places == [i \in Item |-> IF placing[p].seen[i] # None THEN placing[p].seen[i] ELSE position[i]]
    IN [i \in Item |->
          IF position[i] = None THEN None
          ELSE TemporaryStart(places) + Cardinality({j \in Filled(position) : position[j] < position[i]})]

\* The rows are written one after the other: none may meet the position of another.
Meets(from, to) ==
    \E i \in Filled(to) : \E j \in Item \ {i} : to[i] \in {from[j], to[j]}

FlushTemporary(p) ==
    /\ placing[p].step = "reorder"
    /\ \A i \in Filled(position) : ~ItemLocked(p, i)
    /\ ~Meets(position, Temporary(p))
    /\ placing' = [placing EXCEPT ![p].step = "temporary", ![p].flushed = Temporary(p)]
    /\ UNCHANGED <<list, position, active, doubled, refused>>

\* The ordered items first, then the remaining ones, in their order.
Final(p) ==
    LET order == placing[p].order
        temp  == placing[p].flushed
        rest  == Filled(temp) \ Range(order)
    IN [i \in Item |->
          CASE i \in Range(order) -> (CHOOSE k \in DOMAIN order : order[k] = i) - 1
            [] i \in rest         -> Len(order) + Cardinality({j \in rest : temp[j] < temp[i]})
            [] OTHER              -> None]

\* What p would find in the list: its own positions, and those committed since.
Found(p) == [i \in Item |-> IF i \in Flushed(p) THEN placing[p].flushed[i] ELSE position[i]]

CommitReorder(p) ==
    LET to == Final(p)
    IN /\ placing[p].step = "temporary"
       /\ ~Meets(Found(p), to)
       /\ position' = [i \in Item |-> IF to[i] # None THEN to[i] ELSE position[i]]
       /\ EndPlacing(p, TRUE) /\ UNCHANGED <<list, active, doubled, refused>>

RefuseReorder(p) ==
    /\ \/ placing[p].step = "reorder" /\ Meets(position, Temporary(p))
       \/ placing[p].step = "temporary" /\ Meets(Found(p), Final(p))
    /\ refused' = (refused \/ placing[p].alone)
    /\ EndPlacing(p, FALSE) /\ UNCHANGED <<list, position, active, doubled>>

AbandonPlacing(p) ==
    /\ placing[p] # NotPlacing
    /\ EndPlacing(p, FALSE) /\ UNCHANGED <<list, position, active, doubled, refused>>

-----------------------------------------------------------------------------
(* Items of a checklist are hidden and shown, attachments are removed.     *)

Disturb == placing' = [q \in Request |-> IF placing[q] = NotPlacing THEN NotPlacing
                                         ELSE [placing[q] EXCEPT !.alone = FALSE]]

SetActive(i, to) ==
    /\ list = "checklist" /\ position[i] # None /\ active[i] # to
    /\ ~ItemLocked(None, i)
    /\ active' = [active EXCEPT ![i] = to]
    /\ Disturb /\ UNCHANGED <<list, position, doubled, refused>>

RemoveAttachment(i) ==
    /\ list = "attachments" /\ position[i] # None
    /\ position' = [position EXCEPT ![i] = None]
    /\ active' = [active EXCEPT ![i] = FALSE]
    /\ Disturb /\ UNCHANGED <<list, doubled, refused>>

-----------------------------------------------------------------------------
PositionsNext ==
    \/ \E p \in Request :
         \/ \E i \in Item, at \in 0 .. MaxPosition \cup {NextFree} : AddItem(p, i, at)
         \/ LET shown == {i \in Item : active[i]}
            IN \E order \in Bijection(1 .. Cardinality(shown), shown) : ReorderItems(p, order)
         \/ CommitAdd(p) \/ RefuseAdd(p) \/ FlushTemporary(p) \/ CommitReorder(p) \/ RefuseReorder(p)
         \/ AbandonPlacing(p)
    \/ \E i \in Item : (\E to \in BOOLEAN : SetActive(i, to)) \/ RemoveAttachment(i)

PositionsSpec == PositionsInit /\ [][PositionsNext]_positionsVars

-----------------------------------------------------------------------------
(* Properties.                                                             *)

\* No two items of a list have the same position, but attachments that were added at once;
\* and nobody whom nobody disturbed finds a position taken: the temporary positions of a
\* reorder are out of the way of the stored ones, as the final ones are of the temporary.
PositionsApart ==
    /\ \A i, j \in Filled(position) :
         i # j /\ position[i] = position[j] => list = "attachments" /\ position[i] \in doubled
    /\ ~refused
=============================================================================
