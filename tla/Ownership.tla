------------------------------ MODULE Ownership -------------------------------
(***************************************************************************)
(* The ownership relations between one owner and one cadastre, next to the *)
(* older owner_cadastre link of the same pair (api/p1.py, operations/      *)
(* p1_signals.py, sync_forestek_owner_relations).  Rows of other pairs     *)
(* never meet these.  A request is the load of its rows and the            *)
(* transaction that follows; an import is the insert of the link, with     *)
(* what the signal on it finds, and its commit; a projection is one        *)
(* statement after the other.                                              *)
(*                                                                         *)
(* Abstracted: reasons, dates and events.  Which of several ended          *)
(* relations a new manual relation reactivates is left open (the code      *)
(* takes the one that ended last).                                         *)
(***************************************************************************)
EXTENDS Naturals, FiniteSets

CONSTANTS
    Editor,        \* processes with at most one request or import each
    MaxRelations   \* bound: relations of the pair

ASSUME OwnershipAssumption == MaxRelations \in Nat \ {0}

VARIABLES
    relation,  \* OwnershipRelation rows of the pair
    link,      \* TRUE while the OwnerCadastre row exists
    edit       \* what each process is doing, with what it has read

ownershipVars == <<relation, link, edit>>

RelationId  == 1 .. MaxRelations
Relation    == [active : BOOLEAN, protected : BOOLEAN, source : {"LEGACY", "EXTERNAL", "MANUAL"}]
NoRelation  == [source |-> "none"]
EditOp      == {"end", "reactivate", "accept external", "keep manual"}
Edit        == [op : EditOp, id : RelationId, seen : Relation, protect : BOOLEAN]
Add         == [op : {"add"}, id : RelationId \cup {0}]
(* same: the link that a projection read has not been deleted since.       *)
Projection  == [op : {"tracked", "link", "create", "delete", "projected"}, same : BOOLEAN]
Import      == [op : {"import"}]
NoEdit      == [op |-> "none"]

OwnershipTypeOK ==
    /\ relation \in [RelationId -> Relation \cup {NoRelation}]
    /\ link \in BOOLEAN
    /\ edit \in [Editor -> Edit \cup Add \cup Projection \cup Import \cup {NoEdit}]

(* The pair may be known by a link from before there were relations.       *)
OwnershipInit ==
    /\ relation = [i \in RelationId |-> NoRelation]
    /\ link \in BOOLEAN
    /\ edit = [e \in Editor |-> NoEdit]

Active(rows)    == {i \in RelationId : rows[i] # NoRelation /\ rows[i].active}
Protected(rows) == {i \in RelationId : rows[i] # NoRelation /\ ~rows[i].active /\ rows[i].protected}

(* Mutant: no unique key.                                                  *)
NotUnique(rows) == TRUE

(* The unique key of active relations.                                     *)
Unique(rows) == Cardinality(Active(rows)) <= 1

With(i, active, protected, source) ==
    [relation EXCEPT ![i] = [active |-> active, protected |-> protected, source |-> source]]

(* The row that a create would make.                                       *)
NewId(i) == relation[i] = NoRelation /\ \A j \in 1 .. i - 1 : relation[j] # NoRelation

Enters(e, r) == edit[e] = NoEdit /\ edit' = [edit EXCEPT ![e] = r]
Leaves(e)    == edit' = [edit EXCEPT ![e] = NoEdit]

(* The process ends, and readers lose the row that they have read.         *)
LeavesDeleting(e) ==
    edit' = [f \in Editor |-> IF f = e THEN NoEdit
                              ELSE IF edit[f] \in Projection THEN [edit[f] EXCEPT !.same = FALSE]
                              ELSE edit[f]]

(* get_or_create of the link when the relations are rows: the signal on a  *)
(* new link deletes it again where a protected ending blocks it, and the   *)
(* insert waits for an import that has inserted it.                        *)
LinkFor(rows) ==
    /\ ~link => \A f \in Editor : edit[f].op # "import"
    /\ link' = (link \/ Protected(rows) = {})

-----------------------------------------------------------------------------
(* owner_relations POST, after its projection, reads inside its            *)
(* transaction: no active relation, and an ended one or none.              *)
AddRead(e) ==
    /\ edit[e].op = "projected"
    /\ Active(relation) = {}
    /\ \E i \in RelationId \cup {0} :
        /\ i = 0 => \E j \in RelationId : NewId(j)
        /\ i = 0 <=> \A j \in RelationId : relation[j] = NoRelation
        /\ i # 0 => relation[i] # NoRelation
        /\ edit' = [edit EXCEPT ![e] = [op |-> "add", id |-> i]]
    /\ UNCHANGED <<relation, link>>

(* The ended relation is reactivated, or a new one made, and the link.     *)
AddCommit(e) ==
    /\ edit[e].op = "add"
    /\ \E i \in RelationId, p \in BOOLEAN :
        /\ IF edit[e].id = 0 THEN NewId(i) ELSE i = edit[e].id /\ p = TRUE
        /\ relation' = With(i, TRUE, p, "MANUAL")
        /\ Unique(relation')
    /\ LinkFor(relation')
    /\ Leaves(e)

(* ownership_relation_detail loads its relation.                           *)
EditLoad(e) ==
    /\ \E i \in RelationId, op \in EditOp, p \in BOOLEAN :
        /\ relation[i] # NoRelation
        /\ op = "end" => relation[i].active
        /\ op # "end" => p = TRUE
        /\ Enters(e, [op |-> op, id |-> i, seen |-> relation[i], protect |-> p])
    /\ UNCHANGED <<relation, link>>

EditEnd(e) ==
    /\ edit[e].op = "end"
    /\ relation' = With(edit[e].id, FALSE, edit[e].protect, edit[e].seen.source)
    /\ link' = FALSE
    /\ LeavesDeleting(e)

EditReactivate(e) ==
    /\ edit[e].op = "reactivate"
    /\ Active(relation) \subseteq {edit[e].id}
    /\ relation' = With(edit[e].id, TRUE, TRUE, "MANUAL")
    /\ LinkFor(relation')
    /\ Leaves(e)

(* The link comes first, so that the signal still sees the old relation:   *)
(* it blocks the link, or makes a relation of its own, with which the      *)
(* accepted one then collides.                                             *)
EditAccept(e) ==
    /\ edit[e].op = "accept external"
    /\ LinkFor(relation)
    /\ ~link /\ Protected(relation) = {} => Active(relation) # {}
    /\ relation' = With(edit[e].id, TRUE, FALSE, "EXTERNAL")
    /\ Unique(relation')
    /\ Leaves(e)

(* The loaded row is saved as it was, but protected.                       *)
EditKeep(e) ==
    /\ edit[e].op = "keep manual"
    /\ relation' = With(edit[e].id, edit[e].seen.active, TRUE, edit[e].seen.source)
    /\ Unique(relation')
    /\ IF edit[e].seen.active THEN link' = link /\ Leaves(e)
       ELSE link' = FALSE /\ LeavesDeleting(e)

-----------------------------------------------------------------------------
(* get_or_create of an import finds no link and inserts one; the signal    *)
(* finds no protected ending.  Another insert of the link waits.           *)
ImportInsert(e) ==
    /\ ~link
    /\ \A f \in Editor : edit[f].op # "import"
    /\ Protected(relation) = {}
    /\ Enters(e, [op |-> "import"])
    /\ UNCHANGED <<relation, link>>

(* The signal makes a relation unless there is an active one.              *)
ImportCommit(e) ==
    /\ edit[e].op = "import"
    /\ ~link
    /\ IF Active(relation) # {} THEN relation' = relation
       ELSE \E i \in RelationId : NewId(i) /\ relation' = With(i, TRUE, FALSE, "EXTERNAL")
    /\ link' = TRUE
    /\ Leaves(e)

(* _project_legacy_relations, at the beginning of every owner_relations    *)
(* request: the pair has no active relation, ...                           *)
ProjectTracked(e) ==
    /\ Enters(e, [op |-> IF Active(relation) = {} THEN "tracked" ELSE "projected", same |-> FALSE])
    /\ UNCHANGED <<relation, link>>

(* ... it has a link, ...                                                  *)
ProjectRead(e) ==
    /\ edit[e].op = "tracked"
    /\ edit' = [edit EXCEPT ![e] = IF link THEN [op |-> "link", same |-> TRUE]
                                   ELSE [op |-> "projected", same |-> FALSE]]
    /\ UNCHANGED <<relation, link>>

(* ... and the link is blocked or not.                                     *)
ProjectJudge(e) ==
    /\ edit[e].op = "link"
    /\ edit' = [edit EXCEPT ![e].op = IF Protected(relation) # {} THEN "delete" ELSE "create"]
    /\ UNCHANGED <<relation, link>>

(* A blocked link is deleted, if it is still the row that was read.        *)
ProjectDelete(e) ==
    /\ edit[e].op = "delete"
    /\ link' = (link /\ ~edit[e].same)
    /\ edit' = [f \in Editor |-> IF f = e THEN [op |-> "projected", same |-> FALSE]
                                  ELSE IF edit[f] \in Projection /\ edit[e].same
                                  THEN [edit[f] EXCEPT !.same = FALSE]
                                  ELSE edit[f]]
    /\ UNCHANGED relation

ProjectCreate(e) ==
    /\ edit[e].op = "create"
    /\ \E i \in RelationId : NewId(i) /\ relation' = With(i, TRUE, FALSE, "LEGACY")
    /\ Unique(relation')
    /\ edit' = [edit EXCEPT ![e] = [op |-> "projected", same |-> FALSE]]
    /\ UNCHANGED link

(* A request that is refused, rolled back or has nothing more to do.       *)
EditGivesUp(e) ==
    /\ edit[e] # NoEdit
    /\ Leaves(e)
    /\ UNCHANGED <<relation, link>>

UserStep(e) ==
    \/ AddRead(e) \/ AddCommit(e) \/ EditLoad(e)
    \/ EditEnd(e) \/ EditReactivate(e) \/ EditAccept(e) \/ EditKeep(e)

ReaderStep(e) ==
    \/ ImportInsert(e) \/ ImportCommit(e)
    \/ ProjectTracked(e) \/ ProjectRead(e) \/ ProjectJudge(e)
    \/ ProjectDelete(e) \/ ProjectCreate(e)

OwnershipNext == \E e \in Editor : UserStep(e) \/ ReaderStep(e) \/ EditGivesUp(e)

OwnershipSpec == OwnershipInit /\ [][OwnershipNext]_ownershipVars
-----------------------------------------------------------------------------
(* However requests, imports and projections interleave, the pair has at   *)
(* most one active relation.                                               *)
OneActiveRelation == \A i, j \in Active(relation) : i = j

(* What the signal on the link is for: an ending that a user has protected *)
(* is not revived by an import or a projection, only by a user.            *)
ProtectedEndingIsNotRevived ==
    [][Protected(relation) # {} /\ Active(relation) = {} /\ Active(relation') # {} =>
          \E e \in Editor : edit[e].op \in EditOp \cup {"add"} /\ edit'[e] = NoEdit]_ownershipVars
=============================================================================
