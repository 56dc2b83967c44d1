---------------------------- MODULE Records_proofs ----------------------------
(***************************************************************************)
(* Proofs about the records around the deals: ownership relations, the     *)
(* notices of reminders, data-quality issues and inheritance cases, and    *)
(* about the map tiles and the users, for any number of processes, persons *)
(* and rows; and about all of them together with the feeds that fill them. *)
(***************************************************************************)
EXTENDS MCRecords, Feeds_proofs

-----------------------------------------------------------------------------
(* The unique key leaves no room for two active relations.                 *)
LEMMA UniqueMeansOne ==
    ASSUME NEW rows, Unique(rows)
    PROVE  \A i, j \in Active(rows) : i = j
<1> SUFFICES ASSUME NEW i \in Active(rows), NEW j \in Active(rows), i # j PROVE FALSE
    OBVIOUS
<1>1. IsFiniteSet(Active(rows))
    <2>1. IsFiniteSet(RelationId) /\ Active(rows) \subseteq RelationId
        <3>1. 1 \in Int /\ MaxRelations \in Int
            BY OwnershipAssumption
        <3> QED
            BY <3>1, FS_Interval DEF RelationId, Active
    <2> QED
        BY <2>1, FS_Subset
<1>2. Cardinality({i, j}) = 2
    <2>1. IsFiniteSet({i}) /\ Cardinality({i}) = 1
        BY FS_Singleton
    <2>2. Cardinality({i} \cup {j}) = Cardinality({i}) + 1
        BY <2>1, FS_AddElement
    <2>3. {i} \cup {j} = {i, j}
        OBVIOUS
    <2> QED
        BY <2>1, <2>2, <2>3
<1>3. Cardinality({i, j}) <= Cardinality(Active(rows)) /\ Cardinality(Active(rows)) \in Nat
    BY <1>1, FS_Subset, FS_CardinalityType
<1> QED
    BY <1>2, <1>3 DEF Unique

OwnershipInv == OwnershipTypeOK /\ OneActiveRelation

LEMMA OwnershipInitially == OwnershipInit => OwnershipInv
BY DEF OwnershipInit, OwnershipInv, OwnershipTypeOK, OneActiveRelation, Active

(* A row that is written has the type of a relation.                       *)
LEMMA WithTyped ==
    ASSUME OwnershipInv, NEW i \in RelationId, NEW a \in BOOLEAN, NEW p \in BOOLEAN,
           NEW s \in {"LEGACY", "EXTERNAL", "MANUAL"}
    PROVE  /\ With(i, a, p, s) \in [RelationId -> Relation \cup {NoRelation}]
           /\ ~a => Active(With(i, a, p, s)) \subseteq Active(relation)
           /\ Active(With(i, a, p, s)) \subseteq Active(relation) \cup {i}
<1> DEFINE row == [active |-> a, protected |-> p, source |-> s]
<1>1. row \in Relation /\ row.active = a
    BY DEF Relation
<1>2. With(i, a, p, s) = [relation EXCEPT ![i] = row]
    BY DEF With
<1> HIDE DEF row
<1> QED
    BY <1>1, <1>2 DEF OwnershipInv, OwnershipTypeOK, Active

(* What becomes of the processes.                                          *)
LEMMA ProcessesTyped ==
    ASSUME OwnershipInv, NEW e \in Editor
    PROVE  /\ Leaves(e) => edit' \in [Editor -> Edit \cup Add \cup Projection \cup Import \cup {NoEdit}]
           /\ LeavesDeleting(e) => edit' \in [Editor -> Edit \cup Add \cup Projection \cup Import \cup {NoEdit}]
           /\ \A r \in Edit \cup Add \cup Projection \cup Import :
                  edit' = [edit EXCEPT ![e] = r] =>
                      edit' \in [Editor -> Edit \cup Add \cup Projection \cup Import \cup {NoEdit}]
<1>1. edit \in [Editor -> Edit \cup Add \cup Projection \cup Import \cup {NoEdit}]
    BY DEF OwnershipInv, OwnershipTypeOK
<1>2. \A q \in Projection : [q EXCEPT !.same = FALSE] \in Projection
    BY DEF Projection
<1> QED
    BY <1>1, <1>2 DEF Leaves, LeavesDeleting

(* A step that writes one relation, under the unique key or without making *)
(* one active.                                                             *)
LEMMA WriteKeeps ==
    ASSUME OwnershipInv, NEW e \in Editor, NEW i \in RelationId, NEW a \in BOOLEAN, NEW p \in BOOLEAN,
           NEW s \in {"LEGACY", "EXTERNAL", "MANUAL"},
           relation' = With(i, a, p, s),
           Unique(relation') \/ ~a \/ Active(relation) \subseteq {i},
           link' \in BOOLEAN,
           edit' \in [Editor -> Edit \cup Add \cup Projection \cup Import \cup {NoEdit}]
    PROVE  OwnershipInv'
<1>1. \A j, k \in Active(relation') : j = k
    BY WithTyped, UniqueMeansOne DEF OwnershipInv, OneActiveRelation
<1>2. OneActiveRelation'
    BY <1>1 DEF OneActiveRelation
<1> QED
    BY <1>2, WithTyped DEF OwnershipInv, OwnershipTypeOK

(* A step that writes no relation.                                         *)
LEMMA OtherKeeps ==
    ASSUME OwnershipInv, NEW e \in Editor, relation' = relation, link' \in BOOLEAN,
           edit' \in [Editor -> Edit \cup Add \cup Projection \cup Import \cup {NoEdit}]
    PROVE  OwnershipInv'
BY DEF OwnershipInv, OwnershipTypeOK, OneActiveRelation

LEMMA EditFacts ==
    ASSUME OwnershipInv, NEW e \in Editor
    PROVE  /\ edit[e].op \in EditOp => edit[e] \in Edit
           /\ edit[e].op \in {"tracked", "link", "create", "delete", "projected"} => edit[e] \in Projection
           /\ link \in BOOLEAN
<1>1. edit[e] \in Edit \cup Add \cup Projection \cup Import \cup {NoEdit} /\ link \in BOOLEAN
    BY DEF OwnershipInv, OwnershipTypeOK
<1>2. \A q \in Edit : q.op \in EditOp
    BY DEF Edit
<1>3. \A q \in Add : q.op = "add"
    BY DEF Add
<1>4. \A q \in Projection : q.op \in {"tracked", "link", "create", "delete", "projected"}
    BY DEF Projection
<1>5. (\A q \in Import : q.op = "import") /\ NoEdit.op = "none"
    BY DEF Import, NoEdit
<1> QED
    BY <1>1, <1>2, <1>3, <1>4, <1>5 DEF EditOp

LEMMA UserStepKeeps ==
    ASSUME OwnershipInv, NEW e \in Editor, UserStep(e)
    PROVE  OwnershipInv'
<1>1. CASE AddRead(e)
    <2>1. PICK i \in RelationId \cup {0} : edit' = [edit EXCEPT ![e] = [op |-> "add", id |-> i]]
        BY <1>1 DEF AddRead
    <2>2. [op |-> "add", id |-> i] \in Add
        BY DEF Add
    <2>3. edit' \in [Editor -> Edit \cup Add \cup Projection \cup Import \cup {NoEdit}]
        BY <2>1, <2>2, ProcessesTyped
    <2> QED
        BY <1>1, <2>3, OtherKeeps, EditFacts DEF AddRead
<1>2. CASE AddCommit(e)
    <2>1. PICK i \in RelationId, p \in BOOLEAN : relation' = With(i, TRUE, p, "MANUAL") /\ Unique(relation')
        BY <1>2 DEF AddCommit
    <2> QED
        BY <1>2, <2>1, WriteKeeps, ProcessesTyped, EditFacts DEF AddCommit, LinkFor
<1>3. CASE EditLoad(e)
    <2>1. PICK i \in RelationId, op \in EditOp, p \in BOOLEAN :
              /\ relation[i] # NoRelation
              /\ edit' = [edit EXCEPT ![e] = [op |-> op, id |-> i, seen |-> relation[i], protect |-> p]]
        BY <1>3 DEF EditLoad, Enters
    <2>2. [op |-> op, id |-> i, seen |-> relation[i], protect |-> p] \in Edit
        BY <2>1 DEF Edit, OwnershipInv, OwnershipTypeOK
    <2>3. edit' \in [Editor -> Edit \cup Add \cup Projection \cup Import \cup {NoEdit}]
        BY <2>1, <2>2, ProcessesTyped
    <2> QED
        BY <1>3, <2>3, OtherKeeps, EditFacts DEF EditLoad
<1>4. CASE EditEnd(e)
    <2>1. edit[e] \in Edit
        BY <1>4, EditFacts DEF EditEnd, EditOp
    <2>2. edit[e].id \in RelationId /\ edit[e].protect \in BOOLEAN /\ edit[e].seen.source \in {"LEGACY", "EXTERNAL", "MANUAL"}
        BY <2>1 DEF Edit, Relation
    <2> QED
        BY <1>4, <2>2, WriteKeeps, ProcessesTyped DEF EditEnd
<1>5. CASE EditReactivate(e)
    <2>1. edit[e] \in Edit
        BY <1>5, EditFacts DEF EditReactivate, EditOp
    <2>2. edit[e].id \in RelationId
        BY <2>1 DEF Edit
    <2> QED
        BY <1>5, <2>2, WriteKeeps, ProcessesTyped, EditFacts DEF EditReactivate, LinkFor
<1>6. CASE EditAccept(e)
    <2>1. edit[e] \in Edit
        BY <1>6, EditFacts DEF EditAccept, EditOp
    <2>2. edit[e].id \in RelationId
        BY <2>1 DEF Edit
    <2> QED
        BY <1>6, <2>2, WriteKeeps, ProcessesTyped, EditFacts DEF EditAccept, LinkFor
<1>7. CASE EditKeep(e)
    <2>1. edit[e] \in Edit
        BY <1>7, EditFacts DEF EditKeep, EditOp
    <2>2. /\ edit[e].id \in RelationId /\ edit[e].seen.active \in BOOLEAN
          /\ edit[e].seen.source \in {"LEGACY", "EXTERNAL", "MANUAL"}
        BY <2>1 DEF Edit, Relation
    <2>3. link' \in BOOLEAN /\ (Leaves(e) \/ LeavesDeleting(e))
        BY <1>7, EditFacts DEF EditKeep
    <2> QED
        BY <1>7, <2>2, <2>3, WriteKeeps, ProcessesTyped DEF EditKeep
<1> QED
    BY <1>1, <1>2, <1>3, <1>4, <1>5, <1>6, <1>7 DEF UserStep

LEMMA ReaderStepKeeps ==
    ASSUME OwnershipInv, NEW e \in Editor, ReaderStep(e)
    PROVE  OwnershipInv'
<1> DEFINE Typed == edit' \in [Editor -> Edit \cup Add \cup Projection \cup Import \cup {NoEdit}]
<1>1. CASE ImportInsert(e)
    <2>1. [op |-> "import"] \in Import
        BY DEF Import
    <2>2. Typed
        BY <1>1, <2>1, ProcessesTyped DEF ImportInsert, Enters
    <2> QED
        BY <1>1, <2>2, OtherKeeps, EditFacts DEF ImportInsert
<1>2. CASE ImportCommit(e)
    <2>1. CASE Active(relation) # {}
        BY <1>2, <2>1, OtherKeeps, ProcessesTyped DEF ImportCommit
    <2>2. CASE Active(relation) = {}
        <3>1. PICK i \in RelationId : relation' = With(i, TRUE, FALSE, "EXTERNAL")
            BY <1>2, <2>2 DEF ImportCommit
        <3> QED
            BY <1>2, <2>2, <3>1, WriteKeeps, ProcessesTyped DEF ImportCommit
    <2> QED
        BY <2>1, <2>2
<1>3. CASE ProjectTracked(e)
    <2>1. [op |-> IF Active(relation) = {} THEN "tracked" ELSE "projected", same |-> FALSE] \in Projection
        BY DEF Projection
    <2>2. Typed
        BY <1>3, <2>1, ProcessesTyped DEF ProjectTracked, Enters
    <2> QED
        BY <1>3, <2>2, OtherKeeps, EditFacts DEF ProjectTracked
<1>4. CASE ProjectRead(e)
    <2>1. /\ [op |-> "link", same |-> TRUE] \in Projection
          /\ [op |-> "projected", same |-> FALSE] \in Projection
        BY DEF Projection
    <2>2. Typed
        BY <1>4, <2>1, ProcessesTyped DEF ProjectRead
    <2> QED
        BY <1>4, <2>2, OtherKeeps, EditFacts DEF ProjectRead
<1>5. CASE ProjectJudge(e)
    <2>1. edit[e] \in Projection
        BY <1>5, EditFacts DEF ProjectJudge
    <2> DEFINE q == [edit[e] EXCEPT !.op = IF Protected(relation) # {} THEN "delete" ELSE "create"]
    <2>2. q \in Projection
        BY <2>1 DEF Projection
    <2>3. edit' = [edit EXCEPT ![e] = q]
        BY <1>5 DEF ProjectJudge
    <2> HIDE DEF q
    <2>4. Typed
        BY <2>2, <2>3, ProcessesTyped
    <2> QED
        BY <1>5, <2>4, OtherKeeps, EditFacts DEF ProjectJudge
<1>6. CASE ProjectDelete(e)
    <2>1. \A q \in Projection : [q EXCEPT !.same = FALSE] \in Projection
        BY DEF Projection
    <2>2. [op |-> "projected", same |-> FALSE] \in Projection
        BY DEF Projection
    <2>3. Typed
        BY <1>6, <2>1, <2>2 DEF ProjectDelete, OwnershipInv, OwnershipTypeOK
    <2>4. edit[e].same \in BOOLEAN
        BY <1>6, EditFacts DEF ProjectDelete, Projection
    <2> QED
        BY <1>6, <2>3, <2>4, OtherKeeps, EditFacts DEF ProjectDelete
<1>7. CASE ProjectCreate(e)
    <2>1. PICK i \in RelationId : relation' = With(i, TRUE, FALSE, "LEGACY") /\ Unique(relation')
        BY <1>7 DEF ProjectCreate
    <2>2. [op |-> "projected", same |-> FALSE] \in Projection
        BY DEF Projection
    <2>3. Typed
        BY <1>7, <2>2, ProcessesTyped DEF ProjectCreate
    <2> QED
        BY <1>7, <2>1, <2>3, WriteKeeps, EditFacts DEF ProjectCreate
<1> QED
    BY <1>1, <1>2, <1>3, <1>4, <1>5, <1>6, <1>7 DEF ReaderStep

LEMMA OwnershipNextKeeps == OwnershipInv /\ [OwnershipNext]_ownershipVars => OwnershipInv'
<1> SUFFICES ASSUME OwnershipInv, [OwnershipNext]_ownershipVars PROVE OwnershipInv'
    OBVIOUS
<1>1. CASE UNCHANGED ownershipVars
    BY <1>1 DEF ownershipVars, OwnershipInv, OwnershipTypeOK, OneActiveRelation
<1>2. ASSUME NEW e \in Editor, EditGivesUp(e) PROVE OwnershipInv'
    BY <1>2, OtherKeeps, ProcessesTyped, EditFacts DEF EditGivesUp
<1> QED
    BY <1>1, <1>2, UserStepKeeps, ReaderStepKeeps DEF OwnershipNext

(* The invariant holds in every state.                                     *)
THEOREM OwnershipInvariant == OwnershipSpec => []OwnershipInv
BY OwnershipInitially, OwnershipNextKeeps, PTL DEF OwnershipSpec

(* Relations of a pair are type correct.                                   *)
THEOREM OwnershipTypeCorrect == OwnershipSpec => []OwnershipTypeOK
BY OwnershipInvariant, PTL DEF OwnershipInv

(* A pair has at most one active relation, whatever requests, imports and  *)
(* projections interleave.                                                 *)
THEOREM RelationStaysUnique == OwnershipSpec => []OneActiveRelation
BY OwnershipInvariant, PTL DEF OwnershipInv

-----------------------------------------------------------------------------
(* The parts of the reminder that its notices rest on.                     *)
ReminderInv ==
    /\ phase \in Phase
    /\ delivery \in [Person -> {"NONE", "SENT", "SKIPPED"}]
    /\ notices \in [Person -> Nat]
    /\ sweep \in [Sweep -> Sweeping \cup {NoSweep}]
    /\ audience \subseteq Person
    /\ EveryoneIsToldOnce

LEMMA ReminderInitially == ReminderInit => ReminderInv
BY DEF ReminderInit, ReminderInv, EveryoneIsToldOnce, Phase, NoSweep

(* A delivery and its message are one, and are not made twice.             *)
LEMMA TellOnce ==
    ASSUME ReminderInv, phase # "deleted", NEW p \in Person, Tell(p)
    PROVE  /\ delivery' \in [Person -> {"NONE", "SENT", "SKIPPED"}]
           /\ notices' \in [Person -> Nat]
           /\ \A q \in Person : notices'[q] <= 1 /\ (notices'[q] = 1 <=> delivery'[q] = "SENT")
<1>1. CASE delivery[p] = "NONE"
    <2>1. delivery' = [delivery EXCEPT ![p] = "SENT"] /\ notices' = [notices EXCEPT ![p] = @ + 1]
        BY <1>1 DEF Tell
    <2>2. notices[p] = 0
        BY <1>1 DEF ReminderInv, EveryoneIsToldOnce
    <2> QED
        BY <2>1, <2>2 DEF ReminderInv, EveryoneIsToldOnce
<1>2. CASE delivery[p] # "NONE"
    BY <1>2 DEF Tell, ReminderInv, EveryoneIsToldOnce
<1> QED
    BY <1>1, <1>2

LEMMA SweepTellsKeeps ==
    ASSUME ReminderInv, NEW s \in Sweep, SweepTells(s)
    PROVE  ReminderInv'
<1>1. PICK p \in sweep[s].person :
          IF sweep[s].send THEN Tell(p)
          ELSE /\ delivery' = [delivery EXCEPT ![p] = IF @ = "NONE" THEN "SKIPPED" ELSE @]
               /\ UNCHANGED notices
    BY DEF SweepTells
<1>2. /\ sweep[s] # NoSweep /\ phase # "deleted" /\ sweep' = [sweep EXCEPT ![s].person = {}]
      /\ UNCHANGED <<phase, audience, wants, changes>>
    BY DEF SweepTells
<1>3. p \in Person
    BY <1>1, <1>2 DEF ReminderInv, Sweeping
<1>4. /\ delivery' \in [Person -> {"NONE", "SENT", "SKIPPED"}]
      /\ notices' \in [Person -> Nat]
      /\ \A q \in Person : notices'[q] <= 1 /\ (notices'[q] = 1 <=> delivery'[q] = "SENT")
    <2>1. CASE sweep[s].send
        BY <1>1, <1>2, <1>3, <2>1, TellOnce
    <2>2. CASE ~sweep[s].send
        BY <1>1, <1>2, <1>3, <2>2 DEF ReminderInv, EveryoneIsToldOnce
    <2> QED
        BY <2>1, <2>2
<1>5. sweep' \in [Sweep -> Sweeping \cup {NoSweep}]
    <2>1. [sweep[s] EXCEPT !.person = {}] \in Sweeping
        BY <1>2 DEF ReminderInv, Sweeping
    <2> QED
        BY <1>2, <2>1 DEF ReminderInv
<1> QED
    BY <1>2, <1>4, <1>5 DEF ReminderInv, EveryoneIsToldOnce

(* The other steps of a sweep touch neither deliveries nor messages.       *)
LEMMA SweepOtherKeeps ==
    ASSUME ReminderInv, NEW s \in Sweep, SweepFinds(s) \/ SweepAsks(s) \/ SweepPasses(s) \/ SweepEnds(s)
    PROVE  ReminderInv'
<1>1. UNCHANGED <<phase, audience, wants, delivery, notices, changes>>
    BY DEF SweepFinds, SweepAsks, SweepPasses, SweepEnds
<1>2. ASSUME NEW w \in Sweeping \cup {NoSweep}, sweep' = [sweep EXCEPT ![s] = w] PROVE ReminderInv'
    BY <1>1, <1>2 DEF ReminderInv, EveryoneIsToldOnce
<1>3. CASE SweepFinds(s)
    <2>1. [todo |-> audience, person |-> {}, send |-> FALSE] \in Sweeping
        BY DEF ReminderInv, Sweeping
    <2> QED
        BY <1>2, <1>3, <2>1 DEF SweepFinds
<1>4. CASE SweepAsks(s)
    <2>1. PICK p \in sweep[s].todo :
              sweep' = [sweep EXCEPT ![s] = [todo |-> @.todo \ {p}, person |-> {p}, send |-> p \in wants]]
        BY <1>4 DEF SweepAsks
    <2>2. sweep[s] \in Sweeping /\ sweep[s].todo \subseteq Person
        BY <1>4 DEF SweepAsks, ReminderInv, Sweeping
    <2> DEFINE w == [todo |-> sweep[s].todo \ {p}, person |-> {p}, send |-> p \in wants]
    <2>3. w \in Sweeping
        BY <2>2 DEF Sweeping
    <2>4. sweep' = [sweep EXCEPT ![s] = w]
        BY <2>1
    <2> HIDE DEF w
    <2> QED
        BY <1>2, <2>3, <2>4
<1>5. CASE SweepPasses(s)
    <2>1. [sweep[s] EXCEPT !.person = {}] \in Sweeping
        BY <1>5 DEF SweepPasses, ReminderInv, Sweeping
    <2>2. sweep' = [sweep EXCEPT ![s] = [sweep[s] EXCEPT !.person = {}]]
        BY <1>5 DEF SweepPasses
    <2> QED
        BY <1>2, <2>1, <2>2
<1>6. CASE SweepEnds(s)
    BY <1>2, <1>6 DEF SweepEnds
<1> QED
    BY <1>3, <1>4, <1>5, <1>6

(* Time, users and the deletion of the reminder: the deliveries go, and    *)
(* the messages that were sent stay.                                       *)
LEMMA ReminderEnvironmentKeeps ==
    ASSUME ReminderInv, TimePasses \/ DeleteReminder \/ Reassign \/ ChangePreference
    PROVE  ReminderInv'
<1>1. CASE TimePasses
    BY <1>1 DEF TimePasses, ReminderInv, EveryoneIsToldOnce, Phase
<1>2. CASE DeleteReminder
    BY <1>2 DEF DeleteReminder, ReminderInv, EveryoneIsToldOnce, Phase
<1>3. CASE Reassign
    BY <1>3 DEF Reassign, ReminderInv, EveryoneIsToldOnce
<1>4. CASE ChangePreference
    BY <1>4 DEF ChangePreference, ReminderInv, EveryoneIsToldOnce
<1> QED
    BY <1>1, <1>2, <1>3, <1>4

LEMMA ReminderNextKeeps == ReminderInv /\ [ReminderNext]_reminderVars => ReminderInv'
<1> SUFFICES ASSUME ReminderInv, [ReminderNext]_reminderVars PROVE ReminderInv'
    OBVIOUS
<1>1. CASE UNCHANGED reminderVars
    BY <1>1 DEF reminderVars, ReminderInv, EveryoneIsToldOnce
<1> QED
    BY <1>1, SweepTellsKeeps, SweepOtherKeeps, ReminderEnvironmentKeeps DEF ReminderNext, SweepStep

(* The invariant holds in every state.                                     *)
THEOREM ReminderInvariant == ReminderSpec => []ReminderInv
BY ReminderInitially, ReminderNextKeeps, PTL DEF ReminderSpec

(* Nobody is told twice, by any number of sweeps.                          *)
THEOREM ToldOnce == ReminderSpec => []EveryoneIsToldOnce
BY ReminderInvariant, PTL DEF ReminderInv

-----------------------------------------------------------------------------
LEMMA QualityInitially == QualityInit => QualityTypeOK
BY QualityAssumption DEF QualityInit, QualityTypeOK, NoScan, Scan, ScanStep

LEMMA QualityNextKeeps == QualityTypeOK /\ [QualityNext]_qualityVars => QualityTypeOK'
<1> SUFFICES ASSUME QualityTypeOK, [QualityNext]_qualityVars PROVE QualityTypeOK'
    OBVIOUS
<1> USE QualityAssumption DEF QualityTypeOK
<1>1. CASE UNCHANGED qualityVars
    BY <1>1 DEF qualityVars
<1>2. CASE OwnerChanges \/ DealClosesOrOpens
    <2>1. edits' \in 0 .. MaxEdits
        BY <1>2 DEF OwnerChanges, DealClosesOrOpens
    <2>2. problem' \in BOOLEAN /\ watched' \in BOOLEAN
        BY <1>2, Zenon DEF OwnerChanges, DealClosesOrOpens
    <2>3. UNCHANGED <<issue, scan, review>>
        BY <1>2 DEF OwnerChanges, DealClosesOrOpens
    <2> QED
        BY <2>1, <2>2, <2>3
<1>3. ASSUME NEW s \in Scanner, ScannerStep(s) \/ ScanFails(s) PROVE QualityTypeOK'
    <2>1. \A x \in ScanStep, y \in IssueStatus \cup {"NONE"} : [state |-> x, loaded |-> y] \in Scan
        BY DEF Scan
    <2>2. NoScan \in Scan /\ scan[s] \in Scan
        BY <2>1 DEF NoScan, ScanStep
    <2>3. CASE ScanOwner(s)
        BY <2>2, <2>3 DEF ScanOwner, Scan, ScanStep
    <2>4. CASE UpsertLook(s)
        BY <2>1, <2>2, <2>4 DEF UpsertLook, ScanStep, IssueStatus
    <2>5. CASE UpsertCreate(s) \/ UpsertRefresh(s) \/ ResolveSave(s)
        BY <2>2, <2>5 DEF UpsertCreate, UpsertRefresh, ResolveSave, IssueStatus
    <2>6. CASE ResolveLook(s)
        BY <2>1, <2>2, <2>6 DEF ResolveLook, ScanStep
    <2>7. CASE ScanFails(s)
        BY <2>2, <2>7 DEF ScanFails
    <2> QED
        BY <1>3, <2>3, <2>4, <2>5, <2>6, <2>7 DEF ScannerStep
<1>4. ASSUME NEW o \in Overseer, ReviewStep(o) PROVE QualityTypeOK'
    BY <1>4 DEF ReviewStep, ReviewLoad, ReviewSave
<1> QED
    BY <1>1, <1>2, <1>3, <1>4 DEF QualityNext

(* Data quality is type correct.                                           *)
THEOREM QualityTypeCorrect == QualitySpec => []QualityTypeOK
BY QualityInitially, QualityNextKeeps, PTL DEF QualitySpec

LEMMA ReopeningStep == QualityTypeOK /\ [QualityNext]_qualityVars =>
    [issue = "RESOLVED" /\ issue' # "RESOLVED" =>
        \E o \in Overseer : review[o] # "NONE" /\ review'[o] = "NONE"]_qualityVars
<1> SUFFICES ASSUME QualityTypeOK, QualityNext, issue = "RESOLVED", issue' # "RESOLVED"
             PROVE  \E o \in Overseer : review[o] # "NONE" /\ review'[o] = "NONE"
    OBVIOUS
<1>1. PICK o \in Overseer : ReviewSave(o)
    BY DEF QualityNext, OwnerChanges, DealClosesOrOpens, ScannerStep, ScanOwner, UpsertLook, UpsertCreate,
           UpsertRefresh, ResolveLook, ResolveSave, ScanFails, ReviewStep, ReviewLoad
<1> QED
    BY <1>1 DEF ReviewSave, QualityTypeOK

(* What an administrator has resolved no scan opens again.                 *)
THEOREM ScansReopenNothing == QualitySpec => ScanReopensNothing
BY QualityTypeCorrect, ReopeningStep, PTL DEF QualitySpec, ScanReopensNothing

-----------------------------------------------------------------------------
(* The case as it is stored, and what its requests have seen of it.        *)
StoredCase == [version : 1 .. MaxCaseVersion, status : CaseStatus, ended : BOOLEAN,
               assigned : BOOLEAN, opened : {1}]

CallSeen(r) == r.op \in CaseOp => /\ case # NoCase /\ r \in CaseCall /\ r.expected < MaxCaseVersion
                                  /\ r.expected <= r.seen /\ r.seen <= case.version

CaseInv ==
    /\ case \in StoredCase \cup {NoCase}
    /\ request \in [Clerk -> CaseCall \cup Opening \cup {NoRequest}]
    /\ \A k \in Clerk : CallSeen(request[k])

LEMMA CaseInitially == CaseInit => CaseInv
<1>1. NoRequest.op \notin CaseOp
    BY DEF NoRequest, CaseOp
<1> QED
    BY <1>1 DEF CaseInit, CaseInv, CallSeen

(* An overwrite decides on the latest version, and makes the next one.     *)
LEMMA OverwriteFacts ==
    ASSUME CaseInv, NEW k \in Clerk, NEW s \in CaseStatus, NEW e \in BOOLEAN, NEW a \in BOOLEAN,
           request[k].op \in CaseOp, Overwrites(k, s, e, a)
    PROVE  /\ CaseInv'
           /\ case # NoCase /\ case' # NoCase /\ case'.version = case.version + 1
           /\ request[k].seen = case.version
           /\ request' = [request EXCEPT ![k] = NoRequest]
<1>1. /\ request[k] \in CaseCall /\ case # NoCase /\ case \in StoredCase
      /\ request[k].expected < MaxCaseVersion
      /\ request[k].expected <= request[k].seen /\ request[k].seen <= case.version
    BY DEF CaseInv, CallSeen
<1>2. /\ request[k].expected = case.version
      /\ case' = [case EXCEPT !.version = case.version + 1, !.status = s, !.ended = e, !.assigned = a]
      /\ request' = [request EXCEPT ![k] = NoRequest]
    BY DEF Overwrites, Answer
<1>3. case.version \in Nat /\ request[k].seen \in Nat /\ case.version + 1 \in 1 .. MaxCaseVersion
    BY <1>1, <1>2, CaseAssumption DEF StoredCase, CaseCall
<1>4. request[k].seen = case.version
    BY <1>1, <1>2, <1>3
<1>5. case' \in StoredCase /\ case'.version = case.version + 1
    <2> DEFINE n == case.version + 1
    <2>1. case' = [case EXCEPT !.version = n, !.status = s, !.ended = e, !.assigned = a] /\ n \in 1 .. MaxCaseVersion
        BY <1>2, <1>3
    <2> HIDE DEF n
    <2>2. case' \in StoredCase /\ case'.version = n
        BY <1>1, <2>1 DEF StoredCase
    <2> QED
        BY <2>2 DEF n
<1>6. case' # NoCase
    BY <1>3, <1>5 DEF NoCase
<1>7. \A i \in Clerk : request'[i] \in {request[i], NoRequest}
    BY <1>2 DEF CaseInv
<1>8. NoRequest.op \notin CaseOp
    BY DEF NoRequest, CaseOp
<1>9. ASSUME NEW i \in Clerk, request'[i].op \in CaseOp PROVE CallSeen(request[i])'
    <2>1. request'[i] = request[i] /\ CallSeen(request[i])
        BY <1>7, <1>8, <1>9 DEF CaseInv
    <2>2. request[i] \in CaseCall /\ request[i].seen <= case.version
        BY <1>9, <2>1 DEF CallSeen
    <2>3. request[i].seen \in Nat
        BY <2>2, CaseAssumption DEF CaseCall
    <2>4. request[i].seen <= case'.version
        BY <1>3, <1>5, <2>2, <2>3
    <2> QED
        BY <1>6, <1>9, <2>1, <2>4 DEF CallSeen
<1>10. \A i \in Clerk : CallSeen(request[i])'
    BY <1>9 DEF CallSeen
<1>11. request' \in [Clerk -> CaseCall \cup Opening \cup {NoRequest}]
    BY <1>2 DEF CaseInv
<1> QED
    BY <1>1, <1>2, <1>4, <1>5, <1>6, <1>10, <1>11 DEF CaseInv

(* Which rows an operation writes: the status of the case stays typed.     *)
LEMMA CaseWrites ==
    ASSUME CaseInv, NEW k \in Clerk,
           AssignCase(k) \/ SetStatus(k) \/ AddHeir(k) \/ ChangeHeir(k) \/ AddNote(k)
    PROVE  \E s \in CaseStatus, e \in BOOLEAN, a \in BOOLEAN :
               request[k].op \in CaseOp /\ Overwrites(k, s, e, a)
<1>1. request[k].op \in CaseOp
    BY DEF AssignCase, SetStatus, AddHeir, ChangeHeir, AddNote, CaseOp
<1>2. request[k] \in CaseCall /\ case \in StoredCase
    BY <1>1 DEF CaseInv, CallSeen
<1>3. /\ request[k].status \in CaseStatus /\ case.status \in CaseStatus
      /\ case.ended \in BOOLEAN /\ case.assigned \in BOOLEAN
    BY <1>2 DEF CaseCall, StoredCase
<1>4. CASE AssignCase(k)
    BY <1>1, <1>3, <1>4 DEF AssignCase
<1>5. CASE SetStatus(k)
    <2>1. Overwrites(k, request[k].status, request[k].status \in EndStatus, case.assigned)
        BY <1>5 DEF SetStatus
    <2>2. (request[k].status \in EndStatus) \in BOOLEAN
        OBVIOUS
    <2> QED
        BY <1>1, <1>3, <2>1, <2>2
<1>6. CASE AddHeir(k) \/ ChangeHeir(k) \/ AddNote(k)
    BY <1>1, <1>3, <1>6 DEF AddHeir, ChangeHeir, AddNote
<1> QED
    BY <1>4, <1>5, <1>6

LEMMA CaseStepKeeps ==
    ASSUME CaseInv, NEW k \in Clerk, CaseStep(k)
    PROVE  CaseInv'
<1>1. NoRequest.op \notin CaseOp /\ \A q \in Opening : q.op \notin CaseOp
    BY DEF NoRequest, Opening, CaseOp
<1>2. ASSUME NEW r \in CaseCall \cup Opening \cup {NoRequest}, CallSeen(r), case' = case,
             request' = [request EXCEPT ![k] = r]
      PROVE  CaseInv'
    BY <1>2 DEF CaseInv, CallSeen
<1>3. CASE OpenLook(k)
    <2>1. [op |-> "open"] \in Opening
        BY DEF Opening
    <2>2. request' = [request EXCEPT ![k] = [op |-> "open"]] /\ case' = case
        BY <1>3 DEF OpenLook, Ask
    <2>3. CallSeen([op |-> "open"])
        BY <1>1, <2>1 DEF CallSeen
    <2> QED
        BY <1>2, <2>1, <2>2, <2>3
<1>4. CASE Open(k)
    <2>1. CASE case = NoCase
        <3>1. /\ case' = [version |-> 1, status |-> "NEW", ended |-> FALSE, assigned |-> FALSE, opened |-> 1]
              /\ request' = [request EXCEPT ![k] = NoRequest]
            BY <1>4, <2>1 DEF Open, Answer
        <3>2. case' \in StoredCase
            BY <3>1, CaseAssumption DEF StoredCase, CaseStatus
        <3>3. \A i \in Clerk : request[i].op \notin CaseOp
            BY <2>1 DEF CaseInv, CallSeen
        <3>4. /\ request' \in [Clerk -> CaseCall \cup Opening \cup {NoRequest}]
              /\ \A i \in Clerk : request'[i].op \notin CaseOp
            BY <1>1, <3>1, <3>3 DEF CaseInv
        <3> QED
            BY <3>2, <3>4 DEF CaseInv, CallSeen
    <2>2. CASE case # NoCase
        BY <1>1, <1>2, <1>4, <2>2 DEF Open, Answer, CallSeen
    <2> QED
        BY <2>1, <2>2
<1>5. CASE CaseReceive(k)
    <2>1. PICK op \in CaseOp, v \in 1 .. MaxCaseVersion - 1, h \in Heir, s \in CaseStatus :
              /\ v <= case.version
              /\ Ask(k, [op |-> op, expected |-> v, seen |-> case.version, heir |-> h, status |-> s])
        BY <1>5 DEF CaseReceive
    <2> DEFINE r == [op |-> op, expected |-> v, seen |-> case.version, heir |-> h, status |-> s]
    <2>2. case # NoCase /\ case \in StoredCase /\ case' = case
        BY <1>5 DEF CaseReceive, CaseInv
    <2>3. case.version \in 1 .. MaxCaseVersion /\ v \in 1 .. MaxCaseVersion /\ v < MaxCaseVersion
        BY <2>2, CaseAssumption DEF StoredCase
    <2>4. r \in CaseCall /\ CallSeen(r)
        BY <2>1, <2>2, <2>3, CaseAssumption DEF CaseCall, CallSeen
    <2>5. request' = [request EXCEPT ![k] = r]
        BY <2>1 DEF Ask
    <2> HIDE DEF r
    <2> QED
        BY <1>2, <2>2, <2>4, <2>5
<1>6. CASE CaseConflict(k)
    BY <1>1, <1>2, <1>6 DEF CaseConflict, Answer, CallSeen
<1>7. CASE AssignCase(k) \/ SetStatus(k) \/ AddHeir(k) \/ ChangeHeir(k) \/ AddNote(k)
    BY <1>7, CaseWrites, OverwriteFacts
<1> QED
    BY <1>3, <1>4, <1>5, <1>6, <1>7 DEF CaseStep

LEMMA CaseNextKeeps == CaseInv /\ [CaseNext]_caseVars => CaseInv'
BY CaseStepKeeps DEF CaseNext, caseVars, CaseInv, CallSeen

(* The invariant holds in every state.                                     *)
THEOREM CaseInvariant == CaseSpec => []CaseInv
BY CaseInitially, CaseNextKeeps, PTL DEF CaseSpec

-----------------------------------------------------------------------------
(* The refinement: what the versioned record sees of the case.             *)
SeenBy(k)   == IF request[k].op \in CaseOp THEN request[k].seen ELSE 0
CaseBasis   == [k \in Clerk |-> SeenBy(k)]
CaseVersion == IF case = NoCase THEN 1 ELSE case.version
CaseContent == IF case = NoCase THEN <<"NEW", FALSE, FALSE, 1, heirs>>
               ELSE <<case.status, case.ended, case.assigned, case.opened, heirs>>
CaseRecordStep == CaseRecord!Next \/ UNCHANGED <<CaseVersion, CaseContent, CaseBasis>>

LEMMA StepOfClerk ==
    ASSUME NEW k \in Clerk, \A i \in Clerk \ {k} : request'[i] = request[i]
    PROVE  CaseBasis' = [CaseBasis EXCEPT ![k] = SeenBy(k)']
<1>1. \A i \in Clerk \ {k} : SeenBy(i)' = SeenBy(i)
    BY DEF SeenBy
<1> QED
    BY <1>1 DEF CaseBasis

LEMMA CaseReads ==
    ASSUME NEW k \in Clerk, SeenBy(k) = 0, SeenBy(k)' = CaseVersion, UNCHANGED <<case, heirs>>,
           CaseBasis' = [CaseBasis EXCEPT ![k] = SeenBy(k)']
    PROVE  CaseRecord!Next
<1>1. /\ UNCHANGED <<CaseVersion, CaseContent>> /\ CaseBasis[k] = 0
      /\ CaseBasis' = [CaseBasis EXCEPT ![k] = CaseVersion]
    BY DEF CaseBasis, CaseVersion, CaseContent
<1>2. CaseRecord!Read(k)
    BY <1>1 DEF CaseRecord!Read, CaseRecord!Free, CaseBasis, CaseVersion, CaseContent, SeenBy
<1> QED
    BY <1>2 DEF CaseRecord!Next

LEMMA CaseOverwrites ==
    ASSUME NEW k \in Clerk, SeenBy(k) = CaseVersion, SeenBy(k)' = 0, CaseVersion' = CaseVersion + 1,
           CaseBasis' = [CaseBasis EXCEPT ![k] = SeenBy(k)']
    PROVE  CaseRecord!Next
<1>1. CaseBasis[k] = CaseVersion /\ CaseBasis' = [CaseBasis EXCEPT ![k] = 0]
    BY DEF CaseBasis
<1>2. CaseRecord!Overwrite(k)
    BY <1>1 DEF CaseRecord!Overwrite, CaseRecord!Free, CaseBasis, CaseVersion, SeenBy
<1> QED
    BY <1>2 DEF CaseRecord!Next

LEMMA CaseRefuses ==
    ASSUME NEW k \in Clerk, SeenBy(k) # 0, SeenBy(k)' = 0, UNCHANGED <<case, heirs>>,
           CaseBasis' = [CaseBasis EXCEPT ![k] = SeenBy(k)']
    PROVE  CaseRecord!Next
<1>1. /\ UNCHANGED <<CaseVersion, CaseContent>> /\ CaseBasis[k] # 0
      /\ CaseBasis' = [CaseBasis EXCEPT ![k] = 0]
    BY DEF CaseBasis, CaseVersion, CaseContent
<1>2. CaseRecord!Refuse(k)
    BY <1>1 DEF CaseRecord!Refuse, CaseRecord!Free, CaseBasis, CaseVersion, CaseContent, SeenBy
<1> QED
    BY <1>2 DEF CaseRecord!Next

LEMMA CaseStepAbstract ==
    ASSUME CaseInv, NEW k \in Clerk, CaseStep(k)
    PROVE  CaseRecordStep
<1>1. NoRequest.op \notin CaseOp /\ "open" \notin CaseOp
    BY DEF NoRequest, CaseOp
<1>2. request \in [Clerk -> CaseCall \cup Opening \cup {NoRequest}]
    BY DEF CaseInv
<1>3. ASSUME UNCHANGED <<CaseVersion, CaseContent>>, \A i \in Clerk \ {k} : request'[i] = request[i],
             SeenBy(k)' = SeenBy(k)
      PROVE  CaseRecordStep
    <2>1. \A i \in Clerk : SeenBy(i)' = SeenBy(i)
        BY <1>3 DEF SeenBy
    <2> QED
        BY <1>3, <2>1 DEF CaseRecordStep, CaseBasis
<1>4. CASE OpenLook(k)
    <2>1. /\ request[k] = NoRequest /\ request'[k] = [op |-> "open"] /\ UNCHANGED <<case, heirs>>
          /\ \A i \in Clerk \ {k} : request'[i] = request[i]
        BY <1>2, <1>4 DEF OpenLook, Ask
    <2>2. SeenBy(k)' = SeenBy(k)
        BY <1>1, <2>1 DEF SeenBy
    <2>3. UNCHANGED <<CaseVersion, CaseContent>>
        BY <2>1 DEF CaseVersion, CaseContent
    <2> QED
        BY <1>3, <2>1, <2>2, <2>3
<1>5. CASE Open(k)
    <2>1. /\ request[k].op = "open" /\ request'[k] = NoRequest /\ heirs' = heirs
          /\ \A i \in Clerk \ {k} : request'[i] = request[i]
          /\ IF case = NoCase
             THEN case' = [version |-> 1, status |-> "NEW", ended |-> FALSE, assigned |-> FALSE, opened |-> 1]
             ELSE case' = case
        BY <1>2, <1>5 DEF Open, Answer
    <2>2. SeenBy(k)' = SeenBy(k)
        BY <1>1, <2>1 DEF SeenBy
    <2>3. UNCHANGED <<CaseVersion, CaseContent>>
        <3>1. CASE case = NoCase
            <4>1. NoCase.version = 0 /\ case'.version = 1
                BY <2>1, <3>1 DEF NoCase
            <4>2. case' # NoCase
                BY <4>1
            <4>3. /\ case'.status = "NEW" /\ case'.ended = FALSE
                  /\ case'.assigned = FALSE /\ case'.opened = 1
                BY <2>1, <3>1
            <4>4. CaseVersion = 1 /\ CaseVersion' = 1
                BY <3>1, <4>1, <4>2 DEF CaseVersion
            <4>5. CaseContent = <<"NEW", FALSE, FALSE, 1, heirs>>
                BY <3>1 DEF CaseContent
            <4>6. CaseContent' = <<"NEW", FALSE, FALSE, 1, heirs>>
                <5>1. CaseContent' = <<case'.status, case'.ended, case'.assigned, case'.opened, heirs'>>
                    BY <4>2, Zenon DEF CaseContent
                <5> QED
                    BY <2>1, <4>3, <5>1
            <4> QED
                BY <4>4, <4>5, <4>6
        <3>2. CASE case # NoCase
            BY <2>1, <3>2 DEF CaseVersion, CaseContent
        <3> QED
            BY <3>1, <3>2
    <2> QED
        BY <1>3, <2>1, <2>2, <2>3
<1>6. CASE CaseReceive(k)
    <2>1. PICK op \in CaseOp, v \in 1 .. MaxCaseVersion - 1, h \in Heir, s \in CaseStatus :
              Ask(k, [op |-> op, expected |-> v, seen |-> case.version, heir |-> h, status |-> s])
        BY <1>6 DEF CaseReceive
    <2>2. case # NoCase /\ UNCHANGED <<case, heirs>>
        BY <1>6 DEF CaseReceive
    <2>3. /\ request[k] = NoRequest /\ request'[k].op = op /\ request'[k].seen = case.version
          /\ \A i \in Clerk \ {k} : request'[i] = request[i]
        BY <1>2, <2>1 DEF Ask
    <2>4. SeenBy(k) = 0 /\ SeenBy(k)' = CaseVersion
        BY <1>1, <2>2, <2>3 DEF SeenBy, CaseVersion
    <2> QED
        BY <2>2, <2>3, <2>4, StepOfClerk, CaseReads DEF CaseRecordStep
<1>7. CASE CaseConflict(k)
    <2>1. /\ request'[k] = NoRequest /\ UNCHANGED <<case, heirs>>
          /\ \A i \in Clerk \ {k} : request'[i] = request[i]
        BY <1>2, <1>7 DEF CaseConflict, Answer
    <2>2. SeenBy(k)' = 0
        BY <1>1, <2>1 DEF SeenBy
    <2>3. CASE SeenBy(k) = 0
        BY <1>3, <2>1, <2>2, <2>3 DEF CaseVersion, CaseContent
    <2>4. CASE SeenBy(k) # 0
        BY <2>1, <2>2, <2>4, StepOfClerk, CaseRefuses DEF CaseRecordStep
    <2> QED
        BY <2>3, <2>4
<1>8. CASE AssignCase(k) \/ SetStatus(k) \/ AddHeir(k) \/ ChangeHeir(k) \/ AddNote(k)
    <2>1. /\ request[k].op \in CaseOp /\ case # NoCase /\ case' # NoCase
          /\ case'.version = case.version + 1 /\ request[k].seen = case.version
          /\ request' = [request EXCEPT ![k] = NoRequest]
        BY <1>8, CaseWrites, OverwriteFacts
    <2>2. request'[k] = NoRequest /\ \A i \in Clerk \ {k} : request'[i] = request[i]
        BY <1>2, <2>1
    <2>3. SeenBy(k) = CaseVersion /\ SeenBy(k)' = 0 /\ CaseVersion' = CaseVersion + 1
        BY <1>1, <2>1, <2>2 DEF SeenBy, CaseVersion
    <2> QED
        BY <2>2, <2>3, StepOfClerk, CaseOverwrites DEF CaseRecordStep
<1> QED
    BY <1>4, <1>5, <1>6, <1>7, <1>8 DEF CaseStep

LEMMA CaseInitAbstract == CaseInit => CaseRecord!Init
<1>1. NoRequest.op \notin CaseOp
    BY DEF NoRequest, CaseOp
<1> QED
    BY <1>1 DEF CaseInit, CaseRecord!Init, CaseRecord!Free

LEMMA CaseNextAbstract ==
    CaseInv /\ [CaseNext]_caseVars => [CaseRecord!Next]_<<CaseVersion, CaseContent, CaseBasis>>
<1> SUFFICES ASSUME CaseInv, [CaseNext]_caseVars PROVE CaseRecordStep
    BY DEF CaseRecordStep
<1>1. CASE UNCHANGED caseVars
    BY <1>1 DEF caseVars, CaseRecordStep, CaseVersion, CaseContent, CaseBasis, SeenBy
<1>2. CASE CaseNext
    BY <1>2, CaseStepAbstract DEF CaseNext
<1> QED
    BY <1>1, <1>2

(* An inheritance case and its heirs are one versioned record, and the     *)
(* opening of the case, by however many clerks at once, adds nothing to it.*)
THEOREM CaseImplementsVersionedRecord == CaseSpec => CaseIsVersionedRecord
BY CaseInitAbstract, CaseNextAbstract, CaseInvariant, PTL
   DEF CaseSpec, CaseIsVersionedRecord, CaseRecord!Spec, CaseBasis, SeenBy, CaseVersion, CaseContent

-----------------------------------------------------------------------------
(* A version of p that has not gone back is above that of every tile that  *)
(* p keeps and request that p answers, or equal to it; those of its own    *)
(* version lack nothing that p has covered.                                *)
TileInv ==
    /\ TileTypeOK
    /\ \A p \in Process : covers[p] <= layer
    /\ \A p \in Server \ back, n \in 1 .. MaxTileVersion : \A content \in tiles[p][n] :
          n <= Current(p) /\ (n = Current(p) => covers[p] <= content)
    /\ \A v \in Viewer : view[v] # NoView /\ view[v].process \notin back =>
          /\ view[v].version <= Current(view[v].process)
          /\ view[v].pc = "store" /\ view[v].version = Current(view[v].process) =>
                covers[view[v].process] <= view[v].content

LEMMA TileInitially == TileInit => TileInv
BY TileAssumption DEF TileInit, TileInv, TileTypeOK, NoView, NoWrite, Current, Process

(* What the writers and readers of a step leave alone.                     *)
LEMMA CurrentIsVersion ==
    ASSUME TileTypeOK, NEW p \in Process PROVE Current(p) \in 1 .. MaxTileVersion
BY TileAssumption DEF TileTypeOK, Current

(* A writer that does not bump adds to the layer at most.                  *)
LEMMA WriterKeeps ==
    ASSUME TileInv, NEW w \in Writer, WriteBegins(w) \/ BumpMisses(w) \/ WriteEnds(w)
    PROVE  TileInv'
<1> USE TileAssumption
<1>1. UNCHANGED <<tileVersion, tiles, view, covers, back>>
    BY DEF WriteBegins, BumpMisses, WriteEnds
<1>2. layer' \in 0 .. MaxWrites /\ layer <= layer'
    BY DEF TileInv, TileTypeOK, WriteBegins, BumpMisses, WriteEnds
<1>3. write' \in [Writer -> Write \cup {NoWrite}]
    <2>1. CASE WriteBegins(w)
        <3>1. PICK p \in Process, inside \in BOOLEAN :
                  write' = [write EXCEPT ![w] = [pc |-> "committed", process |-> p, inside |-> inside]]
            BY <2>1 DEF WriteBegins
        <3>2. [pc |-> "committed", process |-> p, inside |-> inside] \in Write
            BY DEF Write
        <3> QED
            BY <3>1, <3>2 DEF TileInv, TileTypeOK
    <2>2. CASE BumpMisses(w)
        <3>1. write[w] \in Write
            BY <2>2 DEF BumpMisses, TileInv, TileTypeOK, NoWrite
        <3>2. [write[w] EXCEPT !.pc = "missed"] \in Write
            BY <3>1 DEF Write
        <3> QED
            BY <2>2, <3>2 DEF BumpMisses, TileInv, TileTypeOK
    <2>3. CASE WriteEnds(w)
        BY <2>3 DEF WriteEnds, TileInv, TileTypeOK
    <2> QED
        BY <2>1, <2>2, <2>3
<1>4. TileTypeOK' /\ \A p \in Process : covers'[p] <= layer'
    BY <1>1, <1>2, <1>3 DEF TileInv, TileTypeOK
<1> QED
    BY <1>1, <1>4 DEF TileInv, Current

LEMMA BulkWriteKeeps == ASSUME TileInv, BulkWrite PROVE TileInv'
<1>1. TileTypeOK' /\ \A p \in Process : covers'[p] <= layer'
    BY TileAssumption DEF BulkWrite, TileInv, TileTypeOK
<1> QED
    BY <1>1 DEF BulkWrite, TileInv, Current

(* An increment leads to a version under which there is nothing yet; so    *)
(* does the set to 2, unless it takes the version back.                    *)
LEMMA BumpKeeps ==
    ASSUME TileInv, NEW w \in Writer, Bump(w) \/ BumpMissed(w)
    PROVE  TileInv'
<1> USE TileAssumption
<1>0. write[w] \in Write
    BY DEF Bump, BumpMissed, TileInv, TileTypeOK, NoWrite, Write
<1>1. PICK q \in Process : q = write[w].process
    BY <1>0 DEF Write
<1>2. PICK version \in 1 .. MaxTileVersion :
          /\ Bumped(w, version)
          /\ q \notin back' => version = Current(q) + 1
          /\ back' \in {back, back \cup {q}}
    BY <1>1 DEF Bump, BumpMissed, Current, TileInv, TileTypeOK
<1>3. /\ tileVersion' = [tileVersion EXCEPT ![q] = version]
      /\ covers' = [covers EXCEPT ![q] = layer]
      /\ UNCHANGED <<layer, tiles, view>>
    BY <1>1, <1>2 DEF Bumped, Bump, BumpMissed
<1>4. write' \in [Writer -> Write \cup {NoWrite}]
    <2>1. [write[w] EXCEPT !.pc = "bumped"] \in Write
        BY <1>0 DEF Write
    <2> QED
        BY <1>2, <2>1 DEF Bumped, TileInv, TileTypeOK
<1>5. TileTypeOK' /\ \A p \in Process : covers'[p] <= layer'
    BY <1>1, <1>2, <1>3, <1>4 DEF TileInv, TileTypeOK
<1>6. /\ \A p \in Process : p # q => Current(p)' = Current(p) /\ covers'[p] = covers[p]
      /\ q \notin back' => Current(q)' = Current(q) + 1
    <2>1. \A p \in Process : tileVersion'[p] = IF p = q THEN version ELSE tileVersion[p]
        BY <1>3 DEF TileInv, TileTypeOK
    <2>2. \A p \in Process : p # q => Current(p)' = Current(p) /\ covers'[p] = covers[p]
        BY <1>3, <2>1 DEF Current, TileInv, TileTypeOK
    <2>3. Current(q)' = version
        <3>1. tileVersion'[q] = version /\ version # 0
            BY <1>1, <2>1
        <3> QED
            BY <3>1 DEF Current
    <2> QED
        BY <1>2, <2>2, <2>3
<1>7. \A p \in Process : Current(p) \in Int /\ covers[p] \in Int
    <2>1. TileTypeOK
        BY DEF TileInv
    <2>2. \A p \in Process : Current(p) \in 1 .. MaxTileVersion
        BY <2>1, CurrentIsVersion
    <2> QED
        BY <2>1, <2>2 DEF TileTypeOK
<1>8. ASSUME NEW p \in Server \ back', NEW n \in 1 .. MaxTileVersion, NEW content \in tiles'[p][n]
      PROVE  n <= Current(p)' /\ (n = Current(p)' => covers'[p] <= content)
    <2>1. p \in Process /\ p \notin back /\ content \in tiles[p][n]
        BY <1>2, <1>3, <1>8 DEF Process
    <2>2. n <= Current(p) /\ (n = Current(p) => covers[p] <= content)
        BY <1>8, <2>1 DEF TileInv
    <2> QED
        BY <1>6, <1>7, <1>8, <2>1, <2>2
<1>9. ASSUME NEW v \in Viewer, view'[v] # NoView, view'[v].process \notin back'
      PROVE  (/\ view[v].version <= Current(view[v].process)
              /\ view[v].pc = "store" /\ view[v].version = Current(view[v].process) =>
                    covers[view[v].process] <= view[v].content)'
    <2>0. view'[v] = view[v] /\ view[v] \in View
        BY <1>3, <1>9 DEF TileInv, TileTypeOK
    <2>1. PICK p \in Process : p = view[v].process /\ p = view'[v].process /\ p \notin back /\ p \notin back'
        BY <1>2, <1>9, <2>0 DEF View, Process
    <2>2. view[v].version \in Int
        BY <2>0 DEF View
    <2>3. /\ view[v].version <= Current(p)
          /\ view[v].pc = "store" /\ view[v].version = Current(p) => covers[p] <= view[v].content
        BY <1>9, <2>0, <2>1 DEF TileInv
    <2> QED
        BY <1>6, <1>7, <2>0, <2>1, <2>2, <2>3
<1> QED
    BY <1>3, <1>5, <1>8, <1>9 DEF TileInv

(* A request takes the version that is current; what it reads has          *)
(* everything that has been covered by then, and it stores it under the    *)
(* version that it has taken.                                              *)
LEMMA ViewerKeeps ==
    ASSUME TileInv, NEW v \in Viewer,
           TileAsk(v) \/ TileHit(v) \/ TileMiss(v) \/ TileRead(v) \/ TileStore(v) \/ TileFails(v)
    PROVE  TileInv'
<1> USE TileAssumption
<1>1. UNCHANGED <<layer, tileVersion, write, covers, back>>
    BY DEF TileAsk, TileHit, TileMiss, TileRead, TileStore, TileFails
<1>2. \A p : Current(p)' = Current(p)
    BY <1>1 DEF Current
<1>3. CASE TileAsk(v)
    <2>1. PICK p \in Server : view' = [view EXCEPT ![v] =
              [pc |-> "look", process |-> p, version |-> Current(p), content |-> 0]]
        BY <1>3 DEF TileAsk
    <2> DEFINE q == [pc |-> "look", process |-> p, version |-> Current(p), content |-> 0]
    <2>2. Current(p) \in 1 .. MaxTileVersion
        BY CurrentIsVersion DEF TileInv, Process
    <2>3. q \in View /\ q.pc # "store" /\ q.version = Current(p) /\ q.process = p
        BY <2>2 DEF View, TileInv, TileTypeOK
    <2>4. UNCHANGED tiles /\ view' = [view EXCEPT ![v] = q]
        BY <1>3, <2>1 DEF TileAsk
    <2> HIDE DEF q
    <2>5. TileTypeOK'
        BY <1>1, <2>3, <2>4 DEF TileInv, TileTypeOK
    <2> QED
        BY <1>1, <1>2, <2>2, <2>3, <2>4, <2>5 DEF TileInv, TileTypeOK
<1>4. CASE TileHit(v) \/ TileFails(v)
    <2>1. UNCHANGED tiles /\ view' = [view EXCEPT ![v] = NoView]
        BY <1>4 DEF TileHit, TileFails
    <2>2. TileTypeOK'
        BY <1>1, <2>1 DEF TileInv, TileTypeOK
    <2> QED
        BY <1>1, <1>2, <2>1, <2>2 DEF TileInv, TileTypeOK
<1>5. CASE TileMiss(v)
    <2> DEFINE q == [view[v] EXCEPT !.pc = "read"]
    <2>1. view[v] \in View
        BY <1>5 DEF TileMiss, TileInv, TileTypeOK, NoView
    <2>2. q \in View /\ q.pc # "store" /\ q.version = view[v].version /\ q.process = view[v].process
        BY <2>1 DEF View
    <2>3. UNCHANGED tiles /\ view' = [view EXCEPT ![v] = q] /\ view[v] # NoView
        BY <1>5 DEF TileMiss, NoView
    <2> HIDE DEF q
    <2>4. TileTypeOK'
        BY <1>1, <2>2, <2>3 DEF TileInv, TileTypeOK
    <2> QED
        BY <1>1, <1>2, <2>2, <2>3, <2>4 DEF TileInv, TileTypeOK
<1>6. CASE TileRead(v)
    <2> DEFINE q == [view[v] EXCEPT !.pc = "store", !.content = layer]
    <2>1. view[v] \in View /\ view[v].process \in Process
        BY <1>6 DEF TileRead, TileInv, TileTypeOK, NoView, View, Process
    <2>2. /\ q \in View /\ q.version = view[v].version /\ q.process = view[v].process
          /\ covers[q.process] <= q.content
        BY <2>1 DEF View, TileInv, TileTypeOK
    <2>3. UNCHANGED tiles /\ view' = [view EXCEPT ![v] = q] /\ view[v] # NoView
        BY <1>6 DEF TileRead, NoView
    <2> HIDE DEF q
    <2>4. TileTypeOK'
        BY <1>1, <2>2, <2>3 DEF TileInv, TileTypeOK
    <2> QED
        BY <1>1, <1>2, <2>2, <2>3, <2>4 DEF TileInv, TileTypeOK
<1>7. CASE TileStore(v)
    <2> DEFINE p == view[v].process
               m == view[v].version
               c == view[v].content
    <2>1. view[v] \in View /\ view[v] # NoView
        BY <1>7 DEF TileStore, TileInv, TileTypeOK, NoView
    <2>2. p \in Server /\ m \in 1 .. MaxTileVersion /\ c \in 0 .. MaxWrites
        BY <2>1 DEF View
    <2>3. p \notin back => m <= Current(p) /\ (m = Current(p) => covers[p] <= c)
        BY <1>7, <2>1 DEF TileInv, TileStore
    <2>4. tiles' = [tiles EXCEPT ![p][m] = {c}] /\ view' = [view EXCEPT ![v] = NoView]
        BY <1>7 DEF TileStore
    <2> HIDE DEF p, m, c
    <2>5. TileTypeOK'
        BY <1>1, <2>2, <2>4 DEF TileInv, TileTypeOK
    <2>6. ASSUME NEW s \in Server \ back', NEW n \in 1 .. MaxTileVersion, NEW content \in tiles'[s][n]
          PROVE  n <= Current(s)' /\ (n = Current(s)' => covers'[s] <= content)
        <3>1. CASE s = p /\ n = m
            BY <1>1, <1>2, <2>2, <2>3, <2>4, <2>6, <3>1 DEF TileInv, TileTypeOK
        <3>2. CASE ~(s = p /\ n = m)
            <4>1. content \in tiles[s][n]
                BY <2>2, <2>4, <2>6, <3>2 DEF TileInv, TileTypeOK
            <4> QED
                BY <1>1, <1>2, <2>6, <4>1 DEF TileInv
        <3> QED
            BY <3>1, <3>2
    <2> QED
        BY <1>1, <1>2, <2>4, <2>5, <2>6 DEF TileInv, TileTypeOK
<1> QED
    BY <1>3, <1>4, <1>5, <1>6, <1>7

(* Caches and processes only lose what they hold.                          *)
LEMMA LossKeeps ==
    ASSUME TileInv, NEW p \in Process,
           VersionIsCulled(p) \/ ProcessRestarts(p) \/ \E n \in 1 .. MaxTileVersion : p \in Server /\ TileExpires(p, n)
    PROVE  TileInv'
<1> USE TileAssumption
<1>1. UNCHANGED <<layer, covers>>
    BY DEF VersionIsCulled, ProcessRestarts, TileExpires
<1>2. CASE VersionIsCulled(p)
    <2>1. /\ UNCHANGED <<tiles, view, write>> /\ back' = back \cup {p}
          /\ tileVersion' = [tileVersion EXCEPT ![p] = 0]
        BY <1>2 DEF VersionIsCulled
    <2>2. TileTypeOK'
        BY <1>1, <2>1 DEF TileInv, TileTypeOK
    <2>3. \A q \in Process : q # p => Current(q)' = Current(q)
        BY <2>1 DEF Current, TileInv, TileTypeOK
    <2>4. \A v \in Viewer : view[v] # NoView => view[v].process \in Process
        BY DEF TileInv, TileTypeOK, View, Process
    <2> QED
        BY <1>1, <2>1, <2>2, <2>3, <2>4 DEF TileInv, Process
<1>3. CASE ProcessRestarts(p)
    <2>1. /\ tileVersion' = [tileVersion EXCEPT ![p] = 0]
          /\ back' = back \ {p}
        BY <1>3 DEF ProcessRestarts
    <2>2. /\ tiles' \in [Server -> [1 .. MaxTileVersion -> SUBSET (0 .. MaxWrites)]]
          /\ \A s \in Server, n \in 1 .. MaxTileVersion :
                tiles'[s][n] = IF s = p THEN {} ELSE tiles[s][n]
        BY <1>3 DEF ProcessRestarts, TileInv, TileTypeOK
    <2>3. /\ view' \in [Viewer -> View \cup {NoView}]
          /\ \A v \in Viewer : view'[v] # NoView => view'[v] = view[v] /\ view[v].process # p
        BY <1>3 DEF ProcessRestarts, TileInv, TileTypeOK
    <2>4. write' \in [Writer -> Write \cup {NoWrite}]
        BY <1>3 DEF ProcessRestarts, TileInv, TileTypeOK
    <2>5. TileTypeOK'
        BY <1>1, <2>1, <2>2, <2>3, <2>4 DEF TileInv, TileTypeOK
    <2>6. \A q \in Process : q # p => Current(q)' = Current(q) /\ (q \notin back' => q \notin back)
        BY <2>1 DEF Current, TileInv, TileTypeOK
    <2>7. \A v \in Viewer : view[v] # NoView => view[v].process \in Process
        BY DEF TileInv, TileTypeOK, View, Process
    <2>8. ASSUME NEW s \in Server \ back', NEW n \in 1 .. MaxTileVersion, NEW content \in tiles'[s][n]
          PROVE  n <= Current(s)' /\ (n = Current(s)' => covers'[s] <= content)
        BY <1>1, <2>2, <2>6, <2>8 DEF TileInv, Process
    <2>9. ASSUME NEW v \in Viewer, view'[v] # NoView, view'[v].process \notin back'
          PROVE  (/\ view[v].version <= Current(view[v].process)
                  /\ view[v].pc = "store" /\ view[v].version = Current(view[v].process) =>
                        covers[view[v].process] <= view[v].content)'
        <3>1. view'[v] = view[v] /\ view[v] # NoView /\ view[v].process # p
            BY <2>3, <2>9
        <3>2. PICK q \in Process : q = view[v].process /\ q = view'[v].process /\ q \notin back
            BY <2>6, <2>7, <2>9, <3>1
        <3>3. Current(q)' = Current(q)
            BY <2>6, <3>1, <3>2
        <3> QED
            BY <1>1, <3>1, <3>2, <3>3 DEF TileInv
    <2> QED
        BY <1>1, <2>5, <2>8, <2>9 DEF TileInv
<1>4. ASSUME NEW n \in 1 .. MaxTileVersion, p \in Server, TileExpires(p, n)
      PROVE  TileInv'
    <2>1. UNCHANGED <<tileVersion, view, write, back>> /\ tiles' = [tiles EXCEPT ![p][n] = {}]
        BY <1>4 DEF TileExpires
    <2>2. TileTypeOK'
        BY <1>1, <2>1 DEF TileInv, TileTypeOK
    <2>3. \A s \in Server, i \in 1 .. MaxTileVersion : tiles'[s][i] \subseteq tiles[s][i]
        BY <1>4, <2>1 DEF TileInv, TileTypeOK
    <2> QED
        BY <1>1, <2>1, <2>2, <2>3 DEF TileInv, Current
<1> QED
    BY <1>2, <1>3, <1>4

LEMMA TileNextKeeps == TileInv /\ [TileNext]_tileVars => TileInv'
<1> SUFFICES ASSUME TileInv, [TileNext]_tileVars PROVE TileInv'
    OBVIOUS
<1>1. CASE UNCHANGED tileVars
    BY <1>1 DEF tileVars, TileInv, TileTypeOK, Current
<1>2. CASE TileNext
    BY <1>2, WriterKeeps, BumpKeeps, BulkWriteKeeps, ViewerKeeps, LossKeeps DEF TileNext, Process
<1> QED
    BY <1>1, <1>2

(* The invariant of the tiles holds in every state.                        *)
THEOREM TileInvariant == TileSpec => []TileInv
BY TileInitially, TileNextKeeps, PTL DEF TileSpec

(* The layer, the tiles and the requests keep their types.                 *)
THEOREM TileTypeCorrect == TileSpec => []TileTypeOK
<1>1. TileInv => TileTypeOK
    BY DEF TileInv
<1> QED
    BY <1>1, TileInvariant, PTL

LEMMA CurrentTilesAreCovered == TileInv => ServerForgetsOldTiles
<1> SUFFICES ASSUME TileInv, NEW p \in Server \ back, NEW content \in tiles[p][Current(p)]
             PROVE  covers[p] <= content
    BY DEF ServerForgetsOldTiles
<1>1. Current(p) \in 1 .. MaxTileVersion
    BY CurrentIsVersion DEF TileInv, Process
<1> QED
    BY <1>1 DEF TileInv

(* A server that has invalidated the layer answers with no tile that was   *)
(* read before, for any number of processes, browsers and writes.          *)
THEOREM OldTilesAreForgotten == TileSpec => []ServerForgetsOldTiles
BY CurrentTilesAreCovered, TileInvariant, PTL

-----------------------------------------------------------------------------
StaffRequest ==
    [op : {"create", "roles", "delete", "local", "privileges"},
     pc : {"post", "read", "strip", "grant", "save", "link", "undo", "close", "drop", "clear", "add"},
     row : {Named} \cup Account, account : 0 .. MaxAccounts, roles : SUBSET Role,
     had : SUBSET Role, unlinked : BOOLEAN]

(* What a managed user may have under key r.                               *)
MayHave(r) ==
    {Member} \cup (IF r = Named THEN UNION {granted[a] : a \in Account} ELSE granted[r])

(* A request saves roles only after it has granted them, to the account of *)
(* the user.                                                               *)
RequestSound(q, g) ==
    /\ q.op \in {"create", "roles"} /\ q.pc = "save" =>
          q.account \in Account /\ q.roles \subseteq g[q.account]
    /\ q.op \in {"local", "privileges"} => q.roles \subseteq Legacy
    /\ q.op = "create" => q.row = Named
    /\ q.op = "roles" /\ q.row # Named => q.account = q.row /\ ~q.unlinked
    /\ q.op = "roles" /\ q.pc = "link" => q.row = Named

LoginSound(q, g) == q.op = "login" => q.roles \subseteq g[q.account]

StaffInv ==
    /\ StaffTypeOK
    /\ RolesWereGranted
    /\ \A a \in Account : mapped[a] \subseteq granted[a]
    /\ \A r \in Account : Exists(r) => user[r].subject = r
    /\ \A m \in Admin : RequestSound(admin[m], granted)
    /\ \A v \in Login : LoginSound(login[v], granted)

LEMMA StaffInitially == StaffInit => StaffInv
BY StaffAssumption DEF StaffInit, StaffInv, StaffTypeOK, RolesWereGranted, RequestSound, LoginSound,
    Exists, NoUser, Idle, Account, Named

(* What an access to one request may do to the invariant: nothing, as long *)
(* as the request stays sound and accounts lose roles only.                *)
LEMMA RequestKeeps ==
    ASSUME StaffInv, NEW m \in Admin, NEW q \in StaffRequest \cup {Idle}, RequestSound(q, granted),
           admin' = [admin EXCEPT ![m] = q],
           accounts' \in 0 .. MaxAccounts, open' \in SUBSET (1 .. accounts'),
           mapped' \in [Account -> SUBSET Role], \A a \in Account : mapped'[a] \subseteq mapped[a],
           UNCHANGED <<granted, user, login>>
    PROVE  StaffInv'
<1>1. StaffTypeOK'
    BY DEF StaffInv, StaffTypeOK, StaffRequest
<1>2. \A i \in Admin : admin'[i] \in {admin[i], q}
    BY DEF StaffInv, StaffTypeOK
<1>3. \A i \in Admin : RequestSound(admin'[i], granted')
    BY <1>2 DEF StaffInv, RequestSound
<1> QED
    BY <1>1, <1>3 DEF StaffInv, RolesWereGranted, LoginSound, Exists

(* One user is saved or deleted, with roles that it may have.              *)
LEMMA UserKeeps ==
    ASSUME StaffInv, NEW r \in {Named} \cup Account, NEW u \in LocalUser \cup {NoUser},
           u # NoUser /\ u.managed => u.roles \subseteq MayHave(r),
           u # NoUser /\ r \in Account => u.subject = r,
           user' = [user EXCEPT ![r] = u],
           admin' \in [Admin -> StaffRequest \cup {Idle}], \A m \in Admin : RequestSound(admin'[m], granted),
           login' \in [Login -> {Idle} \cup [op : {"login"}, account : Account, roles : SUBSET Role]],
           \A v \in Login : LoginSound(login'[v], granted),
           UNCHANGED <<accounts, open, mapped, granted>>
    PROVE  StaffInv'
<1>1. StaffTypeOK'
    BY DEF StaffInv, StaffTypeOK, StaffRequest, LocalUser
<1>2. \A s \in {Named} \cup Account : user'[s] = IF s = r THEN u ELSE user[s]
    BY DEF StaffInv, StaffTypeOK
<1>3. RolesWereGranted'
    BY <1>2 DEF StaffInv, RolesWereGranted, Exists, MayHave
<1>4. \A s \in Account : Exists(s)' => user'[s].subject = s
    BY <1>2 DEF StaffInv, Exists
<1> QED
    BY <1>1, <1>3, <1>4 DEF StaffInv, RequestSound, LoginSound

(* The request that an administrator's process holds, and what it becomes. *)
LEMMA Holding ==
    ASSUME StaffInv, NEW m \in Admin, admin[m].op # "none"
    PROVE  admin[m] \in StaffRequest /\ RequestSound(admin[m], granted)
BY DEF StaffInv, StaffTypeOK, StaffRequest, Idle

LEMMA IdleSound == RequestSound(Idle, granted) /\ Idle \in StaffRequest \cup {Idle}
BY DEF RequestSound, Idle

LEMMA StepSound ==
    ASSUME StaffInv, NEW m \in Admin, admin[m].op # "none"
    PROVE  /\ Ends(m) = [admin EXCEPT ![m] = Idle]
           /\ \A pc \in {"strip", "grant", "undo", "drop", "add"} :
                  \E q \in StaffRequest : RequestSound(q, granted) /\ GoesTo(m, pc) = [admin EXCEPT ![m] = q]
           /\ \E q \in StaffRequest \cup {Idle} : RequestSound(q, granted) /\ Failed(m) = [admin EXCEPT ![m] = q]
<1>1. admin[m] \in StaffRequest /\ RequestSound(admin[m], granted)
    BY Holding
<1>2. ASSUME NEW pc \in {"strip", "grant", "undo", "drop", "add"}
      PROVE  \E q \in StaffRequest : RequestSound(q, granted) /\ GoesTo(m, pc) = [admin EXCEPT ![m] = q]
    <2> DEFINE q == [admin[m] EXCEPT !.pc = pc]
    <2>1. q \in StaffRequest /\ RequestSound(q, granted)
        BY <1>1 DEF StaffRequest, RequestSound
    <2>2. GoesTo(m, pc) = [admin EXCEPT ![m] = q]
        BY DEF GoesTo
    <2> QED
        BY <2>1, <2>2
<1> QED
    BY <1>2, IdleSound DEF Failed, Ends

LEMMA BeginsKeeps ==
    ASSUME StaffInv, NEW m \in Admin,
           CreateBegins(m) \/ RolesBegin(m) \/ DeleteBegins(m) \/ LocalCreateBegins(m) \/ PrivilegesBegin(m)
    PROVE  StaffInv'
<1>1. ASSUME NEW op \in {"create", "roles", "delete", "local", "privileges"},
             NEW pc \in {"post", "read", "close", "save", "clear"},
             NEW r \in {Named} \cup Account, NEW a \in 0 .. MaxAccounts, NEW roles \in SUBSET Role,
             Begins(m, op, pc, r, a, roles),
             op = "create" => r = Named, op = "roles" /\ r # Named => a = r,
             op \in {"create", "roles"} => pc # "save",
             op \in {"local", "privileges"} => roles \subseteq Legacy
      PROVE  StaffInv'
    <2> DEFINE q == [op |-> op, pc |-> pc, row |-> r, account |-> a, roles |-> roles,
                     had |-> {}, unlinked |-> a = 0]
    <2>1. q \in StaffRequest
        BY DEF StaffRequest
    <2>2. RequestSound(q, granted)
        BY <1>1 DEF RequestSound, Account, Named
    <2>3. admin' = [admin EXCEPT ![m] = q] /\ UNCHANGED <<accounts, open, mapped, granted, user, login>>
        BY <1>1 DEF Begins
    <2> HIDE DEF q
    <2> QED
        BY <2>1, <2>2, <2>3, RequestKeeps DEF StaffInv, StaffTypeOK
<1>2. \A r \in {Named} \cup Account : Exists(r) =>
          user[r].subject \in 0 .. MaxAccounts /\ (r # Named => user[r].subject = r)
    BY DEF StaffInv, StaffTypeOK, Exists, LocalUser, Named
<1>3. Offered \subseteq SUBSET Role /\ SUBSET Legacy \subseteq SUBSET Role /\ Named \in {Named} \cup Account /\ 0 \in 0 .. MaxAccounts
    BY StaffAssumption
<1>4. CASE CreateBegins(m)
    BY <1>1, <1>3, <1>4 DEF CreateBegins
<1>5. CASE RolesBegin(m)
    BY <1>1, <1>2, <1>3, <1>5 DEF RolesBegin
<1>6. CASE DeleteBegins(m)
    BY <1>1, <1>2, <1>6 DEF DeleteBegins
<1>7. CASE LocalCreateBegins(m)
    BY <1>1, <1>3, <1>7 DEF LocalCreateBegins
<1>8. CASE PrivilegesBegin(m)
    BY <1>1, <1>3, <1>8 DEF PrivilegesBegin
<1> QED
    BY <1>4, <1>5, <1>6, <1>7, <1>8

(* Calls to Keycloak that give no roles.                                   *)
LEMMA CallKeeps ==
    ASSUME StaffInv, NEW m \in Admin,
           PostAccount(m) \/ ReadMappings(m) \/ StripMappings(m) \/ CallFails(m) \/ UndoCreate(m) \/ CloseAccount(m)
    PROVE  StaffInv'
<1>0. admin[m].op # "none"
    BY DEF PostAccount, ReadMappings, StripMappings, CallFails, UndoCreate, CloseAccount
<1>1. admin[m] \in StaffRequest /\ RequestSound(admin[m], granted)
    BY <1>0, Holding
<1>2. /\ accounts \in 0 .. MaxAccounts /\ open \in SUBSET (1 .. accounts)
      /\ mapped \in [Account -> SUBSET Role] /\ open \subseteq Account
    BY StaffAssumption DEF StaffInv, StaffTypeOK, Account
<1>3. ASSUME NEW a PROVE Close(a) => /\ open' \in SUBSET (1 .. accounts)
                                    /\ mapped' \in [Account -> SUBSET Role]
                                    /\ \A i \in Account : mapped'[i] \subseteq mapped[i]
    BY <1>2 DEF Close
<1>4. CASE PostAccount(m)
    <2> DEFINE q == [admin[m] EXCEPT !.account = accounts + 1, !.pc = "read"]
    <2>1. accounts' = accounts + 1 /\ accounts' \in 0 .. MaxAccounts /\ open' \in SUBSET (1 .. accounts')
        BY <1>2, <1>4, StaffAssumption DEF PostAccount
    <2>2. q \in StaffRequest
        BY <1>1, <2>1 DEF StaffRequest
    <2>3. RequestSound(q, granted)
        BY <1>1, <1>4 DEF RequestSound, PostAccount, StaffRequest
    <2>4. admin' = [admin EXCEPT ![m] = q] \/ admin' = [admin EXCEPT ![m] = Idle]
        BY <1>4, <2>1 DEF PostAccount, Ends
    <2> HIDE DEF q
    <2> QED
        BY <1>2, <1>4, <2>1, <2>2, <2>3, <2>4, IdleSound, RequestKeeps DEF PostAccount
<1>5. CASE ReadMappings(m)
    <2>1. PICK a \in open : /\ admin[m].account \in {0, a}
                            /\ admin' = [admin EXCEPT ![m].account = a, ![m].had = mapped[a], ![m].pc = "strip"]
        BY <1>5 DEF ReadMappings
    <2> DEFINE q == [admin[m] EXCEPT !.account = a, !.had = mapped[a], !.pc = "strip"]
    <2>2. a \in Account /\ a \in 0 .. MaxAccounts /\ mapped[a] \in SUBSET Role
        BY <1>2 DEF Account
    <2>3. q \in StaffRequest
        BY <1>1, <2>2 DEF StaffRequest
    <2>4. RequestSound(q, granted)
        BY <1>1, <2>1, <2>2 DEF RequestSound, StaffRequest, Account, Named
    <2>5. admin' = [admin EXCEPT ![m] = q]
        BY <2>1
    <2> HIDE DEF q
    <2> QED
        BY <1>2, <1>5, <2>3, <2>4, <2>5, RequestKeeps DEF ReadMappings
<1>6. CASE StripMappings(m)
    <2> DEFINE q == [admin[m] EXCEPT !.pc = "grant", !.had = {}]
    <2>1. q \in StaffRequest
        BY <1>1 DEF StaffRequest
    <2>2. RequestSound(q, granted)
        BY <1>1 DEF RequestSound, StaffRequest
    <2>3. admin' = [admin EXCEPT ![m] = q] \/ admin' = Failed(m)
        BY <1>6 DEF StripMappings, GoesTo, StaffInv, StaffTypeOK
    <2>4. mapped' \in [Account -> SUBSET Role] /\ \A i \in Account : mapped'[i] \subseteq mapped[i]
        BY <1>2, <1>6 DEF StripMappings
    <2> HIDE DEF q
    <2> QED
        BY <1>0, <1>2, <1>6, <2>1, <2>2, <2>3, <2>4, StepSound, RequestKeeps DEF StripMappings
<1>7. CASE CallFails(m)
    BY <1>0, <1>2, <1>7, StepSound, RequestKeeps DEF CallFails
<1>8. CASE UndoCreate(m)
    <2>1. admin' = [admin EXCEPT ![m] = Idle] /\ UNCHANGED <<accounts, granted, user, login>>
        BY <1>8 DEF UndoCreate, Ends
    <2>2. /\ open' \in SUBSET (1 .. accounts) /\ mapped' \in [Account -> SUBSET Role]
          /\ \A i \in Account : mapped'[i] \subseteq mapped[i]
        BY <1>2, <1>3, <1>8 DEF UndoCreate
    <2> QED
        BY <1>2, <2>1, <2>2, IdleSound, RequestKeeps
<1>9. CASE CloseAccount(m)
    <2>1. PICK a \in open : Close(a)
        BY <1>9 DEF CloseAccount
    <2>2. PICK q \in StaffRequest \cup {Idle} : RequestSound(q, granted) /\ admin' = [admin EXCEPT ![m] = q]
        BY <1>0, <1>9, StepSound DEF CloseAccount, Answered
    <2>3. /\ open' \in SUBSET (1 .. accounts) /\ mapped' \in [Account -> SUBSET Role]
          /\ \A i \in Account : mapped'[i] \subseteq mapped[i]
        BY <1>3, <2>1
    <2>4. UNCHANGED <<accounts, granted, user, login>>
        BY <1>9 DEF CloseAccount
    <2> QED
        BY <1>2, <2>2, <2>3, <2>4, RequestKeeps
<1> QED
    BY <1>4, <1>5, <1>6, <1>7, <1>8, <1>9

(* Roles are given.                                                        *)
LEMMA GrantKeeps ==
    ASSUME StaffInv, NEW m \in Admin, GrantMappings(m) PROVE StaffInv'
<1> DEFINE a == admin[m].account
<1>1. admin[m] \in StaffRequest /\ RequestSound(admin[m], granted) /\ admin[m].op # "none"
    BY Holding DEF GrantMappings
<1>2. a \in Account /\ a \in 0 .. MaxAccounts
    <2>1. a \in open
        BY DEF GrantMappings, Live
    <2>2. open \in SUBSET (1 .. accounts) /\ accounts \in 0 .. MaxAccounts
        BY DEF StaffInv, StaffTypeOK
    <2> HIDE DEF a
    <2> QED
        BY <2>1, <2>2, StaffAssumption DEF Account
<1>3. /\ granted' \in [Account -> SUBSET Role] /\ mapped' \in [Account -> SUBSET Role]
      /\ admin[m].roles \subseteq granted'[a]
      /\ \A i \in Account : granted[i] \subseteq granted'[i] /\ mapped'[i] \subseteq granted'[i]
    BY <1>1, <1>2 DEF GrantMappings, StaffRequest, StaffInv, StaffTypeOK
<1> DEFINE q == [admin[m] EXCEPT !.pc = "save"]
<1>4. q \in StaffRequest
    BY <1>1 DEF StaffRequest
<1>5. RequestSound(q, granted')
    BY <1>1, <1>2, <1>3 DEF RequestSound, StaffRequest
<1>6. PICK p \in StaffRequest \cup {Idle} :
          (p = q \/ RequestSound(p, granted)) /\ admin' = [admin EXCEPT ![m] = p]
    <2>1. GoesTo(m, "save") = [admin EXCEPT ![m] = q]
        BY DEF GoesTo
    <2>2. admin' = [admin EXCEPT ![m] = q] \/ admin' = Failed(m)
        BY <2>1 DEF GrantMappings, Answered
    <2> HIDE DEF q
    <2> QED
        BY <1>1, <1>4, <2>2, StepSound
<1> HIDE DEF q
<1>7. ASSUME NEW s \in StaffRequest \cup {Idle}, RequestSound(s, granted) PROVE RequestSound(s, granted')
    BY <1>3, <1>7 DEF RequestSound
<1>8. StaffTypeOK'
    BY <1>3, <1>6 DEF StaffInv, StaffTypeOK, GrantMappings, StaffRequest
<1>9. \A i \in Admin : RequestSound(admin'[i], granted')
    <2>1. \A i \in Admin : admin[i] \in StaffRequest \cup {Idle} /\ RequestSound(admin[i], granted)
        BY DEF StaffInv, StaffTypeOK, StaffRequest
    <2>2. \A i \in Admin : admin'[i] = p \/ admin'[i] = admin[i]
        BY <1>6 DEF StaffInv, StaffTypeOK
    <2> QED
        BY <1>5, <1>6, <1>7, <2>1, <2>2
<1>10. \A v \in Login : LoginSound(login'[v], granted')
    BY <1>3 DEF StaffInv, StaffTypeOK, LoginSound, GrantMappings, Idle
<1>11. RolesWereGranted'
    <2>1. UNION {granted[i] : i \in Account} \subseteq UNION {granted'[i] : i \in Account}
        BY <1>3
    <2> QED
        BY <1>3, <2>1 DEF StaffInv, RolesWereGranted, Exists, GrantMappings
<1> QED
    BY <1>3, <1>8, <1>9, <1>10, <1>11 DEF StaffInv, GrantMappings, Exists

(* What is kept of a user that is overwritten, or made.                    *)
LEMMA KeptIsUser ==
    ASSUME StaffInv, NEW r \in {Named} \cup Account
    PROVE  Kept(r) \in LocalUser /\ (Kept(r).managed => Kept(r).roles \subseteq MayHave(r))
<1>1. CASE Exists(r)
    BY <1>1 DEF Kept, StaffInv, StaffTypeOK, Exists, RolesWereGranted, MayHave
<1>2. CASE ~Exists(r)
    BY <1>2, StaffAssumption DEF Kept, NewUser, LocalUser
<1> QED
    BY <1>1, <1>2

(* sync_user_groups leaves managed roles alone.                            *)
LEMMA SyncedIsUser ==
    ASSUME NEW u \in LocalUser
    PROVE  /\ Synced(u) \in LocalUser /\ Synced(u).managed = u.managed
           /\ Synced(u).subject = u.subject
           /\ u.managed => Synced(u).roles = u.roles
<1>1. u.roles \in SUBSET Role /\ {Member} \cup u.privileges \in SUBSET Role
    BY StaffAssumption DEF LocalUser
<1> QED
    BY <1>1 DEF Synced, LocalUser

(* A request saves or deletes a user.                                      *)
LEMMA SaveKeeps ==
    ASSUME StaffInv, NEW m \in Admin,
           \/ CreateUser(m) \/ SaveRoles(m) \/ SaveSubject(m) \/ DropUser(m)
           \/ LocalCreate(m) \/ ClearPrivileges(m) \/ AddPrivileges(m)
    PROVE  StaffInv'
<1> DEFINE q == admin[m]
<1>1. q \in StaffRequest /\ RequestSound(q, granted) /\ q.op # "none"
    BY Holding DEF CreateUser, SaveRoles, SaveSubject, DropUser, LocalCreate, ClearPrivileges, AddPrivileges
<1>2. /\ user \in [{Named} \cup Account -> LocalUser \cup {NoUser}]
      /\ admin \in [Admin -> StaffRequest \cup {Idle}] /\ \A i \in Admin : RequestSound(admin[i], granted)
      /\ login \in [Login -> {Idle} \cup [op : {"login"}, account : Account, roles : SUBSET Role]]
      /\ \A v \in Login : LoginSound(login[v], granted)
      /\ accounts \in 0 .. MaxAccounts /\ open \in SUBSET (1 .. accounts)
      /\ mapped \in [Account -> SUBSET Role]
    BY DEF StaffInv, StaffTypeOK, StaffRequest, LocalUser
<1>3. ASSUME NEW i \in Account PROVE granted[i] \subseteq MayHave(Named) /\ granted[i] \subseteq MayHave(i)
    BY <1>3 DEF MayHave
<1>4. \A r \in {Named} \cup Account : Exists(r) =>
          /\ user[r] \in LocalUser /\ (user[r].managed => user[r].roles \subseteq MayHave(r))
          /\ r \in Account => user[r].subject = r
    BY <1>2 DEF StaffInv, RolesWereGranted, MayHave, Exists
<1>5. ASSUME NEW p \in StaffRequest \cup {Idle}, RequestSound(p, granted), admin' = [admin EXCEPT ![m] = p]
      PROVE  admin' \in [Admin -> StaffRequest \cup {Idle}] /\ \A i \in Admin : RequestSound(admin'[i], granted)
    BY <1>2, <1>5
<1>6. ASSUME admin' \in [Admin -> StaffRequest \cup {Idle}], \A i \in Admin : RequestSound(admin'[i], granted),
             UNCHANGED <<accounts, open, mapped, granted, login>>,
             NEW r \in {Named} \cup Account, NEW u \in LocalUser \cup {NoUser},
             u # NoUser /\ u.managed => u.roles \subseteq MayHave(r), u # NoUser /\ r \in Account => u.subject = r,
             user' = [user EXCEPT ![r] = u]
      PROVE  StaffInv'
    BY <1>2, <1>6, UserKeeps
<1>7. ASSUME NEW p \in StaffRequest \cup {Idle}, RequestSound(p, granted), admin' = [admin EXCEPT ![m] = p],
             UNCHANGED <<accounts, open, mapped, granted, user, login>>
      PROVE  StaffInv'
    BY <1>2, <1>7, RequestKeeps
<1>8. Named \in {Named} \cup Account /\ Named \notin Account
    BY DEF Named, Account
<1>9. CASE CreateUser(m)
    <2>1. admin' = [admin EXCEPT ![m] = Idle] /\ UNCHANGED <<accounts, open, mapped, granted, login>>
        BY <1>9 DEF CreateUser, Ends
    <2>2. q.account \in Account /\ q.roles \subseteq MayHave(Named)
        BY <1>1, <1>3, <1>9 DEF CreateUser, RequestSound
    <2> DEFINE u == [Kept(Named) EXCEPT !.subject = q.account, !.roles = q.roles, !.managed = TRUE]
    <2>3. u \in LocalUser /\ u.roles = q.roles
        BY <1>1, <1>8, KeptIsUser DEF LocalUser, StaffRequest
    <2>4. user' = user \/ user' = [user EXCEPT ![Named] = u]
        BY <1>9 DEF CreateUser
    <2> HIDE DEF u, q
    <2> QED
        BY <1>5, <1>6, <1>7, <1>8, <2>1, <2>2, <2>3, <2>4, IdleSound
<1>10. CASE SaveRoles(m)
    <2> DEFINE r == q.row
    <2>1. r \in {Named} \cup Account /\ UNCHANGED <<accounts, open, mapped, granted, login>>
        BY <1>1, <1>10 DEF SaveRoles, StaffRequest
    <2>2. q.roles \subseteq MayHave(r) /\ q.roles \in SUBSET Role
        BY <1>1, <1>3, <1>10 DEF SaveRoles, RequestSound, StaffRequest
    <2>3. CASE ~Exists(r)
        BY <1>7, <1>10, <2>1, <2>3, IdleSound DEF SaveRoles, Ends
    <2>4. CASE Exists(r)
        <3> DEFINE u == [user[r] EXCEPT !.roles = q.roles, !.managed = TRUE]
                   p == [q EXCEPT !.pc = "link"]
        <3>1. u \in LocalUser /\ u.roles = q.roles /\ u.subject = user[r].subject
            BY <1>4, <2>1, <2>2, <2>4 DEF LocalUser
        <3>2. user' = [user EXCEPT ![r] = u]
            <4>1. user' = [user EXCEPT ![r].roles = q.roles, ![r].managed = TRUE]
                BY <1>10, <2>4 DEF SaveRoles
            <4> QED
                BY <1>2, <1>4, <2>1, <2>4, <4>1 DEF LocalUser
        <3>3. CASE q.unlinked
            <4>1. p \in StaffRequest
                BY <1>1 DEF StaffRequest
            <4>2. RequestSound(p, granted)
                BY <1>1, <1>10, <3>3 DEF RequestSound, SaveRoles, StaffRequest
            <4>3. admin' = [admin EXCEPT ![m] = p]
                BY <1>10, <2>4, <3>3 DEF SaveRoles, GoesTo
            <4> HIDE DEF p, u, r, q
            <4> QED
                BY <1>4, <1>5, <1>6, <2>1, <2>2, <2>4, <3>1, <3>2, <4>1, <4>2, <4>3
        <3>4. CASE ~q.unlinked
            <4>1. admin' = [admin EXCEPT ![m] = Idle]
                BY <1>10, <2>4, <3>4 DEF SaveRoles, Ends
            <4> HIDE DEF p, u, r, q
            <4> QED
                BY <1>4, <1>5, <1>6, <2>1, <2>2, <2>4, <3>1, <3>2, <4>1, IdleSound
        <3> QED
            BY <3>3, <3>4
    <2> QED
        BY <2>3, <2>4
<1>11. CASE SaveSubject(m)
    <2>1. q.row = Named
        BY <1>1, <1>11 DEF SaveSubject, RequestSound
    <2>2. admin' = [admin EXCEPT ![m] = Idle] /\ UNCHANGED <<accounts, open, mapped, granted, login>>
        BY <1>11 DEF SaveSubject, Ends
    <2> DEFINE u == [user[Named] EXCEPT !.subject = q.account]
    <2>3. user' = user \/ (Exists(Named) /\ user' = [user EXCEPT ![Named] = u])
        BY <1>11, <2>1 DEF SaveSubject
    <2>4. Exists(Named) => u \in LocalUser /\ (u.managed => u.roles \subseteq MayHave(Named))
        BY <1>1, <1>4, <1>8 DEF LocalUser, StaffRequest
    <2> HIDE DEF u, q
    <2> QED
        BY <1>5, <1>6, <1>7, <1>8, <2>2, <2>3, <2>4, IdleSound
<1>12. CASE DropUser(m)
    <2>1. q.row \in {Named} \cup Account
        BY <1>1 DEF StaffRequest
    <2>2. admin' = [admin EXCEPT ![m] = Idle] /\ UNCHANGED <<accounts, open, mapped, granted, login>>
        BY <1>12 DEF DropUser, Ends
    <2>3. user' = user \/ user' = [user EXCEPT ![q.row] = NoUser]
        BY <1>12 DEF DropUser
    <2> HIDE DEF q
    <2> QED
        BY <1>5, <1>6, <1>7, <2>1, <2>2, <2>3, IdleSound
<1>13. CASE LocalCreate(m)
    <2>1. admin' = [admin EXCEPT ![m] = Idle] /\ UNCHANGED <<accounts, open, mapped, granted, login>>
        BY <1>13 DEF LocalCreate, Ends
    <2> DEFINE v == [Kept(Named) EXCEPT !.subject = 0, !.privileges = @ \cup q.roles]
    <2>2. v \in LocalUser /\ (v.managed => v.roles \subseteq MayHave(Named))
        <3>1. q.roles \subseteq Legacy
            BY <1>1, <1>13 DEF LocalCreate, RequestSound
        <3>2. Kept(Named) \in LocalUser /\ (Kept(Named).managed => Kept(Named).roles \subseteq MayHave(Named))
            BY <1>8, KeptIsUser
        <3>3. 0 \in 0 .. MaxAccounts
            BY StaffAssumption
        <3> HIDE DEF q
        <3> QED
            BY <3>1, <3>2, <3>3 DEF LocalUser
    <2>3. Synced(v) \in LocalUser /\ (Synced(v).managed => Synced(v).roles \subseteq MayHave(Named))
        BY <2>2, SyncedIsUser
    <2>4. user' = user \/ user' = [user EXCEPT ![Named] = Synced(v)]
        BY <1>13 DEF LocalCreate
    <2> HIDE DEF v, q
    <2> QED
        BY <1>5, <1>6, <1>7, <1>8, <2>1, <2>3, <2>4, IdleSound
<1>14. CASE ClearPrivileges(m)
    <2> DEFINE r == q.row
    <2>1. r \in {Named} \cup Account /\ UNCHANGED <<accounts, open, mapped, granted, login>>
        BY <1>1, <1>14 DEF ClearPrivileges, StaffRequest
    <2>2. PICK p \in StaffRequest : RequestSound(p, granted) /\ admin' = [admin EXCEPT ![m] = p]
        BY <1>1, <1>14, StepSound DEF ClearPrivileges
    <2> DEFINE v == [user[r] EXCEPT !.privileges = {}]
    <2>3. CASE Kept(r).privileges = {}
        <3>1. user' = user
            BY <1>14, <2>3 DEF ClearPrivileges
        <3> QED
            BY <1>7, <2>1, <2>2, <3>1
    <2>4. CASE Kept(r).privileges # {}
        <3>1. Exists(r)
            BY <2>4 DEF Kept, NewUser
        <3>2. v \in LocalUser /\ (v.managed => v.roles \subseteq MayHave(r)) /\ v.subject = user[r].subject
            BY <1>4, <2>1, <3>1 DEF LocalUser
        <3>3. /\ Synced(v) \in LocalUser /\ (Synced(v).managed => Synced(v).roles \subseteq MayHave(r))
              /\ Synced(v).subject = user[r].subject
            BY <3>2, SyncedIsUser
        <3>4. user' = [user EXCEPT ![r] = Synced(v)]
            BY <1>14, <2>4 DEF ClearPrivileges
        <3> HIDE DEF v, r, q
        <3> QED
            BY <1>4, <1>5, <1>6, <2>1, <2>2, <3>1, <3>3, <3>4
    <2> QED
        BY <2>3, <2>4
<1>15. CASE AddPrivileges(m)
    <2> DEFINE r == q.row
               v == [user[r] EXCEPT !.privileges = @ \cup q.roles]
    <2>1. r \in {Named} \cup Account /\ admin' = [admin EXCEPT ![m] = Idle]
          /\ UNCHANGED <<accounts, open, mapped, granted, login>>
        BY <1>1, <1>15 DEF AddPrivileges, StaffRequest, Ends
    <2>2. user' = user \/ (Exists(r) /\ user' = [user EXCEPT ![r].privileges = @ \cup q.roles])
        BY <1>15 DEF AddPrivileges
    <2>3. Exists(r) => /\ v \in LocalUser /\ (v.managed => v.roles \subseteq MayHave(r))
                       /\ v.subject = user[r].subject
        BY <1>1, <1>4, <1>15, <2>1 DEF LocalUser, AddPrivileges, RequestSound
    <2>4. user' = user \/ (Exists(r) /\ user' = [user EXCEPT ![r] = v])
        BY <1>2, <1>4, <2>1, <2>2 DEF LocalUser
    <2> HIDE DEF v, r, q
    <2> QED
        BY <1>4, <1>5, <1>6, <1>7, <2>1, <2>3, <2>4, IdleSound
<1> QED
    BY <1>9, <1>10, <1>11, <1>12, <1>13, <1>14, <1>15

(* A request dies; an administrator deletes a local user.                  *)
LEMMA AdminOtherKeeps ==
    ASSUME StaffInv, NEW m \in Admin, AdminDies(m) \/ LocalDelete(m) PROVE StaffInv'
<1>1. CASE AdminDies(m)
    BY <1>1, IdleSound, RequestKeeps DEF AdminDies, Ends, StaffInv, StaffTypeOK
<1>2. CASE LocalDelete(m)
    <2>1. PICK r \in {Named} \cup Account : user' = [user EXCEPT ![r] = NoUser]
        BY <1>2 DEF LocalDelete
    <2>2. NoUser \in LocalUser \cup {NoUser}
        OBVIOUS
    <2>3. UNCHANGED <<accounts, open, mapped, granted, admin, login>>
        BY <1>2 DEF LocalDelete
    <2> QED
        BY <2>1, <2>2, <2>3, UserKeeps DEF StaffInv, StaffTypeOK, StaffRequest
<1> QED
    BY <1>1, <1>2

(* A login brings the roles that its account had.                          *)
LEMMA LoginKeeps ==
    ASSUME StaffInv, NEW v \in Login, LoginStep(v) PROVE StaffInv'
<1> DEFINE Token == [op : {"login"}, account : Account, roles : SUBSET Role]
<1>1. /\ login \in [Login -> {Idle} \cup Token] /\ \A i \in Login : LoginSound(login[i], granted)
      /\ user \in [{Named} \cup Account -> LocalUser \cup {NoUser}]
      /\ admin \in [Admin -> StaffRequest \cup {Idle}] /\ \A m \in Admin : RequestSound(admin[m], granted)
    BY DEF StaffInv, StaffTypeOK, StaffRequest, LocalUser
<1>2. ASSUME NEW t \in {Idle} \cup Token, LoginSound(t, granted), login' = [login EXCEPT ![v] = t]
      PROVE  login' \in [Login -> {Idle} \cup Token] /\ \A i \in Login : LoginSound(login'[i], granted)
    BY <1>1, <1>2
<1>3. LoginSound(Idle, granted)
    BY DEF LoginSound, Idle
<1>4. ASSUME UNCHANGED <<accounts, open, mapped, granted, user, admin>>,
             login' \in [Login -> {Idle} \cup Token], \A i \in Login : LoginSound(login'[i], granted)
      PROVE  StaffInv'
    <2>1. StaffTypeOK'
        BY <1>4 DEF StaffInv, StaffTypeOK
    <2> QED
        BY <1>4, <2>1 DEF StaffInv, RolesWereGranted, Exists, RequestSound, LoginSound
<1>5. CASE LoginExchange(v)
    <2>1. PICK a \in open :
              login' = [login EXCEPT ![v] = [op |-> "login", account |-> a, roles |-> mapped[a]]]
        BY <1>5 DEF LoginExchange
    <2> DEFINE t == [op |-> "login", account |-> a, roles |-> mapped[a]]
    <2>2. t \in Token /\ LoginSound(t, granted)
        BY StaffAssumption DEF StaffInv, StaffTypeOK, Account, LoginSound
    <2> HIDE DEF t
    <2>3. login' \in [Login -> {Idle} \cup Token] /\ \A i \in Login : LoginSound(login'[i], granted)
        BY <1>2, <2>1, <2>2 DEF t
    <2> QED
        BY <1>4, <1>5, <2>3 DEF LoginExchange
<1>6. CASE LoginUser(v)
    <2> DEFINE a == login[v].account
               mine == {r \in {Named} \cup Account : Exists(r) /\ user[r].subject = a}
               row == IF mine = {} THEN a ELSE CHOOSE r \in mine : TRUE
               u == [Kept(row) EXCEPT !.subject = a, !.roles = {Member} \cup login[v].roles,
                                      !.managed = TRUE]
    <2>1. login[v] \in Token /\ login[v].roles \subseteq granted[a]
        BY <1>1, <1>6 DEF LoginUser, LoginSound, Idle
    <2>2. a \in Account /\ a \in 0 .. MaxAccounts
        BY <2>1 DEF Account
    <2>3. row \in {Named} \cup Account /\ (row \in Account => row = a)
        <3>1. mine # {} => row \in mine
            OBVIOUS
        <3>2. \A r \in mine : r \in {Named} \cup Account /\ (r \in Account => r = a)
            BY DEF StaffInv
        <3> QED
            BY <2>2, <3>1, <3>2
    <2>4. u \in LocalUser /\ u.roles = {Member} \cup login[v].roles /\ u.subject = a
        <3>1. Kept(row) \in LocalUser
            BY <2>3, KeptIsUser
        <3>2. {Member} \cup login[v].roles \in SUBSET Role
            BY <2>1, StaffAssumption
        <3> HIDE DEF row, a
        <3> QED
            BY <2>2, <3>1, <3>2 DEF LocalUser
    <2>5. user' = [user EXCEPT ![row] = u] /\ login' = [login EXCEPT ![v] = Idle]
          /\ UNCHANGED <<accounts, open, mapped, granted, admin>>
        BY <1>6 DEF LoginUser
    <2> HIDE DEF u, row, mine, a
    <2>6. u.roles \subseteq MayHave(row)
        BY <2>1, <2>2, <2>3, <2>4 DEF MayHave
    <2>7. login' \in [Login -> {Idle} \cup Token] /\ \A i \in Login : LoginSound(login'[i], granted)
        BY <1>2, <1>3, <2>5
    <2> QED
        BY <1>1, <2>3, <2>4, <2>5, <2>6, <2>7, UserKeeps
<1>7. CASE LoginFails(v)
    <2>1. login' \in [Login -> {Idle} \cup Token] /\ \A i \in Login : LoginSound(login'[i], granted)
        BY <1>2, <1>3, <1>7 DEF LoginFails
    <2> QED
        BY <1>4, <1>7, <2>1 DEF LoginFails
<1> QED
    BY <1>5, <1>6, <1>7 DEF LoginStep

LEMMA StaffNextKeeps == StaffInv /\ [StaffNext]_staffVars => StaffInv'
<1> SUFFICES ASSUME StaffInv, [StaffNext]_staffVars PROVE StaffInv'
    OBVIOUS
<1>1. CASE UNCHANGED staffVars
    BY <1>1 DEF staffVars, StaffInv, StaffTypeOK, RolesWereGranted, RequestSound, LoginSound, Exists
<1>2. ASSUME NEW m \in Admin, AdminStep(m) PROVE StaffInv'
    BY <1>2, BeginsKeeps, CallKeeps, GrantKeeps, SaveKeeps, AdminOtherKeeps DEF AdminStep
<1> QED
    BY <1>1, <1>2, LoginKeeps DEF StaffNext

(* The invariant of the users holds in every state.                        *)
THEOREM StaffInvariant == StaffSpec => []StaffInv
BY StaffInitially, StaffNextKeeps, PTL DEF StaffSpec

(* Accounts, users and requests keep their types.                          *)
THEOREM StaffTypeCorrect == StaffSpec => []StaffTypeOK
<1>1. StaffInv => StaffTypeOK
    BY DEF StaffInv
<1> QED
    BY <1>1, StaffInvariant, PTL

(* The roles of a managed membership come from Keycloak, for any number of *)
(* administrators and logins, whatever privileges are changed meanwhile.   *)
THEOREM RolesComeFromKeycloak == StaffSpec => []RolesWereGranted
<1>1. StaffInv => RolesWereGranted
    BY DEF StaffInv
<1> QED
    BY <1>1, StaffInvariant, PTL

-----------------------------------------------------------------------------
(* The remaining types of the reminder.  At most two persons are told of   *)
(* it; a message needs a sweep, and there is no second one.                *)
LEMMA AtMostTwo ==
    ASSUME NEW p, NEW q
    PROVE  Cardinality({p, q}) \in 1 .. 2
<1>1. IsFiniteSet({p}) /\ Cardinality({p}) = 1
    <2>1. IsFiniteSet({}) /\ Cardinality({}) = 0 /\ p \notin {} /\ {} \cup {p} = {p}
        BY FS_EmptySet
    <2> QED
        BY <2>1, FS_AddElement
<1>2. {p, q} = {p} \cup {q}
    OBVIOUS
<1>3. Cardinality({p} \cup {q}) = IF q \in {p} THEN 1 ELSE 1 + 1
    BY <1>1, FS_AddElement
<1> QED
    BY <1>2, <1>3

LEMMA SweepsAreCounted ==
    /\ Cardinality(Sweep) \in Nat
    /\ \A s \in Sweep : Cardinality(Sweep) >= 1
<1>1. Cardinality(Sweep) \in Nat /\ (Cardinality(Sweep) = 0 <=> Sweep = {})
    BY ReminderAssumption, FS_CardinalityType, FS_EmptySet
<1> QED
    BY <1>1

LEMMA ReminderTypeInitially == ReminderInit => ReminderTypeOK
<1> SUFFICES ASSUME ReminderInit PROVE ReminderTypeOK
    OBVIOUS
<1>1. Cardinality(audience) \in 1 .. 2 /\ audience \subseteq Person
    BY AtMostTwo DEF ReminderInit
<1> QED
    BY <1>1, SweepsAreCounted, ReminderAssumption DEF ReminderInit, ReminderTypeOK, Phase, NoSweep

LEMMA ReminderTypeKeeps ==
    ReminderInv /\ ReminderTypeOK /\ [ReminderNext]_reminderVars => ReminderTypeOK'
<1> SUFFICES ASSUME ReminderInv, ReminderTypeOK, [ReminderNext]_reminderVars
             PROVE  ReminderTypeOK'
    OBVIOUS
<1>1. ReminderInv'
    BY ReminderNextKeeps
<1>2. /\ phase' \in Phase /\ audience' \subseteq Person
      /\ delivery' \in [Person -> {"NONE", "SENT", "SKIPPED"}]
      /\ sweep' \in [Sweep -> Sweeping \cup {NoSweep}]
      /\ notices' \in [Person -> Nat] /\ \A p \in Person : notices'[p] <= 1
    BY <1>1 DEF ReminderInv, EveryoneIsToldOnce
<1>3. Cardinality(audience)' \in 1 .. 2
    <2>1. CASE audience' = audience
        BY <2>1 DEF ReminderTypeOK
    <2>2. CASE Reassign
        BY <2>2, AtMostTwo DEF Reassign
    <2> QED
        BY <2>1, <2>2 DEF ReminderNext, reminderVars, TimePasses, DeleteReminder, ChangePreference,
           SweepStep, SweepFinds, SweepAsks, SweepTells, SweepPasses, SweepEnds
<1>4. wants' \subseteq Person
    BY DEF ReminderTypeOK, ReminderNext, reminderVars, TimePasses, DeleteReminder, Reassign,
           ChangePreference, SweepStep, SweepFinds, SweepAsks, SweepTells, SweepPasses, SweepEnds
<1>5. changes' \in 0 .. MaxChanges
    BY ReminderAssumption
       DEF ReminderTypeOK, ReminderNext, reminderVars, TimePasses, DeleteReminder, Reassign,
           ChangePreference, SweepStep, SweepFinds, SweepAsks, SweepTells, SweepPasses, SweepEnds
<1>6. notices' \in [Person -> 0 .. Cardinality(Sweep)]
    <2>1. CASE \E s \in Sweep : SweepStep(s)
        BY <1>2, <2>1, SweepsAreCounted
    <2>2. CASE ~\E s \in Sweep : SweepStep(s)
        <3>1. notices' = notices
            BY <2>2 DEF ReminderNext, reminderVars, TimePasses, DeleteReminder, Reassign, ChangePreference
        <3> QED
            BY <3>1 DEF ReminderTypeOK
    <2> QED
        BY <2>1, <2>2
<1> QED
    BY <1>2, <1>3, <1>4, <1>5, <1>6 DEF ReminderTypeOK

(* A reminder is type correct.                                             *)
THEOREM ReminderTypeCorrect == ReminderSpec => []ReminderTypeOK
BY ReminderTypeInitially, ReminderTypeKeeps, ReminderInvariant, PTL DEF ReminderSpec

-----------------------------------------------------------------------------
(* The heirs of the case: every revision of an heir is part of a version   *)
(* of the case, so that no heir is ahead of its case.                      *)
HeirsInv ==
    /\ heirs \in [Heir -> Nat]
    /\ \A h \in Heir : heirs[h] < CaseVersion
    /\ case # NoCase => Clerk # {}

LEMMA HeirsInitially == CaseInit => HeirsInv
BY DEF CaseInit, HeirsInv, CaseVersion

LEMMA HeirsKeep == CaseInv /\ HeirsInv /\ [CaseNext]_caseVars => HeirsInv'
<1> SUFFICES ASSUME CaseInv, HeirsInv, [CaseNext]_caseVars PROVE HeirsInv'
    OBVIOUS
<1>1. CASE UNCHANGED caseVars
    BY <1>1 DEF caseVars, HeirsInv, CaseVersion
<1>2. ASSUME NEW k \in Clerk, CaseStep(k) PROVE HeirsInv'
    <2>v. CaseVersion \in Nat
        BY CaseAssumption DEF CaseInv, StoredCase, CaseVersion
    <2>1. CASE OpenLook(k) \/ CaseReceive(k) \/ CaseConflict(k)
        BY <1>2, <2>1 DEF OpenLook, CaseReceive, CaseConflict, HeirsInv, CaseVersion
    <2>2. CASE Open(k)
        <3>1. heirs' = heirs /\ CaseVersion' = CaseVersion
            BY <2>2 DEF Open, CaseVersion, NoCase
        <3> QED
            BY <1>2, <3>1 DEF HeirsInv
    <2>3. CASE AssignCase(k) \/ SetStatus(k) \/ AddHeir(k) \/ ChangeHeir(k) \/ AddNote(k)
        <3>1. PICK s \in CaseStatus, e \in BOOLEAN, a \in BOOLEAN :
                  request[k].op \in CaseOp /\ Overwrites(k, s, e, a)
            BY <2>3, CaseWrites
        <3>2. case # NoCase /\ case' # NoCase /\ case'.version = case.version + 1
            BY <3>1, OverwriteFacts
        <3>3. CaseVersion' = CaseVersion + 1 /\ CaseVersion >= 1
            BY <3>2, CaseAssumption DEF CaseVersion, CaseInv, StoredCase
        <3>4. \/ heirs' = heirs
              \/ \E g \in Heir : heirs' = [heirs EXCEPT ![g] = 1]
              \/ \E g \in Heir : heirs' = [heirs EXCEPT ![g] = heirs[g] + 1]
            <4>1. request[k].heir \in Heir
                BY <3>1 DEF CaseInv, CallSeen, CaseCall
            <4> QED
                BY <2>3, <4>1 DEF AssignCase, SetStatus, AddHeir, ChangeHeir, AddNote
        <3>5. /\ heirs' \in [Heir -> Nat]
              /\ \A h \in Heir : heirs'[h] <= heirs[h] + 1 \/ heirs'[h] = 1
            BY <3>4 DEF HeirsInv
        <3>6. \A h \in Heir : heirs'[h] < CaseVersion'
            <4> SUFFICES ASSUME NEW h \in Heir PROVE heirs'[h] < CaseVersion'
                OBVIOUS
            <4>1. heirs[h] \in Nat /\ heirs[h] < CaseVersion /\ heirs'[h] \in Nat
                BY <3>5 DEF HeirsInv
            <4> QED
                BY <2>v, <3>3, <3>5, <4>1
        <3> QED
            BY <1>2, <3>5, <3>6 DEF HeirsInv
    <2> QED
        BY <1>2, <2>1, <2>2, <2>3 DEF CaseStep
<1> QED
    BY <1>1, <1>2 DEF CaseNext

LEMMA CaseIsTyped == CaseInv /\ HeirsInv => CaseTypeOK
<1> SUFFICES ASSUME CaseInv, HeirsInv PROVE CaseTypeOK
    OBVIOUS
<1>1. case \in CaseRow \cup {NoCase}
    <2>1. CASE case = NoCase
        BY <2>1
    <2>2. CASE case # NoCase
        <3>1. Cardinality(Clerk) \in Nat /\ Cardinality(Clerk) # 0
            BY <2>2, CaseAssumption, FS_CardinalityType, FS_EmptySet DEF HeirsInv
        <3>2. 1 \in 1 .. Cardinality(Clerk)
            BY <3>1
        <3> QED
            BY <2>2, <3>2 DEF CaseInv, StoredCase, CaseRow
    <2> QED
        BY <2>1, <2>2
<1>2. CaseVersion \in Nat /\ CaseVersion <= MaxCaseVersion /\ MaxCaseVersion \in Nat
    BY CaseAssumption DEF CaseInv, StoredCase, CaseVersion
<1>3. heirs \in [Heir -> 0 .. MaxCaseVersion]
    <2>1. \A h \in Heir : heirs[h] \in 0 .. MaxCaseVersion
        BY <1>2 DEF HeirsInv
    <2> QED
        BY <2>1 DEF HeirsInv
<1> QED
    BY <1>1, <1>3 DEF CaseInv, CaseTypeOK

(* Cases are type correct: a notice has one case, and no heir has more     *)
(* revisions than its case has later versions.                             *)
THEOREM CaseTypeCorrect == CaseSpec => []CaseTypeOK
BY CaseInitially, CaseNextKeeps, HeirsInitially, HeirsKeep, CaseIsTyped, PTL DEF CaseSpec

-----------------------------------------------------------------------------
(* The records together.  The parts share nothing, so that a step of the   *)
(* records is a step of each part or leaves the part as it is.             *)
RecordsInv ==
    /\ OwnershipInv /\ FeedInv /\ DeltaInv /\ LayerInv
    /\ ReminderInv /\ ReminderTypeOK
    /\ CaseInv /\ HeirsInv
    /\ QualityTypeOK /\ TileInv /\ StaffInv

LEMMA RecordsInitially == RecordsInit => RecordsInv
BY OwnershipInitially, FeedInitially, DeltaInitially, LayerInitially, ReminderInitially,
   ReminderTypeInitially, CaseInitially, HeirsInitially, QualityInitially, TileInitially,
   StaffInitially DEF RecordsInit, RecordsInv

LEMMA RecordsStep == [RecordsNext]_recordVars =>
    /\ [OwnershipNext]_ownershipVars /\ [FeedNext]_feedVars /\ [DeltaNext]_deltaVars
    /\ [LayerNext]_layerVars /\ [ReminderNext]_reminderVars /\ [CaseNext]_caseVars
    /\ [QualityNext]_qualityVars /\ [TileNext]_tileVars /\ [StaffNext]_staffVars
BY DEF RecordsNext, recordVars, Follow, OwnershipPart, FeedPart, DeltaPart, LayerPart,
       ReminderPart, CasePart, QualityPart, TilePart, StaffPart

LEMMA RecordsNextKeeps == RecordsInv /\ [RecordsNext]_recordVars => RecordsInv'
<1> SUFFICES ASSUME RecordsInv, [RecordsNext]_recordVars PROVE RecordsInv'
    OBVIOUS
<1>1. OwnershipInv' /\ FeedInv' /\ DeltaInv' /\ LayerInv'
    BY RecordsStep, OwnershipNextKeeps, FeedNextKeeps, DeltaNextKeeps, LayerNextKeeps DEF RecordsInv
<1>2. ReminderInv' /\ ReminderTypeOK' /\ CaseInv' /\ HeirsInv'
    BY RecordsStep, ReminderNextKeeps, ReminderTypeKeeps, CaseNextKeeps, HeirsKeep DEF RecordsInv
<1>3. QualityTypeOK' /\ TileInv' /\ StaffInv'
    BY RecordsStep, QualityNextKeeps, TileNextKeeps, StaffNextKeeps DEF RecordsInv
<1> QED
    BY <1>1, <1>2, <1>3 DEF RecordsInv

(* The inductive invariants of the parts together are one of the records.  *)
THEOREM RecordsInvariant == RecordsSpec => []RecordsInv
BY RecordsInitially, RecordsNextKeeps, PTL DEF RecordsSpec

(* The records and the feeds that fill them are type correct.              *)
THEOREM RecordsTypeCorrect == RecordsSpec => []RecordsTypeOK
<1>1. RecordsInv => RecordsTypeOK
    BY CaseIsTyped DEF RecordsInv, RecordsTypeOK, OwnershipInv, FeedInv, DeltaInv, LayerInv,
                       TileInv, StaffInv
<1> QED
    BY <1>1, RecordsInvariant, PTL

(* What holds of the records in every state: a pair has one active         *)
(* relation, what a feed has confirmed is stored, no registration is       *)
(* missed, nobody is told twice, a server process forgets the tiles that   *)
(* it has invalidated, and the managed roles of a user were granted.       *)
THEOREM RecordsAreSafe ==
    RecordsSpec => [](/\ OneActiveRelation /\ ConfirmedIsStored /\ NoRegistrationIsMissed
                      /\ EveryoneIsToldOnce /\ ServerForgetsOldTiles /\ RolesWereGranted)
<1>1. RecordsInv => /\ OneActiveRelation /\ ConfirmedIsStored /\ NoRegistrationIsMissed
                    /\ EveryoneIsToldOnce /\ RolesWereGranted
    BY DEF RecordsInv, OwnershipInv, FeedInv, DeltaInv, ReminderInv, StaffInv
<1>2. RecordsInv => ServerForgetsOldTiles
    BY CurrentTilesAreCovered DEF RecordsInv
<1>3. RecordsInv => /\ OneActiveRelation /\ ConfirmedIsStored /\ NoRegistrationIsMissed
                    /\ EveryoneIsToldOnce /\ ServerForgetsOldTiles /\ RolesWereGranted
    BY <1>1, <1>2
<1> QED
    BY <1>3, RecordsInvariant, PTL

(* What no step of the records does: end an import of a layer with other   *)
(* features than the layer has, reopen by a scan what was resolved, or     *)
(* overwrite a case that is not the one its request has seen.              *)
THEOREM RecordStepsAreSafe ==
    RecordsSpec => SuccessMirrorsLayer /\ ScanReopensNothing /\ CaseIsVersionedRecord
<1>1. RecordsInv => LayerInv /\ QualityTypeOK /\ CaseInv
    BY DEF RecordsInv
<1>2. RecordsInit => CaseRecord!Init
    BY CaseInitAbstract DEF RecordsInit
<1> QED
    BY <1>1, <1>2, RecordsInvariant, RecordsStep, MirroringStep, ReopeningStep, CaseNextAbstract, PTL
       DEF RecordsSpec, SuccessMirrorsLayer, ScanReopensNothing, CaseIsVersionedRecord,
           CaseRecord!Spec, CaseBasis, SeenBy, CaseVersion, CaseContent
=============================================================================
