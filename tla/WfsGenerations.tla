--------------------------- MODULE WfsGenerations ---------------------------
(***************************************************************************)
(* The generations of one WFS layer of one tenant.  A refresh stages all   *)
(* features of the layer into a new generation, validates its schema       *)
(* against the manifest's baseline and activates it: the rows the map      *)
(* shows are replaced in one transaction.  Administrators publish, roll    *)
(* back, approve a drifted schema, edit the manifest and clean up, and the *)
(* synchronisation of single cadastres writes the same rows.               *)
(*                                                                         *)
(* There is no lock around a refresh and no transaction around a handler:  *)
(* every statement stands on its own except in _activate_projection, which *)
(* locks the manifest.  Rows of the map are told apart by their origin     *)
(* only; a schema stands for its hash.                                     *)
(***************************************************************************)
EXTENDS Naturals, FiniteSets

CONSTANTS
    Actor,           \* Celery workers and request handlers
    MaxGenerations,  \* bound: generations that may ever be created
    Schema,          \* hashes of the schemas the provider may deliver
    NoFields,        \* the hash of a generation without features
    NoSchema,        \* the empty string
    Nobody,          \* holds the manifest's row lock when it is free
    Keep             \* WfsLayerManifest.retention_generations

ASSUME SchemaAssumption == NoFields \in Schema /\ NoSchema \notin Schema
ASSUME ActorAssumption  == Nobody \notin Actor
ASSUME BoundAssumption  == MaxGenerations \in Nat /\ Keep \in Nat \ {0}

VARIABLES
    status,     \* WfsGeneration.status per generation, "NONE" before, "DELETED" after
    sequence,   \* WfsGeneration.sequence
    schema,     \* WfsGeneration.schema_hash
    drift,      \* generations whose validation says schemaDrift
    approved,   \* generations with schema_drift_approved_by
    expected,   \* WfsLayerManifest.expected_schema_hash
    holder,     \* who has locked the manifest row in _activate_projection
    shown,      \* origins of the layer's ForestRegistryFeature rows
    actor       \* local state of every actor

vars == <<status, sequence, schema, drift, approved, expected, holder, shown, actor>>
generations == <<status, sequence, schema, drift, approved>>

Generation   == 1 .. MaxGenerations
NoGeneration == 0
Live         == 0   \* the origin of a row written by sync_metsaregister_wfs

Idle == [pc |-> "idle", generation |-> NoGeneration, expected |-> NoSchema,
         sequence |-> 0, current |-> NoGeneration, picked |-> {}]

TypeOK ==
    /\ status \in [Generation -> {"NONE", "STAGING", "READY", "ACTIVE", "RETIRED",
                                  "FAILED", "DELETED"}]
    /\ sequence \in [Generation -> 0 .. MaxGenerations]
    /\ schema \in [Generation -> Schema \cup {NoSchema}]
    /\ drift \subseteq Generation
    /\ approved \subseteq Generation
    /\ expected \in Schema \cup {NoSchema}
    /\ holder \in Actor \cup {Nobody}
    /\ shown \subseteq Generation \cup {Live}
    /\ actor \in [Actor ->
         [pc : {"idle", "create", "stage", "baseline", "verify", "lock", "activate",
                "approve", "accept", "patch", "collect", "delete"},
          generation : Generation \cup {NoGeneration}, expected : Schema \cup {NoSchema},
          sequence : 0 .. MaxGenerations + 1, current : Generation \cup {NoGeneration},
          picked : SUBSET Generation]]

Init ==
    /\ status = [g \in Generation |-> "NONE"]
    /\ sequence = [g \in Generation |-> 0]
    /\ schema = [g \in Generation |-> NoSchema]
    /\ drift = {}
    /\ approved = {}
    /\ expected = NoSchema
    /\ holder = Nobody
    /\ shown \in SUBSET {Live}
    /\ actor = [a \in Actor |-> Idle]

With(s) == {g \in Generation : status[g] = s}
Stored  == {g \in Generation : status[g] \notin {"NONE", "DELETED"}}

Enter(a, pc) == actor' = [actor EXCEPT ![a].pc = pc]
Leave(a)     == actor' = [actor EXCEPT ![a] = Idle]
Own(a)       == actor[a].generation

(* The row an activation has locked to retire it cannot be written.        *)
RowFree(g) == \A a \in Actor : actor[a].current # g

-----------------------------------------------------------------------------
(* refresh_manifest and stage_generation.                                  *)

SkipsASequence(n) ==   \* mutant: the next sequence is one too far
    /\ \A g \in Stored : sequence[g] < n
    /\ n = 2 \/ \E g \in Stored : n = sequence[g] + 2

IsNextSequence(n) ==
    /\ \A g \in Stored : sequence[g] < n
    /\ n = 1 \/ \E g \in Stored : n = sequence[g] + 1

(* The manifest is loaded and the next sequence is read.                   *)
Refresh(a, n) ==
    /\ actor[a].pc = "idle"
    /\ IsNextSequence(n)
    /\ actor' = [actor EXCEPT ![a] = [Idle EXCEPT !.pc = "create", !.expected = expected,
                                                  !.sequence = n]]
    /\ UNCHANGED <<generations, expected, holder, shown>>

Taken(n) == \E g \in Stored : sequence[g] = n

Create(a, g) ==
    /\ actor[a].pc = "create"
    /\ ~Taken(actor[a].sequence)
    /\ \A h \in Generation : status[h] = "NONE" <=> h >= g
    /\ status' = [status EXCEPT ![g] = "STAGING"]
    /\ sequence' = [sequence EXCEPT ![g] = actor[a].sequence]
    /\ actor' = [actor EXCEPT ![a].pc = "stage", ![a].generation = g]
    /\ UNCHANGED <<schema, drift, approved, expected, holder, shown>>

(* The sequence is unique: a concurrent refresh that took it wins.         *)
CreateRefused(a) ==
    /\ actor[a].pc = "create"
    /\ Taken(actor[a].sequence)
    /\ Leave(a)
    /\ UNCHANGED <<generations, expected, holder, shown>>

Drifts(a, s)  == actor[a].expected \notin {NoSchema, s}
BlockedWhenEmpty(a, s) == s = NoFields   \* mutant: drift does not block
Blocked(a, s) == Drifts(a, s) \/ s = NoFields

(* The staged features are validated against the manifest loaded before.   *)
Stage(a, s) ==
    /\ actor[a].pc = "stage"
    /\ schema' = [schema EXCEPT ![Own(a)] = s]
    /\ drift' = IF Drifts(a, s) THEN drift \cup {Own(a)} ELSE drift \ {Own(a)}
    /\ status' = [status EXCEPT ![Own(a)] = IF Blocked(a, s) THEN "FAILED" ELSE "READY"]
    /\ IF Blocked(a, s) THEN Leave(a)
       ELSE Enter(a, IF actor[a].expected = NoSchema THEN "baseline" ELSE "verify")
    /\ UNCHANGED <<sequence, approved, expected, holder, shown>>

(* The first generation's schema becomes the baseline.                     *)
Baseline(a) ==
    /\ actor[a].pc = "baseline"
    /\ holder = Nobody
    /\ expected' = schema[Own(a)]
    /\ IF status[Own(a)] = "DELETED" THEN Leave(a) ELSE Enter(a, "verify")
    /\ UNCHANGED <<generations, holder, shown>>

(* The exception handler covers the baseline too and does not look at what *)
(* became of the generation meanwhile.                                     *)
StageFails(a) ==
    /\ actor[a].pc \in {"stage", "baseline"}
    /\ RowFree(Own(a))
    /\ IF status[Own(a)] = "DELETED" THEN UNCHANGED <<status, drift>>
       ELSE /\ status' = [status EXCEPT ![Own(a)] = "FAILED"]
            /\ drift' = drift \ {Own(a)}
    /\ Leave(a)
    /\ UNCHANGED <<sequence, schema, approved, expected, holder, shown>>

-----------------------------------------------------------------------------
(* publish_generation and rollback_generation: the status is checked in    *)
(* memory, the activation reads it no more.                                *)

Publish(a, g) ==
    /\ actor[a].pc = "idle"
    /\ status[g] = "READY"
    /\ actor' = [actor EXCEPT ![a] = [Idle EXCEPT !.pc = "verify", !.generation = g]]
    /\ UNCHANGED <<generations, expected, holder, shown>>

Rollback(a, g) ==
    /\ actor[a].pc = "idle"
    /\ status[g] = "RETIRED"
    /\ actor' = [actor EXCEPT ![a] = [Idle EXCEPT !.pc = "verify", !.generation = g]]
    /\ UNCHANGED <<generations, expected, holder, shown>>

(* _assert_generation_feature_integrity: a deleted generation has lost its *)
(* features, which only one that had none does not notice.                 *)
Verify(a) ==
    /\ actor[a].pc = "verify"
    /\ IF status[Own(a)] = "DELETED" /\ schema[Own(a)] # NoFields
         THEN Leave(a) ELSE Enter(a, "lock")
    /\ UNCHANGED <<generations, expected, holder, shown>>

Others(a) == With("ACTIVE") \ {Own(a)}

LockManifestNot(a, c) ==   \* mutant: the manifest is read without select_for_update
    /\ actor[a].pc = "lock"
    /\ IF Others(a) = {} THEN c = NoGeneration ELSE c \in Others(a)
    /\ actor' = [actor EXCEPT ![a].pc = "activate", ![a].current = c]
    /\ UNCHANGED <<generations, expected, holder, shown>>

LockManifest(a, c) ==
    /\ actor[a].pc = "lock"
    /\ holder = Nobody
    /\ IF Others(a) = {} THEN c = NoGeneration ELSE c \in Others(a)
    /\ holder' = a
    /\ actor' = [actor EXCEPT ![a].pc = "activate", ![a].current = c]
    /\ UNCHANGED <<generations, expected, shown>>

FeaturesOf(g) == IF schema[g] = NoFields THEN {} ELSE {g}

ActivateAddsRows(a, kept) ==   \* mutant: the layer's earlier rows are not deleted
    /\ actor[a].pc = "activate"
    /\ status[Own(a)] # "DELETED"
    /\ kept \subseteq shown \cap {Live}
    /\ shown' = FeaturesOf(Own(a)) \cup shown
    /\ status' = [g \in Generation |-> IF g = Own(a) THEN "ACTIVE"
                                       ELSE IF g = actor[a].current THEN "RETIRED"
                                       ELSE status[g]]
    /\ holder' = Nobody
    /\ Leave(a)
    /\ UNCHANGED <<sequence, schema, drift, approved, expected>>

(* The transaction commits.  Rows a cadastre's synchronisation inserted    *)
(* after the deletion survive it.                                          *)
Activate(a, kept) ==
    /\ actor[a].pc = "activate"
    /\ status[Own(a)] # "DELETED"
    /\ kept \subseteq shown \cap {Live}
    /\ shown' = FeaturesOf(Own(a)) \cup kept
    /\ status' = [g \in Generation |-> IF g = Own(a) THEN "ACTIVE"
                                       ELSE IF g = actor[a].current THEN "RETIRED"
                                       ELSE status[g]]
    /\ holder' = Nobody
    /\ Leave(a)
    /\ UNCHANGED <<sequence, schema, drift, approved, expected>>

(* A cadastre or the generation itself is gone, or a row conflicts with    *)
(* one of a cadastre's synchronisation: the transaction is rolled back.    *)
ActivateFails(a) ==
    /\ actor[a].pc = "activate"
    /\ holder' = Nobody
    /\ Leave(a)
    /\ UNCHANGED <<generations, expected, shown>>

-----------------------------------------------------------------------------
(* approve_schema_drift of a manifest that permits it.                     *)

Approve(a, g) ==
    /\ actor[a].pc = "idle"
    /\ status[g] = "FAILED"
    /\ g \in drift
    /\ actor' = [actor EXCEPT ![a] = [Idle EXCEPT !.pc = "approve", !.generation = g]]
    /\ UNCHANGED <<generations, expected, holder, shown>>

ApproveSave(a) ==
    /\ actor[a].pc = "approve"
    /\ RowFree(Own(a))
    /\ status[Own(a)] # "DELETED"
    /\ status' = [status EXCEPT ![Own(a)] = "READY"]
    /\ approved' = approved \cup {Own(a)}
    /\ Enter(a, "accept")
    /\ UNCHANGED <<sequence, schema, drift, expected, holder, shown>>

ApproveFails(a) ==
    /\ actor[a].pc = "approve"
    /\ status[Own(a)] = "DELETED"
    /\ Leave(a)
    /\ UNCHANGED <<generations, expected, holder, shown>>

Accept(a) ==
    /\ actor[a].pc = "accept"
    /\ holder = Nobody
    /\ expected' = schema[Own(a)]
    /\ Leave(a)
    /\ UNCHANGED <<generations, holder, shown>>

(* admin_wfs_layer_detail saves every field of the manifest it loaded.     *)
Patch(a) ==
    /\ actor[a].pc = "idle"
    /\ actor' = [actor EXCEPT ![a] = [Idle EXCEPT !.pc = "patch", !.expected = expected]]
    /\ UNCHANGED <<generations, expected, holder, shown>>

PatchSave(a) ==
    /\ actor[a].pc = "patch"
    /\ holder = Nobody
    /\ expected' = actor[a].expected
    /\ Leave(a)
    /\ UNCHANGED <<generations, holder, shown>>

-----------------------------------------------------------------------------
(* cleanup_retired_generations: three statements, the last by primary key. *)

Newer(g) == {h \in With("RETIRED") : sequence[h] > sequence[g]}

Retain(a) ==
    /\ actor[a].pc = "idle"
    /\ actor' = [actor EXCEPT ![a] =
                   [Idle EXCEPT !.pc = "collect",
                                !.picked = {g \in With("RETIRED") :
                                              Cardinality(Newer(g)) < Keep}]]
    /\ UNCHANGED <<generations, expected, holder, shown>>

Collect(a) ==
    /\ actor[a].pc = "collect"
    /\ actor' = [actor EXCEPT ![a] =
                   [Idle EXCEPT !.pc = "delete",
                                !.picked = With("RETIRED") \ actor[a].picked]]
    /\ UNCHANGED <<generations, expected, holder, shown>>

Delete(a) ==
    /\ actor[a].pc = "delete"
    /\ \A g \in actor[a].picked : RowFree(g)
    /\ status' = [g \in Generation |-> IF g \in actor[a].picked THEN "DELETED" ELSE status[g]]
    /\ Leave(a)
    /\ UNCHANGED <<sequence, schema, drift, approved, expected, holder, shown>>

-----------------------------------------------------------------------------
(* sync_metsaregister_wfs of one cadastre: statements without transaction. *)

SyncUpsert(kept) ==
    /\ kept \subseteq shown
    /\ shown' = kept \cup {Live}
    /\ UNCHANGED <<generations, expected, holder, actor>>

SyncDelete(kept) ==
    /\ kept \subseteq shown
    /\ shown' = kept
    /\ UNCHANGED <<generations, expected, holder, actor>>

(* A worker is killed or a connection lost: an open transaction is undone, *)
(* everything else stays as it is.                                         *)
Kill(a) ==
    /\ actor[a].pc # "idle"
    /\ holder' = IF holder = a THEN Nobody ELSE holder
    /\ Leave(a)
    /\ UNCHANGED <<generations, expected, shown>>

-----------------------------------------------------------------------------
StageStep(a) ==
    \/ \E n \in 1 .. MaxGenerations + 1 : Refresh(a, n)
    \/ \E g \in Generation : Create(a, g)
    \/ CreateRefused(a)
    \/ \E s \in Schema : Stage(a, s)
    \/ Baseline(a)
    \/ StageFails(a)

ActivationStep(a) ==
    \/ \E g \in Generation : Publish(a, g) \/ Rollback(a, g)
    \/ Verify(a)
    \/ \E c \in Generation \cup {NoGeneration} : LockManifest(a, c)
    \/ \E kept \in SUBSET {Live} : Activate(a, kept)
    \/ ActivateFails(a)

ManifestStep(a) ==
    \/ \E g \in Generation : Approve(a, g)
    \/ ApproveSave(a)
    \/ ApproveFails(a)
    \/ Accept(a)
    \/ Patch(a)
    \/ PatchSave(a)

CleanupStep(a) ==
    \/ Retain(a)
    \/ Collect(a)
    \/ Delete(a)

Next ==
    \/ \E a \in Actor :
         \/ StageStep(a)
         \/ ActivationStep(a)
         \/ ManifestStep(a)
         \/ CleanupStep(a)
         \/ Kill(a)
    \/ \E kept \in SUBSET (Generation \cup {Live}) : SyncUpsert(kept) \/ SyncDelete(kept)

Spec == Init /\ [][Next]_vars

-----------------------------------------------------------------------------
(* However refreshes, publications, roll backs, approvals and clean ups    *)
(* interleave, the layer never has two active generations: only the row    *)
(* lock on the manifest orders two activations.                            *)
AtMostOneActive ==
    \A g, h \in Generation : status[g] = "ACTIVE" /\ status[h] = "ACTIVE" => g = h

(* While a generation is active the map shows its rows and rows the        *)
(* cadastres' own synchronisation wrote, never those of another generation *)
(* (_activate_projection replaces rows and statuses in one transaction).   *)
ActiveGenerationIsShown ==
    \A g \in Generation : status[g] = "ACTIVE" => shown \subseteq {g, Live}

(* No row on the map comes from a generation that failed its validation,   *)
(* drifted or empty, unless an administrator approved it ("without         *)
(* mutating the active projection until validation passes").               *)
OnlyValidatedDataIsShown ==
    \A g \in shown \ {Live} :
        g \in approved \/ (g \notin drift /\ schema[g] \notin {NoFields, NoSchema})

(* "Only a generation blocked by schema drift can be approved": no step    *)
(* makes a published generation READY again.                               *)
OnlyBlockedIsApproved ==
    [][\A g \in Generation :
          status'[g] = "READY" => status[g] \in {"STAGING", "FAILED", "READY"}]_vars
=============================================================================
