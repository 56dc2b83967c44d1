------------------------ MODULE WfsGenerations_proofs ------------------------
(***************************************************************************)
(* Proofs about WfsGenerations for every number of actors and generations, *)
(* every set of schemas and every retention.                               *)
(***************************************************************************)
EXTENDS WfsGenerations, TLAPS

-----------------------------------------------------------------------------
Pc == {"idle", "create", "stage", "baseline", "verify", "lock", "activate",
       "approve", "accept", "patch", "collect", "delete"}
Holding == {"baseline", "verify", "lock", "activate", "approve", "accept"}
LocalState ==
    [pc : Pc, generation : Generation \cup {NoGeneration}, expected : Schema \cup {NoSchema},
     sequence : 0 .. MaxGenerations + 1, current : Generation \cup {NoGeneration},
     picked : SUBSET Generation]

(* A generation that has left STAGING keeps its schema and its features.   *)
Started == {g \in Generation : status[g] \notin {"NONE", "STAGING"}}

(* What an actor remembers is still true of the generations it names.      *)
Memory(a) ==
    /\ actor[a].pc = "stage" => Own(a) \in With("STAGING")
    /\ actor[a].pc \in Holding => Own(a) \in Started
    /\ actor[a].current \in Started \cup {NoGeneration}
    /\ actor[a].picked \subseteq Started
    /\ actor[a].pc = "create" =>
         \A g \in Generation : status[g] = "NONE" => actor[a].sequence <= g

OneStager ==
    \A a, b \in Actor :
        actor[a].pc = "stage" /\ actor[b].pc = "stage" /\ Own(a) = Own(b) => a = b

Numbered ==
    /\ \A g \in Generation : sequence[g] <= g
    /\ \A g, h \in Generation : status[g] = "NONE" /\ g <= h => status[h] = "NONE"

TypeInv ==
    /\ TypeOK
    /\ \A a \in Actor : Memory(a)
    /\ OneStager
    /\ Numbered
    /\ shown \subseteq Started \cup {Live}

LEMMA IdleType ==
    /\ Idle \in LocalState
    /\ Idle.pc = "idle" /\ Idle.generation = NoGeneration /\ Idle.expected = NoSchema
    /\ Idle.sequence = 0 /\ Idle.current = NoGeneration /\ Idle.picked = {}
BY BoundAssumption DEF Idle, LocalState, Pc, NoGeneration

LEMMA TypeInvInit == Init => TypeInv
<1> SUFFICES ASSUME Init PROVE TypeInv
  OBVIOUS
<1>1. Idle \in LocalState /\ Idle.pc = "idle" /\ Idle.current = NoGeneration
      /\ Idle.picked = {}
  BY IdleType
<1>2. TypeOK
  BY <1>1, BoundAssumption DEF Init, TypeOK, LocalState, Pc, Generation, Live
<1>3. \A a \in Actor : Memory(a) /\ actor[a].pc = "idle"
  BY <1>1 DEF Init, Memory, Holding
<1>4. Numbered /\ shown \subseteq Started \cup {Live}
  BY BoundAssumption DEF Init, Numbered, Generation
<1> QED
  BY <1>2, <1>3, <1>4 DEF TypeInv, OneStager

(* Every step of an actor leaves the others where they are.                *)
ActorStep(a) == StageStep(a) \/ ActivationStep(a) \/ ManifestStep(a) \/ CleanupStep(a) \/ Kill(a)

LEMMA TypeActor ==
    ASSUME TypeInv, NEW a \in Actor, ActorStep(a)
    PROVE  actor' \in [Actor -> LocalState] /\ \A b \in Actor \ {a} : actor'[b] = actor[b]
<1>t. /\ actor \in [Actor -> LocalState] /\ Idle \in LocalState
      /\ expected \in Schema \cup {NoSchema}
  BY IdleType DEF TypeInv, TypeOK, LocalState, Pc
<1>g. ASSUME NEW q \in LocalState, actor' = [actor EXCEPT ![a] = q]
      PROVE  actor' \in [Actor -> LocalState] /\ \A b \in Actor \ {a} : actor'[b] = actor[b]
  BY <1>t, <1>g
<1>l. ASSUME Leave(a)
      PROVE  actor' \in [Actor -> LocalState] /\ \A b \in Actor \ {a} : actor'[b] = actor[b]
  BY <1>t, <1>l DEF Leave
<1>e. ASSUME NEW s \in Pc, Enter(a, s)
      PROVE  actor' \in [Actor -> LocalState] /\ \A b \in Actor \ {a} : actor'[b] = actor[b]
  BY <1>t, <1>e DEF Enter, LocalState
<1>n. 0 \in 0 .. MaxGenerations + 1 /\ {} \in SUBSET Generation
  BY BoundAssumption
<1>1. ASSUME NEW n \in 1 .. MaxGenerations + 1, Refresh(a, n)
      PROVE  actor' \in [Actor -> LocalState] /\ \A b \in Actor \ {a} : actor'[b] = actor[b]
  <2>q. PICK q : q = [Idle EXCEPT !.pc = "create", !.expected = expected, !.sequence = n]
    OBVIOUS
  <2>1. q = [pc |-> "create", generation |-> NoGeneration, expected |-> expected,
             sequence |-> n, current |-> NoGeneration, picked |-> {}]
    BY <2>q, IdleType DEF LocalState
  <2>2. q \in LocalState
    BY <1>t, <1>n, <2>1 DEF LocalState, Pc
  <2> QED
    BY <1>1, <1>g, <2>q, <2>2 DEF Refresh
<1>2. ASSUME NEW g \in Generation, Create(a, g)
      PROVE  actor' \in [Actor -> LocalState] /\ \A b \in Actor \ {a} : actor'[b] = actor[b]
  BY <1>2, <1>t DEF Create, LocalState, Pc
<1>3. CASE CreateRefused(a) \/ StageFails(a) \/ ActivateFails(a) \/ ApproveFails(a)
           \/ Accept(a) \/ PatchSave(a) \/ Delete(a) \/ Kill(a)
           \/ \E kept \in SUBSET {Live} : Activate(a, kept)
  BY <1>3, <1>l DEF CreateRefused, StageFails, ActivateFails, ApproveFails, Accept,
                    PatchSave, Delete, Kill, Activate
<1>4. CASE \E s \in Schema : Stage(a, s)
  BY <1>4, <1>l, <1>e DEF Stage, Pc
<1>5. CASE Baseline(a) \/ Verify(a) \/ ApproveSave(a)
  BY <1>5, <1>l, <1>e DEF Baseline, Verify, ApproveSave, Pc
<1>6. ASSUME NEW g \in Generation, Publish(a, g) \/ Rollback(a, g) \/ Approve(a, g)
      PROVE  actor' \in [Actor -> LocalState] /\ \A b \in Actor \ {a} : actor'[b] = actor[b]
  <2>1. ASSUME NEW s \in {"verify", "approve"}
        PROVE  [Idle EXCEPT !.pc = s, !.generation = g] \in LocalState
    <3>q. PICK q : q = [Idle EXCEPT !.pc = s, !.generation = g]
      OBVIOUS
    <3>1. q = [pc |-> s, generation |-> g, expected |-> NoSchema,
               sequence |-> 0, current |-> NoGeneration, picked |-> {}]
      BY <3>q, IdleType DEF LocalState
    <3> QED
      BY <1>n, <3>q, <3>1 DEF LocalState, Pc
  <2> QED
    BY <1>6, <1>g, <2>1 DEF Publish, Rollback, Approve
<1>7. ASSUME NEW c \in Generation \cup {NoGeneration}, LockManifest(a, c)
      PROVE  actor' \in [Actor -> LocalState] /\ \A b \in Actor \ {a} : actor'[b] = actor[b]
  BY <1>7, <1>t DEF LockManifest, LocalState, Pc
<1>8. CASE Patch(a)
  <2>q. PICK q : q = [Idle EXCEPT !.pc = "patch", !.expected = expected]
    OBVIOUS
  <2>1. q = [pc |-> "patch", generation |-> NoGeneration, expected |-> expected,
             sequence |-> 0, current |-> NoGeneration, picked |-> {}]
    BY <2>q, IdleType DEF LocalState
  <2>2. q \in LocalState
    BY <1>t, <1>n, <2>1 DEF LocalState, Pc
  <2> QED
    BY <1>8, <1>g, <2>q, <2>2 DEF Patch
<1>9. CASE Retain(a) \/ Collect(a)
  <2>1. PICK S \in SUBSET Generation, s \in {"collect", "delete"} :
          actor' = [actor EXCEPT ![a] = [Idle EXCEPT !.pc = s, !.picked = S]]
    BY <1>9 DEF Retain, Collect, With
  <2>q. PICK q : q = [Idle EXCEPT !.pc = s, !.picked = S]
    OBVIOUS
  <2>2. q = [pc |-> s, generation |-> NoGeneration, expected |-> NoSchema,
             sequence |-> 0, current |-> NoGeneration, picked |-> S]
    BY <2>q, IdleType DEF LocalState
  <2>3. q \in LocalState
    BY <1>n, <2>2 DEF LocalState, Pc
  <2> QED
    BY <1>g, <2>q, <2>1, <2>3
<1> QED
  BY <1>1, <1>2, <1>3, <1>4, <1>5, <1>6, <1>7, <1>8, <1>9
     DEF ActorStep, StageStep, ActivationStep, ManifestStep, CleanupStep

StatusValue == {"NONE", "STAGING", "READY", "ACTIVE", "RETIRED", "FAILED", "DELETED"}

(* A generation is created by the actor that stages it, leaves STAGING by  *)
(* that actor's hand and never returns.                                    *)
Moves(a, g) ==
    \/ status'[g] = status[g]
    \/ Create(a, g) /\ status[g] = "NONE" /\ status'[g] = "STAGING"
    \/ actor[a].pc = "stage" /\ Own(a) = g /\ status'[g] \notin {"NONE", "STAGING"}
    \/ g \in Started /\ status'[g] \notin {"NONE", "STAGING"}

LEMMA StatusMoves ==
    ASSUME TypeInv, NEW a \in Actor, ActorStep(a)
    PROVE  status' \in [Generation -> StatusValue] /\ \A g \in Generation : Moves(a, g)
<1> USE DEF Own
<1>t. /\ status \in [Generation -> StatusValue] /\ actor \in [Actor -> LocalState]
      /\ Memory(a)
  BY DEF TypeInv, TypeOK, StatusValue, LocalState, Pc
<1>u. ASSUME UNCHANGED status
      PROVE  status' \in [Generation -> StatusValue] /\ \A g \in Generation : Moves(a, g)
  BY <1>t, <1>u DEF Moves
<1>1. ASSUME NEW g \in Generation, Create(a, g)
      PROVE  status' \in [Generation -> StatusValue] /\ \A h \in Generation : Moves(a, h)
  <2>1. status[g] = "NONE"
    BY <1>1 DEF Create, Generation
  <2>2. status' = [status EXCEPT ![g] = "STAGING"]
    BY <1>1 DEF Create
  <2>3. \A h \in Generation \ {g} : Moves(a, h)
    BY <1>t, <2>2 DEF Moves
  <2>4. Moves(a, g)
    BY <1>1, <1>t, <2>1, <2>2 DEF Moves
  <2> QED
    BY <1>t, <2>2, <2>3, <2>4 DEF StatusValue
<1>2. CASE \E s \in Schema : Stage(a, s)
  BY <1>2, <1>t DEF Stage, Moves, StatusValue, With, Memory
<1>3. CASE StageFails(a)
  BY <1>3, <1>t DEF StageFails, Moves, StatusValue, With, Memory, Holding, Started
<1>4. CASE \E kept \in SUBSET {Live} : Activate(a, kept)
  <2>1. \A g \in Generation : status'[g] # status[g] => g \in Started
    BY <1>4, <1>t DEF Activate, Memory, Holding, Started, Generation, NoGeneration
  <2> QED
    BY <1>4, <1>t, <2>1 DEF Activate, Moves, StatusValue
<1>5. CASE ApproveSave(a)
  BY <1>5, <1>t DEF ApproveSave, Moves, StatusValue, Memory, Holding
<1>6. CASE Delete(a)
  BY <1>6, <1>t DEF Delete, Moves, StatusValue, Memory
<1>7. CASE \/ (\E n \in 1 .. MaxGenerations + 1 : Refresh(a, n)) \/ CreateRefused(a)
           \/ Baseline(a)
           \/ (\E g \in Generation : Publish(a, g) \/ Rollback(a, g) \/ Approve(a, g))
           \/ Verify(a) \/ (\E c \in Generation \cup {NoGeneration} : LockManifest(a, c))
           \/ ActivateFails(a) \/ ApproveFails(a) \/ Accept(a) \/ Patch(a) \/ PatchSave(a)
           \/ Retain(a) \/ Collect(a) \/ Kill(a)
  BY <1>7, <1>u DEF Refresh, CreateRefused, Baseline, Publish, Rollback, Approve, Verify,
       LockManifest, ActivateFails, ApproveFails, Accept, Patch, PatchSave, Retain,
       Collect, Kill, generations
<1> QED
  BY <1>1, <1>2, <1>3, <1>4, <1>5, <1>6, <1>7
     DEF ActorStep, StageStep, ActivationStep, ManifestStep, CleanupStep

LEMMA OthersRemember ==
    ASSUME TypeInv, NEW a \in Actor, ActorStep(a), NEW b \in Actor \ {a}
    PROVE  Memory(b)'
<1> USE DEF Own
<1>t. /\ actor \in [Actor -> LocalState] /\ Memory(b) /\ actor'[b] = actor[b]
      /\ status \in [Generation -> StatusValue]
  BY TypeActor DEF TypeInv, TypeOK, StatusValue, LocalState, Pc
<1>m. \A g \in Generation : Moves(a, g)
  BY StatusMoves
<1>1. Started \subseteq Started'
  BY <1>t, <1>m DEF Started, Moves
<1>2. \A g \in Generation : status'[g] = "NONE" => status[g] = "NONE"
  BY <1>t, <1>m DEF Started, Moves
<1>3. ASSUME actor[b].pc = "stage" PROVE Own(b) \in With("STAGING")'
  <2>1. Own(b) \in Generation /\ status[Own(b)] = "STAGING"
    BY <1>t, <1>3 DEF Memory, With
  <2>2. actor[a].pc = "stage" => Own(a) # Own(b)
    BY <1>3 DEF TypeInv, OneStager
  <2> QED
    BY <1>m, <2>1, <2>2 DEF Moves, With, Started
<1> QED
  BY <1>t, <1>1, <1>2, <1>3 DEF Memory

(* The actor itself remembers what it has just read or written.            *)
LEMMA ActorRemembers ==
    ASSUME TypeInv, NEW a \in Actor, ActorStep(a)
    PROVE  Memory(a)'
<1> USE DEF Own
<1>t. /\ actor \in [Actor -> LocalState] /\ Memory(a)
      /\ status \in [Generation -> StatusValue] /\ status' \in [Generation -> StatusValue]
      /\ Numbered
  BY StatusMoves DEF TypeInv, TypeOK, StatusValue, LocalState, Pc
<1>m. \A g \in Generation : Moves(a, g)
  BY StatusMoves
<1>1. Started \subseteq Started'
  BY <1>t, <1>m DEF Started, Moves
<1>l. ASSUME actor'[a] = Idle PROVE Memory(a)'
  BY <1>l, IdleType DEF Memory, Holding
<1>h. ASSUME actor'[a].pc \in Holding, actor'[a].generation \in Started',
             actor'[a].current \in Started \cup {NoGeneration}, actor'[a].picked \subseteq Started
      PROVE  Memory(a)'
  BY <1>1, <1>h DEF Memory, Holding
<1>2. ASSUME NEW n \in 1 .. MaxGenerations + 1, Refresh(a, n) PROVE Memory(a)'
  <2>1. \A g \in Generation : status[g] = "NONE" => n <= g
    BY <1>2, <1>t, BoundAssumption DEF Refresh, IsNextSequence, Stored, Numbered, Generation, TypeInv, TypeOK
  <2> QED
    BY <1>2, <1>t, <2>1, IdleType
       DEF Refresh, Memory, Holding, LocalState, generations
<1>3. ASSUME NEW g \in Generation, Create(a, g) PROVE Memory(a)'
  BY <1>3, <1>t, BoundAssumption
     DEF Create, Memory, Holding, With, LocalState, Started, Generation
<1>4. CASE CreateRefused(a) \/ StageFails(a) \/ ActivateFails(a) \/ ApproveFails(a)
           \/ Accept(a) \/ PatchSave(a) \/ Delete(a) \/ Kill(a)
           \/ \E kept \in SUBSET {Live} : Activate(a, kept)
  BY <1>4, <1>t, <1>l DEF CreateRefused, StageFails, ActivateFails, ApproveFails, Accept,
                    PatchSave, Delete, Kill, Activate, Leave
<1>5. ASSUME NEW s \in Schema, Stage(a, s) PROVE Memory(a)'
  <2>1. CASE Blocked(a, s)
    BY <1>5, <1>t, <1>l, <2>1 DEF Stage, Leave
  <2>2. CASE ~Blocked(a, s)
    <3>1. Own(a) \in Started'
      BY <1>5, <1>t, <2>2 DEF Stage, Memory, With, Started
    <3>2. /\ actor'[a].pc \in Holding /\ actor'[a].generation = Own(a)
          /\ actor'[a].current = actor[a].current /\ actor'[a].picked = actor[a].picked
      BY <1>5, <1>t, <2>2 DEF Stage, Enter, Holding, LocalState
    <3> QED
      BY <1>h, <1>t, <3>1, <3>2 DEF Memory
  <2> QED
    BY <2>1, <2>2
<1>6. CASE Baseline(a) \/ Verify(a) \/ ApproveSave(a)
  <2>1. CASE actor'[a] = Idle
    BY <1>l, <2>1
  <2>2. CASE actor'[a] # Idle
    <3>1. Own(a) \in Started'
      BY <1>1, <1>6, <1>t DEF Baseline, Verify, ApproveSave, Memory, Holding
    <3>2. /\ actor'[a].pc \in Holding /\ actor'[a].generation = Own(a)
          /\ actor'[a].current = actor[a].current /\ actor'[a].picked = actor[a].picked
      BY <1>6, <1>t, <2>2 DEF Baseline, Verify, ApproveSave, Enter, Leave, Holding, LocalState
    <3> QED
      BY <1>h, <1>t, <3>1, <3>2 DEF Memory
  <2> QED
    BY <2>1, <2>2
<1>7. ASSUME NEW g \in Generation, Publish(a, g) \/ Rollback(a, g) \/ Approve(a, g)
      PROVE  Memory(a)'
  <2>1. g \in Started'
    BY <1>1, <1>7 DEF Publish, Rollback, Approve, Started
  <2>2. /\ actor'[a].pc \in Holding /\ actor'[a].generation = g
        /\ actor'[a].current = NoGeneration /\ actor'[a].picked = {}
    <3>1. PICK s \in {"verify", "approve"} :
            actor' = [actor EXCEPT ![a] = [Idle EXCEPT !.pc = s, !.generation = g]]
      BY <1>7 DEF Publish, Rollback, Approve
    <3> QED
      BY <1>t, <3>1, IdleType DEF Holding, LocalState
  <2> QED
    BY <1>h, <2>1, <2>2
<1>8. ASSUME NEW c \in Generation \cup {NoGeneration}, LockManifest(a, c) PROVE Memory(a)'
  <2>1. c \in Started \cup {NoGeneration}
    BY <1>8 DEF LockManifest, Others, With, Started
  <2>2. /\ actor'[a].pc \in Holding /\ actor'[a].generation = Own(a)
        /\ actor'[a].current = c /\ actor'[a].picked = actor[a].picked
    BY <1>8, <1>t DEF LockManifest, Holding, LocalState
  <2>3. Own(a) \in Started'
    BY <1>1, <1>8, <1>t DEF LockManifest, Memory, Holding
  <2> QED
    BY <1>h, <1>t, <2>1, <2>2, <2>3 DEF Memory
<1>9. CASE Patch(a)
  BY <1>9, <1>t, IdleType DEF Patch, Memory, Holding, LocalState
<1>10. CASE Retain(a) \/ Collect(a)
  <2>1. PICK S \in SUBSET Started, s \in {"collect", "delete"} :
          actor' = [actor EXCEPT ![a] = [Idle EXCEPT !.pc = s, !.picked = S]]
    BY <1>10 DEF Retain, Collect, With, Started
  <2>2. /\ actor'[a].pc = s /\ actor'[a].current = NoGeneration /\ actor'[a].picked = S
    BY <1>t, <2>1, IdleType DEF LocalState
  <2> QED
    BY <1>1, <2>2 DEF Memory, Holding
<1> QED
  BY <1>2, <1>3, <1>4, <1>5, <1>6, <1>7, <1>8, <1>9, <1>10
     DEF ActorStep, StageStep, ActivationStep, ManifestStep, CleanupStep

(* Only Create leads to "stage" and only LockManifest to "activate".       *)
LEMMA NextPc ==
    ASSUME TypeInv, NEW a \in Actor, ActorStep(a)
    PROVE  /\ actor'[a].pc = "stage" => \E g \in Generation : Create(a, g)
           /\ actor'[a].pc = "activate" =>
                \E c \in Generation \cup {NoGeneration} : LockManifest(a, c)
<1> DEFINE Elsewhere == Pc \ {"stage", "activate"}
<1>t. actor \in [Actor -> LocalState]
  BY DEF TypeInv, TypeOK, LocalState, Pc
<1>g. ASSUME NEW s \in Elsewhere, NEW g \in Generation,
             actor' = [actor EXCEPT ![a] = [Idle EXCEPT !.pc = s, !.generation = g]]
      PROVE  actor'[a].pc \in Elsewhere
  BY <1>t, <1>g, IdleType DEF LocalState
<1>p. ASSUME NEW s \in Elsewhere, NEW S \in SUBSET Generation,
             actor' = [actor EXCEPT ![a] = [Idle EXCEPT !.pc = s, !.picked = S]]
      PROVE  actor'[a].pc \in Elsewhere
  BY <1>t, <1>p, IdleType DEF LocalState
<1>e. ASSUME NEW s \in Elsewhere, Enter(a, s) PROVE actor'[a].pc \in Elsewhere
  BY <1>t, <1>e DEF Enter, LocalState
<1>l. ASSUME Leave(a) PROVE actor'[a].pc \in Elsewhere
  BY <1>t, <1>l, IdleType DEF Leave, Pc
<1>1. CASE \E n \in 1 .. MaxGenerations + 1 : Refresh(a, n)
  <2>1. actor'[a].pc = "create"
    BY <1>1, <1>t, IdleType DEF Refresh, LocalState
  <2> QED
    BY <2>1
<1>2. CASE CreateRefused(a) \/ StageFails(a) \/ ActivateFails(a) \/ ApproveFails(a)
           \/ Accept(a) \/ PatchSave(a) \/ Delete(a) \/ Kill(a)
           \/ \E kept \in SUBSET {Live} : Activate(a, kept)
  BY <1>2, <1>l DEF CreateRefused, StageFails, ActivateFails, ApproveFails, Accept, PatchSave,
                    Delete, Kill, Activate
<1>3. CASE Baseline(a) \/ Verify(a) \/ ApproveSave(a) \/ \E s \in Schema : Stage(a, s)
  <2>1. {"verify", "lock", "accept", "baseline"} \subseteq Elsewhere
    BY DEF Pc
  <2> QED
    BY <1>3, <1>l, <1>e, <2>1 DEF Baseline, Verify, ApproveSave, Stage
<1>4. CASE \E g \in Generation : Publish(a, g) \/ Rollback(a, g) \/ Approve(a, g)
  BY <1>4, <1>g DEF Publish, Rollback, Approve, Pc
<1>5. CASE Patch(a)
  <2>1. actor'[a].pc = "patch"
    BY <1>5, <1>t, IdleType DEF Patch, LocalState
  <2> QED
    BY <2>1
<1>6. CASE Retain(a) \/ Collect(a)
  <2>1. PICK S \in SUBSET Generation, s \in {"collect", "delete"} :
          actor' = [actor EXCEPT ![a] = [Idle EXCEPT !.pc = s, !.picked = S]]
    BY <1>6 DEF Retain, Collect, With
  <2> QED
    BY <1>p, <2>1 DEF Pc
<1>7. CASE \E c \in Generation \cup {NoGeneration} : LockManifest(a, c)
  BY <1>7, <1>t DEF LockManifest, LocalState
<1>8. CASE \E g \in Generation : Create(a, g)
  BY <1>8, <1>t DEF Create, LocalState
<1> QED
  BY <1>1, <1>2, <1>3, <1>4, <1>5, <1>6, <1>7, <1>8
     DEF ActorStep, StageStep, ActivationStep, ManifestStep, CleanupStep

LEMMA StagersDiffer ==
    ASSUME TypeInv, NEW a \in Actor, ActorStep(a)
    PROVE  OneStager'
<1> USE DEF Own
<1>t. /\ actor \in [Actor -> LocalState] /\ \A b \in Actor : Memory(b)
      /\ OneStager
  BY DEF TypeInv, TypeOK, LocalState, Pc
<1>o. \A b \in Actor \ {a} : actor'[b] = actor[b]
  BY TypeActor
<1>1. CASE actor'[a].pc # "stage"
  BY <1>t, <1>o, <1>1 DEF OneStager
<1>2. ASSUME NEW g \in Generation, Create(a, g) PROVE OneStager'
  <2>1. status[g] = "NONE" /\ actor'[a].generation = g
    BY <1>2, <1>t DEF Create, LocalState, Generation
  <2>2. \A b \in Actor \ {a} : actor'[b].pc = "stage" => actor'[b].generation # g
    BY <1>t, <1>o, <2>1 DEF Memory, With
  <2> QED
    BY <1>t, <1>o, <2>1, <2>2 DEF OneStager
<1> QED
  BY <1>1, <1>2, NextPc

(* The other variables of an actor's step.                                 *)
LEMMA OtherTypes ==
    ASSUME TypeInv, NEW a \in Actor, ActorStep(a)
    PROVE  /\ sequence' \in [Generation -> 0 .. MaxGenerations] /\ Numbered'
           /\ schema' \in [Generation -> Schema \cup {NoSchema}]
           /\ drift' \subseteq Generation /\ approved' \subseteq Generation
           /\ expected' \in Schema \cup {NoSchema} /\ holder' \in Actor \cup {Nobody}
           /\ shown' \subseteq Started \cup {Live}
<1> USE DEF Own
<1>t. /\ actor \in [Actor -> LocalState] /\ Memory(a) /\ Numbered
      /\ status \in [Generation -> StatusValue]
      /\ sequence \in [Generation -> 0 .. MaxGenerations]
      /\ schema \in [Generation -> Schema \cup {NoSchema}]
      /\ drift \subseteq Generation /\ approved \subseteq Generation
      /\ expected \in Schema \cup {NoSchema} /\ holder \in Actor \cup {Nobody}
      /\ shown \subseteq Started \cup {Live}
  BY DEF TypeInv, TypeOK, StatusValue, LocalState, Pc
<1>1. sequence' \in [Generation -> 0 .. MaxGenerations] /\ \A g \in Generation : sequence'[g] <= g
  <2>1. ASSUME NEW g \in Generation, Create(a, g)
        PROVE  /\ sequence' \in [Generation -> 0 .. MaxGenerations]
               /\ \A h \in Generation : sequence'[h] <= h
    <3>1. status[g] = "NONE"
      BY <2>1 DEF Create, Generation
    <3>2. actor[a].sequence <= g /\ actor[a].sequence \in 0 .. MaxGenerations
      BY <1>t, <2>1, <3>1, BoundAssumption DEF Create, Memory, LocalState, Generation
    <3> QED
      BY <1>t, <2>1, <3>2 DEF Create, Numbered
  <2>2. CASE UNCHANGED sequence
    BY <1>t, <2>2 DEF Numbered
  <2> QED
    BY <2>1, <2>2 DEF ActorStep, StageStep, ActivationStep, ManifestStep, CleanupStep,
         Refresh, CreateRefused, Stage, Baseline, StageFails, Publish, Rollback, Verify,
         LockManifest, Activate, ActivateFails, Approve, ApproveSave, ApproveFails, Accept,
         Patch, PatchSave, Retain, Collect, Delete, Kill, generations
<1>2. \A g, h \in Generation : status'[g] = "NONE" /\ g <= h => status'[h] = "NONE"
  <2>1. ASSUME NEW k \in Generation, Create(a, k)
        PROVE  \A g, h \in Generation : status'[g] = "NONE" /\ g <= h => status'[h] = "NONE"
    <3>1. \A g \in Generation : status'[g] = "NONE" <=> g > k
      BY <1>t, <2>1 DEF Create, Generation
    <3> QED
      BY <3>1 DEF Generation
  <2>2. ASSUME \A k \in Generation : ~Create(a, k)
        PROVE  \A g \in Generation : status'[g] = "NONE" <=> status[g] = "NONE"
    BY <1>t, <2>2, StatusMoves DEF Moves, Memory, With, Started
  <2> QED
    BY <1>t, <2>1, <2>2 DEF Numbered
<1>3. schema' \in [Generation -> Schema \cup {NoSchema}] /\ drift' \subseteq Generation
  <2>1. CASE \E s \in Schema : Stage(a, s)
    BY <1>t, <2>1 DEF Stage, Memory, With
  <2>2. CASE StageFails(a)
    BY <1>t, <2>2 DEF StageFails
  <2>3. CASE UNCHANGED <<schema, drift>>
    BY <1>t, <2>3
  <2> QED
    BY <2>1, <2>2, <2>3 DEF ActorStep, StageStep, ActivationStep, ManifestStep, CleanupStep,
         Refresh, Create, CreateRefused, Baseline, Publish, Rollback, Verify,
         LockManifest, Activate, ActivateFails, Approve, ApproveSave, ApproveFails, Accept,
         Patch, PatchSave, Retain, Collect, Delete, Kill, generations
<1>4. approved' \subseteq Generation
  <2>1. CASE ApproveSave(a)
    BY <1>t, <2>1 DEF ApproveSave, Memory, Holding, Started
  <2>2. CASE UNCHANGED approved
    BY <1>t, <2>2
  <2> QED
    BY <2>1, <2>2 DEF ActorStep, StageStep, ActivationStep, ManifestStep, CleanupStep,
         Refresh, Create, CreateRefused, Stage, Baseline, StageFails, Publish, Rollback, Verify,
         LockManifest, Activate, ActivateFails, Approve, ApproveFails, Accept,
         Patch, PatchSave, Retain, Collect, Delete, Kill, generations
<1>5. expected' \in Schema \cup {NoSchema}
  <2>1. CASE Baseline(a) \/ Accept(a)
    BY <1>t, <2>1 DEF Baseline, Accept, Memory, Holding, Started
  <2>2. CASE PatchSave(a)
    BY <1>t, <2>2 DEF PatchSave, LocalState
  <2>3. CASE UNCHANGED expected
    BY <1>t, <2>3
  <2> QED
    BY <2>1, <2>2, <2>3 DEF ActorStep, StageStep, ActivationStep, ManifestStep, CleanupStep,
         Refresh, Create, CreateRefused, Stage, StageFails, Publish, Rollback, Verify,
         LockManifest, Activate, ActivateFails, Approve, ApproveSave, ApproveFails,
         Patch, Retain, Collect, Delete, Kill
<1>6. holder' \in Actor \cup {Nobody}
  <2>1. CASE holder' \in {a, Nobody, holder}
    BY <1>t, <2>1
  <2> QED
    BY <2>1 DEF ActorStep, StageStep, ActivationStep, ManifestStep, CleanupStep,
         Refresh, Create, CreateRefused, Stage, Baseline, StageFails, Publish, Rollback, Verify,
         LockManifest, Activate, ActivateFails, Approve, ApproveSave, ApproveFails, Accept,
         Patch, PatchSave, Retain, Collect, Delete, Kill
<1>7. shown' \subseteq Started \cup {Live}
  <2>1. CASE \E kept \in SUBSET {Live} : Activate(a, kept)
    BY <1>t, <2>1 DEF Activate, FeaturesOf, Memory, Holding
  <2>2. CASE UNCHANGED shown
    BY <1>t, <2>2
  <2> QED
    BY <2>1, <2>2 DEF ActorStep, StageStep, ActivationStep, ManifestStep, CleanupStep,
         Refresh, Create, CreateRefused, Stage, Baseline, StageFails, Publish, Rollback, Verify,
         LockManifest, ActivateFails, Approve, ApproveSave, ApproveFails, Accept,
         Patch, PatchSave, Retain, Collect, Delete, Kill
<1> QED
  BY <1>1, <1>2, <1>3, <1>4, <1>5, <1>6, <1>7 DEF Numbered

LEMMA TypeInvNext == TypeInv /\ [Next]_vars => TypeInv'
<1> SUFFICES ASSUME TypeInv, [Next]_vars PROVE TypeInv'
  OBVIOUS
<1>1. ASSUME NEW a \in Actor, ActorStep(a) PROVE TypeInv'
  <2>1. \A b \in Actor : Memory(b)'
    BY <1>1, ActorRemembers, OthersRemember
  <2>2. Started \subseteq Started'
    BY <1>1, StatusMoves DEF Started, Moves
  <2>3. TypeOK'
    <3>1. Started \cup {Live} \subseteq Generation \cup {Live}
      BY DEF Started
    <3>2. /\ actor' \in [Actor -> LocalState] /\ status' \in [Generation -> StatusValue]
      BY <1>1, TypeActor, StatusMoves
    <3> QED
      BY <1>1, <3>1, <3>2, OtherTypes DEF TypeOK, LocalState, Pc, StatusValue
  <2>4. shown' \subseteq Started' \cup {Live}
    BY <1>1, <2>2, OtherTypes
  <2> QED
    BY <1>1, <2>1, <2>3, <2>4, StagersDiffer, OtherTypes DEF TypeInv
<1>2. ASSUME NEW kept \in SUBSET (Generation \cup {Live}), SyncUpsert(kept) \/ SyncDelete(kept)
      PROVE  TypeInv'
  BY <1>2 DEF SyncUpsert, SyncDelete, generations, TypeInv, TypeOK, Memory, With, Started, Own,
              OneStager, Numbered
<1>3. CASE UNCHANGED vars
  BY <1>3 DEF vars, TypeInv, TypeOK, Memory, With, Started, Own, OneStager, Numbered
<1> QED
  BY <1>1, <1>2, <1>3 DEF Next, ActorStep

(* Every variable keeps its type.                                          *)
THEOREM TypeCorrect == Spec => []TypeOK
<1>1. TypeInv => TypeOK
  BY DEF TypeInv
<1> QED
  BY <1>1, TypeInvInit, TypeInvNext, PTL DEF Spec

-----------------------------------------------------------------------------
(* The holder of the manifest's lock knows every active generation: its    *)
(* own and the one it is about to retire.                                  *)
LockInv ==
    /\ AtMostOneActive
    /\ ActiveGenerationIsShown
    /\ \A a \in Actor :
         actor[a].pc = "activate" =>
            /\ holder = a
            /\ With("ACTIVE") \subseteq {Own(a), actor[a].current}

LEMMA LockInvNext == TypeInv /\ LockInv /\ [Next]_vars => LockInv'
<1> SUFFICES ASSUME TypeInv, LockInv, [Next]_vars PROVE LockInv'
  OBVIOUS
<1> USE DEF Own
<1>t. /\ actor \in [Actor -> LocalState] /\ \A b \in Actor : Memory(b)
      /\ status \in [Generation -> StatusValue]
  BY DEF TypeInv, TypeOK, StatusValue, LocalState, Pc
<1>1. ASSUME With("ACTIVE")' \subseteq With("ACTIVE"), shown' \subseteq shown \cup {Live},
             \A b \in Actor : actor'[b].pc = "activate" =>
                actor'[b] = actor[b] /\ holder' = holder
      PROVE  LockInv'
  BY <1>1 DEF LockInv, AtMostOneActive, ActiveGenerationIsShown, With
<1>2. ASSUME NEW a \in Actor, NEW c \in Generation \cup {NoGeneration}, LockManifest(a, c)
      PROVE  LockInv'
  <2>1. status' = status /\ shown' = shown /\ holder' = a /\ holder = Nobody
    BY <1>2 DEF LockManifest, generations
  <2>2. actor'[a].generation = Own(a) /\ actor'[a].current = c
    BY <1>2, <1>t DEF LockManifest, LocalState
  <2>3. With("ACTIVE") \subseteq {Own(a), c}
    BY <1>2 DEF LockManifest, Others, LockInv, AtMostOneActive, With
  <2>4. \A b \in Actor \ {a} : actor'[b] = actor[b] /\ actor[b].pc # "activate"
    BY <1>2, <1>t, <2>1, ActorAssumption DEF LockManifest, LockInv
  <2> QED
    BY <2>1, <2>2, <2>3, <2>4 DEF LockInv, AtMostOneActive, ActiveGenerationIsShown, With
<1>3. ASSUME NEW a \in Actor, NEW kept \in SUBSET {Live}, Activate(a, kept) PROVE LockInv'
  <2>1. Own(a) \in Generation
    BY <1>3, <1>t DEF Activate, Memory, Holding, Started
  <2>2. With("ACTIVE")' = {Own(a)}
    BY <1>3, <1>t, <2>1 DEF Activate, LockInv, With
  <2>3. shown' \subseteq {Own(a), Live}
    BY <1>3 DEF Activate, FeaturesOf
  <2>4. \A b \in Actor : actor'[b].pc # "activate"
    BY <1>3, <1>t, IdleType DEF Activate, Leave, LockInv
  <2> QED
    BY <2>2, <2>3, <2>4 DEF LockInv, AtMostOneActive, ActiveGenerationIsShown, With
<1>4. ASSUME NEW a \in Actor, ActorStep(a), UNCHANGED shown,
             actor[a].pc # "activate", actor'[a].pc # "activate", holder' = holder,
             \A g \in Generation : status'[g] = "ACTIVE" => status[g] = "ACTIVE"
      PROVE  LockInv'
  BY <1>1, <1>4, TypeActor DEF With
<1>5. ASSUME NEW a \in Actor, ActivateFails(a) \/ Kill(a) PROVE LockInv'
  <2>1. status' = status /\ shown' = shown
    BY <1>5 DEF ActivateFails, Kill, generations
  <2>2. \A b \in Actor : actor'[b].pc = "activate" => b # a /\ actor'[b] = actor[b]
    BY <1>5, <1>t, IdleType DEF ActivateFails, Kill, Leave
  <2>3. \A b \in Actor : actor'[b].pc = "activate" => holder' = holder
    BY <1>5, <2>2 DEF ActivateFails, Kill, LockInv
  <2> QED
    BY <1>1, <2>1, <2>2, <2>3 DEF With
<1>6. ASSUME NEW a \in Actor, StageStep(a) PROVE LockInv'
  <2>4. ~\E c \in Generation \cup {NoGeneration} : LockManifest(a, c)
    BY <1>6 DEF LockManifest, StageStep, Refresh, Create, CreateRefused, Stage, Baseline,
                StageFails
  <2>1. UNCHANGED <<shown, holder>> /\ actor[a].pc # "activate"
    BY <1>6 DEF StageStep, Refresh, Create, CreateRefused, Stage, Baseline, StageFails
  <2>2. \A g \in Generation : status'[g] = "ACTIVE" => status[g] = "ACTIVE"
    BY <1>6, <1>t DEF StageStep, Refresh, Create, CreateRefused, Stage, Baseline, StageFails,
                      generations
  <2>3. actor'[a].pc # "activate"
    BY <1>6, <2>4, NextPc DEF ActorStep
  <2> QED
    BY <1>4, <1>6, <2>1, <2>2, <2>3 DEF ActorStep
<1>7. ASSUME NEW a \in Actor, ManifestStep(a) \/ CleanupStep(a) PROVE LockInv'
  <2>4. ~\E c \in Generation \cup {NoGeneration} : LockManifest(a, c)
    BY <1>7 DEF LockManifest, ManifestStep, Approve, ApproveSave, ApproveFails, Accept, Patch,
                PatchSave, CleanupStep, Retain, Collect, Delete
  <2>1. UNCHANGED <<shown, holder>> /\ actor[a].pc # "activate"
    BY <1>7 DEF ManifestStep, Approve, ApproveSave, ApproveFails, Accept, Patch, PatchSave,
                CleanupStep, Retain, Collect, Delete
  <2>2. \A g \in Generation : status'[g] = "ACTIVE" => status[g] = "ACTIVE"
    BY <1>7, <1>t DEF ManifestStep, Approve, ApproveSave, ApproveFails, Accept, Patch, PatchSave,
                      CleanupStep, Retain, Collect, Delete, generations
  <2>3. actor'[a].pc # "activate"
    BY <1>7, <2>4, NextPc DEF ActorStep
  <2> QED
    BY <1>4, <1>7, <2>1, <2>2, <2>3 DEF ActorStep
<1>8. ASSUME NEW a \in Actor,
             Verify(a) \/ \E g \in Generation : Publish(a, g) \/ Rollback(a, g)
      PROVE  LockInv'
  <2>1. UNCHANGED <<shown, holder, status>> /\ actor[a].pc # "activate"
    BY <1>8 DEF Verify, Publish, Rollback, generations
  <2>3. ~\E c \in Generation \cup {NoGeneration} : LockManifest(a, c)
    BY <1>8 DEF LockManifest, Verify, Publish, Rollback
  <2>2. actor'[a].pc # "activate"
    BY <1>8, <2>3, NextPc DEF ActorStep, ActivationStep
  <2> QED
    BY <1>4, <1>8, <2>1, <2>2 DEF ActorStep, ActivationStep
<1>9. ASSUME NEW kept \in SUBSET (Generation \cup {Live}), SyncUpsert(kept) \/ SyncDelete(kept)
      PROVE  LockInv'
  BY <1>1, <1>9 DEF SyncUpsert, SyncDelete, generations, With
<1>10. CASE UNCHANGED vars
  BY <1>1, <1>10 DEF vars, With
<1> QED
  BY <1>2, <1>3, <1>5, <1>6, <1>7, <1>8, <1>9, <1>10 DEF Next, ActivationStep

LEMMA LockInvInit == Init => LockInv
BY IdleType DEF Init, LockInv, AtMostOneActive, ActiveGenerationIsShown

(* Only the row lock on the manifest orders activations, and it is enough. *)
THEOREM AtMostOneActiveHolds == Spec => []AtMostOneActive
<1>1. LockInv => AtMostOneActive
  BY DEF LockInv
<1> QED
  BY <1>1, TypeInvInit, TypeInvNext, LockInvInit, LockInvNext, PTL DEF Spec

(* The rows of an active generation are never mixed with another's.        *)
THEOREM ActiveGenerationIsShownHolds == Spec => []ActiveGenerationIsShown
<1>1. LockInv => ActiveGenerationIsShown
  BY DEF LockInv
<1> QED
  BY <1>1, TypeInvInit, TypeInvNext, LockInvInit, LockInvNext, PTL DEF Spec

-----------------------------------------------------------------------------
(* A generation whose data may be shown: validated, or approved.           *)
Sound(g) == g \in approved \/ (g \notin drift /\ schema[g] \notin {NoFields, NoSchema})

SoundInv ==
    /\ \A g \in Generation : status[g] \in {"READY", "ACTIVE", "RETIRED"} => Sound(g)
    /\ \A a \in Actor :
         /\ actor[a].pc \in {"baseline", "verify", "lock", "activate"} => Sound(Own(a))
         /\ actor[a].current # NoGeneration => Sound(actor[a].current)
    /\ OnlyValidatedDataIsShown

LEMMA SoundInvInit == Init => SoundInv
BY IdleType DEF Init, SoundInv, OnlyValidatedDataIsShown

(* Only its own staging decides about a generation, and approval only adds. *)
LEMMA SoundStays ==
    ASSUME TypeInv, NEW a \in Actor, ActorStep(a), NEW g \in Started, Sound(g)
    PROVE  Sound(g)'
<1> USE DEF Own
<1>t. /\ actor \in [Actor -> LocalState] /\ Memory(a) /\ g \in Generation
      /\ schema \in [Generation -> Schema \cup {NoSchema}]
  BY DEF TypeInv, TypeOK, LocalState, Pc, Started
<1>1. CASE \E s \in Schema : Stage(a, s)
  <2>1. Own(a) # g
    BY <1>1, <1>t DEF Stage, Memory, With, Started
  <2> QED
    BY <1>1, <1>t, <2>1 DEF Stage, Sound
<1>2. CASE StageFails(a)
  BY <1>2 DEF StageFails, Sound
<1>3. CASE ApproveSave(a)
  BY <1>3 DEF ApproveSave, Sound
<1>4. CASE UNCHANGED <<schema, drift, approved>>
  BY <1>4 DEF Sound
<1> QED
  BY <1>1, <1>2, <1>3, <1>4 DEF ActorStep, StageStep, ActivationStep, ManifestStep, CleanupStep,
       Refresh, Create, CreateRefused, Baseline, Publish, Rollback, Verify, LockManifest,
       Activate, ActivateFails, Approve, ApproveFails, Accept, Patch, PatchSave, Retain,
       Collect, Delete, Kill, generations

LEMMA SoundInvActor ==
    ASSUME TypeInv, SoundInv, NEW a \in Actor, ActorStep(a)
    PROVE  SoundInv'
<1> USE DEF Own
<1>t. /\ actor \in [Actor -> LocalState] /\ \A b \in Actor : Memory(b)
      /\ status \in [Generation -> StatusValue]
      /\ schema \in [Generation -> Schema \cup {NoSchema}]
      /\ shown \subseteq Started \cup {Live}
  BY DEF TypeInv, TypeOK, StatusValue, LocalState, Pc
<1>s. \A g \in Started : Sound(g) => Sound(g)'
  BY SoundStays
<1>1. ASSUME NEW g \in Generation, status'[g] \in {"READY", "ACTIVE", "RETIRED"} PROVE Sound(g)'
  <2>1. CASE status'[g] = status[g]
    BY <1>1, <1>s, <2>1 DEF SoundInv, Started
  <2>2. ASSUME NEW s \in Schema, Stage(a, s), status'[g] # status[g] PROVE Sound(g)'
    <3>1. g = Own(a) /\ ~Blocked(a, s)
      BY <1>1, <1>t, <2>2 DEF Stage
    <3> QED
      BY <1>t, <2>2, <3>1, SchemaAssumption DEF Stage, Blocked, Drifts, Sound
  <2>3. CASE ApproveSave(a) /\ status'[g] # status[g]
    <3>1. g = Own(a)
      BY <1>t, <2>3 DEF ApproveSave
    <3> QED
      BY <2>3, <3>1 DEF ApproveSave, Sound
  <2>4. CASE (\E kept \in SUBSET {Live} : Activate(a, kept)) /\ status'[g] # status[g]
    <3>1. g = Own(a) \/ g = actor[a].current
      BY <1>t, <2>4 DEF Activate
    <3>2. g # NoGeneration
      BY DEF Generation, NoGeneration
    <3>3. g \in Started /\ Sound(g)
      BY <1>t, <2>4, <3>1, <3>2 DEF Activate, SoundInv, Memory, Holding
    <3> QED
      BY <1>s, <3>3
  <2>5. CASE StageFails(a) \/ Delete(a) \/ \E h \in Generation : Create(a, h)
    BY <1>1, <1>t, <2>1, <2>5 DEF StageFails, Delete, Create
  <2>6. CASE UNCHANGED status
    BY <2>1, <2>6
  <2> QED
    BY <2>1, <2>2, <2>3, <2>4, <2>5, <2>6
       DEF ActorStep, StageStep, ActivationStep, ManifestStep, CleanupStep,
           Refresh, CreateRefused, Baseline, Publish, Rollback, Verify, LockManifest,
           ActivateFails, Approve, ApproveFails, Accept, Patch, PatchSave, Retain,
           Collect, Kill, generations
<1>2. ASSUME NEW b \in Actor \ {a}
      PROVE  /\ actor'[b].pc \in {"baseline", "verify", "lock", "activate"} => Sound(Own(b))'
             /\ actor'[b].current # NoGeneration => Sound(actor[b].current)'
  <2>1. actor'[b] = actor[b]
    BY TypeActor
  <2> QED
    BY <1>s, <1>t, <2>1 DEF SoundInv, Memory, Holding
<1>3. /\ actor'[a].pc \in {"baseline", "verify", "lock", "activate"} => Sound(Own(a))'
      /\ actor'[a].current # NoGeneration => Sound(actor[a].current)'
  <2> DEFINE Goal == /\ actor'[a].pc \in {"baseline", "verify", "lock", "activate"} => Sound(Own(a))'
                     /\ actor'[a].current # NoGeneration => Sound(actor[a].current)'
  <2>1. ASSUME actor'[a].pc \notin {"baseline", "verify", "lock", "activate"},
               actor'[a].current \in {NoGeneration, actor[a].current}
        PROVE  Goal
    BY <1>s, <1>t, <2>1 DEF SoundInv, Memory
  <2>2. ASSUME NEW g \in Started, Sound(g), actor'[a].generation = g,
               actor'[a].current \in {NoGeneration, actor[a].current}
        PROVE  Goal
    BY <1>s, <1>t, <2>2 DEF SoundInv, Memory
  <2>l. ASSUME Leave(a) PROVE Goal
    BY <1>t, <2>1, <2>l, IdleType DEF Leave
  <2>3. ASSUME NEW s \in Schema, Stage(a, s) PROVE Goal
    <3>1. CASE Blocked(a, s)
      BY <2>3, <2>l, <3>1 DEF Stage
    <3>2. CASE ~Blocked(a, s)
      <4>1. /\ Own(a) \in Generation /\ status'[Own(a)] = "READY"
            /\ actor'[a].generation = Own(a) /\ actor'[a].current = actor[a].current
        BY <1>t, <2>3, <3>2 DEF Stage, Enter, Memory, With, LocalState
      <4> QED
        BY <1>1, <1>s, <1>t, <4>1 DEF SoundInv, Memory
    <3> QED
      BY <3>1, <3>2
  <2>4. CASE Baseline(a) \/ Verify(a)
    <3>1. Own(a) \in Started /\ Sound(Own(a))
      BY <1>t, <2>4 DEF Baseline, Verify, Memory, Holding, SoundInv
    <3>2. CASE Leave(a)
      BY <2>l, <3>2
    <3>3. ASSUME NEW s \in {"verify", "lock"}, Enter(a, s) PROVE Goal
      BY <1>t, <2>2, <3>1, <3>3 DEF Enter, LocalState
    <3> QED
      BY <2>4, <3>2, <3>3 DEF Baseline, Verify
  <2>5. ASSUME NEW g \in Generation, Publish(a, g) \/ Rollback(a, g) PROVE Goal
    <3>1. g \in Started /\ Sound(g)
      BY <2>5 DEF Publish, Rollback, SoundInv, Started
    <3>2. actor' = [actor EXCEPT ![a] = [Idle EXCEPT !.pc = "verify", !.generation = g]]
      BY <2>5 DEF Publish, Rollback
    <3> QED
      BY <1>t, <2>2, <3>1, <3>2, IdleType DEF LocalState
  <2>6. ASSUME NEW c \in Generation \cup {NoGeneration}, LockManifest(a, c) PROVE Goal
    <3>1. /\ actor'[a].generation = Own(a) /\ actor'[a].current = c
          /\ Own(a) \in Started /\ Sound(Own(a))
      BY <1>t, <2>6 DEF LockManifest, Memory, Holding, SoundInv, LocalState
    <3>2. c # NoGeneration => c \in Started /\ Sound(c)
      BY <2>6 DEF LockManifest, Others, With, SoundInv, Started
    <3> QED
      BY <1>s, <3>1, <3>2
  <2>7. CASE (\E g \in Generation : Approve(a, g)) \/ Patch(a)
    <3>1. ASSUME NEW g \in Generation, Approve(a, g)
          PROVE  actor'[a].pc = "approve" /\ actor'[a].current = NoGeneration
      BY <1>t, <3>1, IdleType DEF Approve, LocalState
    <3>2. CASE Patch(a)
      <4>1. actor'[a].pc = "patch" /\ actor'[a].current = NoGeneration
        BY <1>t, <3>2, IdleType DEF Patch, LocalState
      <4> QED
        BY <2>1, <4>1
    <3> QED
      BY <2>1, <2>7, <3>1, <3>2
  <2>8. CASE (\E g \in Generation : Create(a, g)) \/ ApproveSave(a)
    <3>1. actor'[a].pc \in {"stage", "accept"} /\ actor'[a].current = actor[a].current
      BY <1>t, <2>8 DEF Create, ApproveSave, Enter, LocalState
    <3> QED
      BY <2>1, <3>1
  <2>9. CASE (\E n \in 1 .. MaxGenerations + 1 : Refresh(a, n))
    <3>1. actor'[a].pc = "create" /\ actor'[a].current = NoGeneration
      BY <1>t, <2>9, IdleType DEF Refresh, LocalState
    <3> QED
      BY <2>1, <3>1
  <2>10. CASE Retain(a) \/ Collect(a)
    <3>1. PICK S \in SUBSET Generation, s \in {"collect", "delete"} :
            actor' = [actor EXCEPT ![a] = [Idle EXCEPT !.pc = s, !.picked = S]]
      BY <2>10 DEF Retain, Collect, With
    <3>2. actor'[a].pc = s /\ actor'[a].current = NoGeneration
      BY <1>t, <3>1, IdleType DEF LocalState
    <3> QED
      BY <2>1, <3>2
  <2>11. CASE CreateRefused(a) \/ StageFails(a) \/ ActivateFails(a) \/ ApproveFails(a)
              \/ Accept(a) \/ PatchSave(a) \/ Delete(a) \/ Kill(a)
              \/ \E kept \in SUBSET {Live} : Activate(a, kept)
    BY <2>l, <2>11 DEF CreateRefused, StageFails, ActivateFails, ApproveFails, Accept,
                       PatchSave, Delete, Kill, Activate
  <2> QED
    BY <2>3, <2>4, <2>5, <2>6, <2>7, <2>8, <2>9, <2>10, <2>11
       DEF ActorStep, StageStep, ActivationStep, ManifestStep, CleanupStep
<1>4. OnlyValidatedDataIsShown'
  <2>1. ASSUME NEW kept \in SUBSET {Live}, Activate(a, kept) PROVE OnlyValidatedDataIsShown'
    <3>1. shown' \subseteq {Own(a), Live} /\ Own(a) \in Started /\ Sound(Own(a))
      BY <1>t, <2>1 DEF Activate, FeaturesOf, Memory, Holding, SoundInv
    <3> QED
      BY <1>s, <3>1 DEF OnlyValidatedDataIsShown, Sound
  <2>2. CASE UNCHANGED shown
    BY <1>s, <1>t, <2>2 DEF SoundInv, OnlyValidatedDataIsShown, Sound
  <2> QED
    BY <2>1, <2>2 DEF ActorStep, StageStep, ActivationStep, ManifestStep, CleanupStep,
         Refresh, Create, CreateRefused, Stage, Baseline, StageFails, Publish, Rollback, Verify,
         LockManifest, ActivateFails, Approve, ApproveSave, ApproveFails, Accept,
         Patch, PatchSave, Retain, Collect, Delete, Kill
<1> QED
  BY <1>1, <1>2, <1>3, <1>4 DEF SoundInv

LEMMA SoundInvNext == TypeInv /\ SoundInv /\ [Next]_vars => SoundInv'
<1> SUFFICES ASSUME TypeInv, SoundInv, [Next]_vars PROVE SoundInv'
  OBVIOUS
<1>1. ASSUME NEW kept \in SUBSET (Generation \cup {Live}), SyncUpsert(kept) \/ SyncDelete(kept)
      PROVE  SoundInv'
  BY <1>1 DEF SyncUpsert, SyncDelete, generations, SoundInv, Sound, Own, OnlyValidatedDataIsShown
<1>2. CASE UNCHANGED vars
  BY <1>2 DEF vars, SoundInv, Sound, Own, OnlyValidatedDataIsShown
<1> QED
  BY <1>1, <1>2, SoundInvActor DEF Next, ActorStep

(* Data that failed its validation reaches the map only by approval.       *)
THEOREM OnlyValidatedDataIsShownHolds == Spec => []OnlyValidatedDataIsShown
<1>1. SoundInv => OnlyValidatedDataIsShown
  BY DEF SoundInv
<1> QED
  BY <1>1, TypeInvInit, TypeInvNext, SoundInvInit, SoundInvNext, PTL DEF Spec
==============================================================================
