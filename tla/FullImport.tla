----------------------------- MODULE FullImport -----------------------------
(***************************************************************************)
(* The full import of one registry layer by one tenant.  The provider's    *)
(* layer is read page by page; every feature is stored in a transaction of *)
(* its own and a durable checkpoint confirms whole pages.  A Celery task   *)
(* reads a bounded chunk and publishes a continuation of itself under the  *)
(* same audit row; the management command drains the layer in one process  *)
(* and takes no lock.                                                      *)
(*                                                                         *)
(* The layer does not change while it is read: the code pages by           *)
(* startIndex and has no defence against that.                             *)
(***************************************************************************)
EXTENDS SyncRuns

CONSTANTS
    Operator,        \* people who run import_metsaregister_full
    MaxImports,      \* bound: checkpoints that may ever be created
    MaxLayer,        \* bound: features of the provider's layer
    PageSize,        \* FORESTIQ_METSAREGISTER_FULL_PAGE_SIZE
    Budget,          \* FORESTIQ_WFS_MAX_FEATURES, features of one chunk
    MaxImportFaults  \* bound: crashes, errors and duplicate deliveries together

ASSUME ProcessAssumption == Worker \subseteq Token /\ Worker \cap Operator = {}
ASSUME SizeAssumption ==
    /\ MaxImports \in Nat /\ MaxLayer \in Nat /\ MaxImportFaults \in Nat
    /\ PageSize \in Nat \ {0} /\ Budget \in Nat \ {0}

VARIABLES
    layer,            \* number of features of the provider's layer
    importLock,       \* the Redis key; a worker's own name is its token
    importStatus,     \* DataSyncRun.status per row id ("NONE": no such row yet)
    cli,              \* row ids the management command has created
    importHeartbeat,  \* time since heartbeatAt, or since started_at without it
    cursor,           \* ImportCheckpoint.cursor per checkpoint id
    completed,        \* ImportCheckpoint.completed per checkpoint id
    created,          \* the checkpoint ids there are
    older,            \* the checkpoints last saved before each (checkpointed_at)
    stored,           \* history: features stored under each checkpoint
    importQueue,      \* Celery messages: the row id they continue, or NoRun
    process,          \* local state of every worker and operator
    importWatchdog,   \* stale rows reconcile_stale_sync_runs is about to fail
    importFaults      \* faults that have happened

importVars == <<layer, importLock, importStatus, cli, importHeartbeat, cursor, completed,
                created, older, stored, importQueue, process, importWatchdog, importFaults>>
checkpoints == <<cursor, completed, created, older, stored>>
rows        == <<importStatus, cli, importHeartbeat>>

ImportId == 1 .. MaxImports
Process  == Worker \cup Operator

Idle == [pc |-> "idle", message |-> NoRun, run |-> NoRun, import |-> 0, cursor |-> 0,
         page |-> 0, done |-> 0, spent |-> 0, age |-> 0]

ImportTypeOK ==
    /\ layer \in 0 .. MaxLayer
    /\ importLock \in LockState
    /\ importStatus \in [RunId -> {"NONE", "QUEUED", "RUNNING", "SUCCESS", "FAILED"}]
    /\ cli \subseteq RunId
    /\ importHeartbeat \in [RunId -> 0 .. StaleAfter + 1]
    /\ cursor \in [ImportId -> 0 .. MaxLayer]
    /\ completed \in [ImportId -> BOOLEAN]
    /\ created \subseteq ImportId
    /\ older \in [ImportId -> SUBSET ImportId]
    /\ stored \in [ImportId -> SUBSET (1 .. MaxLayer)]
    /\ importQueue \subseteq RunId \cup {NoRun}
    /\ process \in [Process ->
         [pc : {"idle", "scan", "create", "start", "open", "begin", "fetch", "store",
                "complete", "succeed", "report", "publish", "release"},
          message : RunId \cup {NoRun}, run : RunId \cup {NoRun},
          import : ImportId \cup {0}, cursor : 0 .. MaxLayer,
          page : 0 .. MaxLayer, done : 0 .. MaxLayer, spent : 0 .. Budget,
          age : 0 .. TimeLimit]]
    /\ importWatchdog \subseteq RunId
    /\ importFaults \in 0 .. MaxImportFaults

ImportInit ==
    /\ layer \in 0 .. MaxLayer
    /\ importLock = FreeLock
    /\ importStatus = [r \in RunId |-> "NONE"]
    /\ cli = {}
    /\ importHeartbeat = [r \in RunId |-> 0]
    /\ cursor = [c \in ImportId |-> 0]
    /\ completed = [c \in ImportId |-> FALSE]
    /\ created = {}
    /\ older = [c \in ImportId |-> {}]
    /\ stored = [c \in ImportId |-> {}]
    /\ importQueue = {}
    /\ process = [p \in Process |-> Idle]
    /\ importWatchdog = {}
    /\ importFaults = 0

ImportFault == importFaults < MaxImportFaults /\ importFaults' = importFaults + 1

Enter(p, pc) == process' = [process EXCEPT ![p].pc = pc]
Leave(p)     == process' = [process EXCEPT ![p] = Idle]

IsStaleImport(r) == importStatus[r] = "RUNNING" /\ importHeartbeat[r] > StaleAfter

(* The queued and running rows of the task's own source.                   *)
Active == {r \in RunId \ cli : importStatus[r] \in {"QUEUED", "RUNNING"}}
Newest(r) == r \in Active /\ \A s \in Active : s <= r

IsNextRow(r) == \A s \in RunId : importStatus[s] = "NONE" <=> s >= r

-----------------------------------------------------------------------------
(* run_metsaregister_full_import up to its chunk.                          *)

(* An operator publishes the task; nothing in the repository does.         *)
Request ==
    /\ importQueue' = importQueue \cup {NoRun}
    /\ UNCHANGED <<layer, importLock, rows, checkpoints, process, importWatchdog,
                   importFaults>>

ReceiveRefused(w, m) ==
    /\ process[w].pc = "idle"
    /\ m \in importQueue
    /\ ~CanAcquire(importLock)
    /\ importQueue' = importQueue \ {m}
    /\ UNCHANGED <<layer, importLock, rows, checkpoints, process, importWatchdog,
                   importFaults>>

(* Redis is down and the task is out of retries; a retry is the message    *)
(* that stays in the queue.                                                *)
ReceiveUnavailable(w, m) ==
    /\ process[w].pc = "idle"
    /\ m \in importQueue
    /\ ImportFault
    /\ importQueue' = importQueue \ {m}
    /\ UNCHANGED <<layer, importLock, rows, checkpoints, process, importWatchdog>>

ReceiveImport(w, m) ==
    /\ process[w].pc = "idle"
    /\ m \in importQueue
    /\ CanAcquire(importLock)
    /\ importLock' = AfterAcquire(importLock, w)
    /\ importQueue' = importQueue \ {m}
    /\ process' = [process EXCEPT ![w] = [Idle EXCEPT !.pc = "scan", !.message = m, !.run = m]]
    /\ UNCHANGED <<layer, rows, checkpoints, importWatchdog, importFaults>>

(* A first task finds the newest active row alive, a continuation finds    *)
(* that its row has ended.                                                 *)
ScanStops(w) ==
    /\ process[w].pc = "scan"
    /\ IF process[w].run = NoRun
         THEN \E r \in RunId : Newest(r) /\ ~IsStaleImport(r)
         ELSE importStatus[process[w].run] \in {"SUCCESS", "FAILED"}
    /\ Enter(w, "release")
    /\ UNCHANGED <<layer, importLock, rows, checkpoints, importQueue,
                   importWatchdog, importFaults>>

(* A first task fails the newest active row when it is stale.              *)
ScanPasses(w) ==
    /\ process[w].pc = "scan"
    /\ process[w].run = NoRun
    /\ \A r \in RunId : Newest(r) => IsStaleImport(r)
    /\ importStatus' = [r \in RunId |-> IF Newest(r) THEN "FAILED" ELSE importStatus[r]]
    /\ Enter(w, "create")
    /\ UNCHANGED <<layer, importLock, cli, importHeartbeat, checkpoints,
                   importQueue, importWatchdog, importFaults>>

ScanContinues(w) ==
    /\ process[w].pc = "scan"
    /\ process[w].run # NoRun
    /\ importStatus[process[w].run] \notin {"SUCCESS", "FAILED"}
    /\ Enter(w, "start")
    /\ UNCHANGED <<layer, importLock, rows, checkpoints, importQueue,
                   importWatchdog, importFaults>>

CreateRow(w, r) ==
    /\ process[w].pc = "create"
    /\ IsNextRow(r)
    /\ importStatus' = [importStatus EXCEPT ![r] = "QUEUED"]
    /\ process' = [process EXCEPT ![w].pc = "start", ![w].run = r]
    /\ UNCHANGED <<layer, importLock, cli, importHeartbeat, checkpoints,
                   importQueue, importWatchdog, importFaults>>

(* _start of a new row, _heartbeat of a continued one.                     *)
StartImport(w) ==
    /\ process[w].pc = "start"
    /\ importStatus' = [importStatus EXCEPT ![process[w].run] = IF @ = "QUEUED" THEN "RUNNING" ELSE @]
    /\ importHeartbeat' = [importHeartbeat EXCEPT ![process[w].run] = 0]
    /\ Enter(w, "open")
    /\ UNCHANGED <<layer, importLock, cli, checkpoints, importQueue,
                   importWatchdog, importFaults>>

(* The management command creates its row RUNNING and renews no heartbeat. *)
Command(o, r) ==
    /\ process[o].pc = "idle"
    /\ IsNextRow(r)
    /\ importStatus' = [importStatus EXCEPT ![r] = "RUNNING"]
    /\ cli' = cli \cup {r}
    /\ process' = [process EXCEPT ![o] = [Idle EXCEPT !.pc = "open", !.run = r]]
    /\ UNCHANGED <<layer, importLock, importHeartbeat, checkpoints, importQueue,
                   importWatchdog, importFaults>>

-----------------------------------------------------------------------------
(* import_metsaregister_chunk.                                             *)

(* Every save of a checkpoint makes it the one saved last.                 *)
Touch(c) ==
    /\ created' = created \cup {c}
    /\ older' = [d \in ImportId |-> IF d = c THEN created \ {c} ELSE older[d] \ {c}]

Incomplete == {c \in created : ~completed[c]}

Open(p, c) ==
    /\ Touch(c)
    /\ process' = [process EXCEPT ![p] = [@ EXCEPT !.pc = "fetch", !.import = c,
                                                   !.cursor = cursor[c], !.page = 0,
                                                   !.done = 0, !.spent = 0]]
    /\ UNCHANGED <<layer, importLock, rows, cursor, completed, stored, importQueue,
                   importWatchdog, importFaults>>

(* The incomplete checkpoint saved last; its row lock ends with the save.  *)
Resume(p, c) ==
    /\ process[p].pc = "open"
    /\ c \in Incomplete
    /\ \A d \in Incomplete : c \notin older[d]
    /\ Open(p, c)

(* Where there is none, nothing is locked: by the time the new one is      *)
(* created, another process may have created one as well.                  *)
FindNone(p) ==
    /\ process[p].pc = "open"
    /\ Incomplete = {}
    /\ Enter(p, "begin")
    /\ UNCHANGED <<layer, importLock, rows, checkpoints, importQueue,
                   importWatchdog, importFaults>>

Begin(p, c) ==
    /\ process[p].pc = "begin"
    /\ \A d \in ImportId : d \in created <=> d < c
    /\ Open(p, c)

Lesser(a, b) == IF a <= b THEN a ELSE b
Requested(p) == Lesser(PageSize, Budget - process[p].spent)
Remaining(p) == layer - process[p].cursor

FetchEmpty(p) ==
    /\ process[p].pc = "fetch"
    /\ Remaining(p) = 0
    /\ Enter(p, "complete")
    /\ UNCHANGED <<layer, importLock, rows, checkpoints, importQueue,
                   importWatchdog, importFaults>>

FetchPage(p) ==
    /\ process[p].pc = "fetch"
    /\ Remaining(p) > 0
    /\ process' = [process EXCEPT ![p] =
                     [@ EXCEPT !.pc = "store", !.done = 0,
                               !.page = Lesser(Requested(p), Remaining(p))]]
    /\ UNCHANGED <<layer, importLock, rows, checkpoints, importQueue,
                   importWatchdog, importFaults>>

Store(p) ==
    /\ process[p].pc = "store"
    /\ process[p].done < process[p].page
    /\ stored' = [stored EXCEPT ![process[p].import] =
                    @ \cup {process[p].cursor + process[p].done + 1}]
    /\ process' = [process EXCEPT ![p].done = @ + 1]
    /\ UNCHANGED <<layer, importLock, rows, cursor, completed, created, older,
                   importQueue, importWatchdog, importFaults>>

AfterPage(p) ==
    IF process[p].page < Requested(p) THEN "complete"
    ELSE IF process[p].spent + process[p].page < Budget THEN "fetch"
    ELSE IF p \in Worker THEN "report" ELSE "open"

ConfirmEarly(p) ==   \* mutant: the page is confirmed before it is stored
    /\ process[p].pc = "store"
    /\ cursor' = [cursor EXCEPT ![process[p].import] = process[p].cursor + process[p].page]
    /\ Touch(process[p].import)
    /\ process' = [process EXCEPT ![p] =
                     [@ EXCEPT !.pc = AfterPage(p), !.done = 0,
                               !.cursor = process[p].cursor + process[p].page,
                               !.spent = process[p].spent + process[p].page]]
    /\ UNCHANGED <<layer, importLock, rows, completed, stored, importQueue,
                   importWatchdog, importFaults>>

(* The confirmed cursor is written from the process's own copy.            *)
Confirm(p) ==
    /\ process[p].pc = "store"
    /\ process[p].done = process[p].page
    /\ cursor' = [cursor EXCEPT ![process[p].import] = process[p].cursor + process[p].page]
    /\ Touch(process[p].import)
    /\ process' = [process EXCEPT ![p] =
                     [@ EXCEPT !.pc = AfterPage(p), !.done = 0,
                               !.cursor = process[p].cursor + process[p].page,
                               !.spent = process[p].spent + process[p].page]]
    /\ UNCHANGED <<layer, importLock, rows, completed, stored, importQueue,
                   importWatchdog, importFaults>>

CompleteUnsaved(p) ==   \* mutant: completed is not among update_fields
    /\ process[p].pc = "complete"
    /\ Touch(process[p].import)
    /\ Enter(p, "succeed")
    /\ UNCHANGED <<layer, importLock, rows, cursor, completed, stored, importQueue,
                   importWatchdog, importFaults>>

Complete(p) ==
    /\ process[p].pc = "complete"
    /\ completed' = [completed EXCEPT ![process[p].import] = TRUE]
    /\ Touch(process[p].import)
    /\ Enter(p, "succeed")
    /\ UNCHANGED <<layer, importLock, rows, cursor, stored, importQueue,
                   importWatchdog, importFaults>>

(* An exception in the chunk marks the checkpoint incomplete, once it is   *)
(* open, and fails the row.  Having no checkpoint id left is the model's   *)
(* bound and no fault.                                                     *)
ImportFails(p) ==
    /\ process[p].pc \in {"open", "begin", "fetch", "store", "complete"}
    /\ IF process[p].pc = "begin" /\ created = ImportId THEN UNCHANGED importFaults ELSE ImportFault
    /\ IF process[p].pc \in {"open", "begin"}
         THEN UNCHANGED <<completed, created, older>>
         ELSE /\ completed' = [completed EXCEPT ![process[p].import] = FALSE]
              /\ Touch(process[p].import)
    /\ importStatus' = [importStatus EXCEPT ![process[p].run] = "FAILED"]
    /\ IF p \in Worker THEN Enter(p, "release") ELSE Leave(p)
    /\ UNCHANGED <<layer, importLock, cli, importHeartbeat, cursor, stored,
                   importQueue, importWatchdog>>

-----------------------------------------------------------------------------
(* The end of a chunk.                                                     *)

Succeed(p) ==
    /\ process[p].pc = "succeed"
    /\ importStatus' = [importStatus EXCEPT ![process[p].run] = "SUCCESS"]
    /\ IF p \in Worker THEN Enter(p, "release") ELSE Leave(p)
    /\ UNCHANGED <<layer, importLock, cli, importHeartbeat, checkpoints,
                   importQueue, importWatchdog, importFaults>>

Report(w) ==
    /\ process[w].pc = "report"
    /\ importHeartbeat' = [importHeartbeat EXCEPT ![process[w].run] = 0]
    /\ Enter(w, "publish")
    /\ UNCHANGED <<layer, importLock, importStatus, cli, checkpoints, importQueue,
                   importWatchdog, importFaults>>

(* The continuation is published while this task still holds the lock.     *)
Publish(w) ==
    /\ process[w].pc = "publish"
    /\ importQueue' = importQueue \cup {process[w].run}
    /\ Enter(w, "release")
    /\ UNCHANGED <<layer, importLock, rows, checkpoints, importWatchdog, importFaults>>

ReleaseImport(w) ==
    /\ process[w].pc = "release"
    /\ importLock' = AfterRelease(importLock, Queued(w))
    /\ Leave(w)
    /\ UNCHANGED <<layer, rows, checkpoints, importQueue, importWatchdog, importFaults>>

ReleaseImportUnavailable(w) ==
    /\ process[w].pc = "release"
    /\ ImportFault
    /\ Leave(w)
    /\ UNCHANGED <<layer, importLock, rows, checkpoints, importQueue, importWatchdog>>

(* An exception outside the chunk releases the lock and leaves the row as  *)
(* it is.  Having no row id left is the model's bound and no fault.        *)
AbortImport(w) ==
    /\ process[w].pc \in {"scan", "create", "start", "succeed", "report", "publish"}
    /\ IF process[w].pc = "create" /\ \A r \in RunId : importStatus[r] # "NONE"
         THEN UNCHANGED importFaults
         ELSE ImportFault
    /\ Enter(w, "release")
    /\ UNCHANGED <<layer, importLock, rows, checkpoints, importQueue, importWatchdog>>

(* A process is killed; a lost worker's message may be delivered again.    *)
KillImport(p) ==
    /\ process[p].pc # "idle"
    /\ ImportFault
    /\ \/ p \in Worker /\ importQueue' = importQueue \cup {process[p].message}
       \/ UNCHANGED importQueue
    /\ Leave(p)
    /\ UNCHANGED <<layer, importLock, rows, checkpoints, importWatchdog>>

RedeliverImport(w) ==
    /\ process[w].pc # "idle"
    /\ ImportFault
    /\ importQueue' = importQueue \cup {process[w].message}
    /\ UNCHANGED <<layer, importLock, rows, checkpoints, process, importWatchdog>>

-----------------------------------------------------------------------------
(* reconcile_stale_sync_runs.                                              *)

ReadStaleImports ==
    /\ importWatchdog = {}
    /\ \E r \in RunId : IsStaleImport(r)
    /\ importWatchdog' = {r \in RunId : IsStaleImport(r)}
    /\ UNCHANGED <<layer, importLock, rows, checkpoints, importQueue, process,
                   importFaults>>

FailStaleImportUnsaved(r) ==   \* mutant: status is not among update_fields
    /\ r \in importWatchdog
    /\ importWatchdog' = importWatchdog \ {r}
    /\ UNCHANGED <<layer, importLock, rows, checkpoints, importQueue, process,
                   importFaults>>

FailStaleImport(r) ==
    /\ r \in importWatchdog
    /\ importStatus' = [importStatus EXCEPT ![r] = "FAILED"]
    /\ importWatchdog' = importWatchdog \ {r}
    /\ UNCHANGED <<layer, importLock, cli, importHeartbeat, checkpoints,
                   importQueue, process, importFaults>>

(* No task lives longer than TimeLimit and a reconciliation ends within    *)
(* the unit it began in.  The management command has no limit.             *)
ImportTick ==
    /\ \A w \in Worker : process[w].age < TimeLimit \/ process[w].pc = "idle"
    /\ importWatchdog = {}
    /\ importLock' = AfterTick(importLock)
    /\ importHeartbeat' = [r \in RunId |->
         IF importStatus[r] = "RUNNING" /\ importHeartbeat[r] <= StaleAfter
           THEN importHeartbeat[r] + 1 ELSE importHeartbeat[r]]
    /\ process' = [p \in Process |->
                     IF p \in Worker /\ process[p].pc # "idle"
                       THEN [process[p] EXCEPT !.age = @ + 1] ELSE process[p]]
    /\ UNCHANGED <<layer, importStatus, cli, checkpoints, importQueue,
                   importWatchdog, importFaults>>

-----------------------------------------------------------------------------
ChunkStep(p) ==
    \/ \E c \in ImportId : Resume(p, c) \/ Begin(p, c)
    \/ FindNone(p)
    \/ FetchEmpty(p)
    \/ FetchPage(p)
    \/ Store(p)
    \/ Confirm(p)
    \/ Complete(p)
    \/ Succeed(p)
    \/ ImportFails(p)

TaskStep(w) ==
    \/ \E m \in importQueue : ReceiveRefused(w, m) \/ ReceiveImport(w, m)
    \/ ScanStops(w)
    \/ ScanPasses(w)
    \/ ScanContinues(w)
    \/ \E r \in RunId : CreateRow(w, r)
    \/ StartImport(w)
    \/ Report(w)
    \/ Publish(w)
    \/ ReleaseImport(w)
    \/ AbortImport(w)

ImportWatchdogStep ==
    \/ ReadStaleImports
    \/ \E r \in RunId : FailStaleImport(r)

ImportFaultStep ==
    \/ \E w \in Worker :
         \/ \E m \in importQueue : ReceiveUnavailable(w, m)
         \/ ReleaseImportUnavailable(w)
         \/ RedeliverImport(w)
    \/ \E p \in Process : KillImport(p)

ImportNext ==
    \/ Request
    \/ \E o \in Operator, r \in RunId : Command(o, r)
    \/ \E p \in Process : ChunkStep(p)
    \/ \E w \in Worker : TaskStep(w)
    \/ ImportWatchdogStep
    \/ ImportFaultStep
    \/ ImportTick

ImportSpec == ImportInit /\ [][ImportNext]_importVars

(* Workers, the command, the watchdog and the clock keep going; requests   *)
(* and faults are never forced.                                            *)
FairImportSpec ==
    /\ ImportSpec
    /\ WF_importVars(ImportTick)
    /\ \A p \in Process : WF_importVars(ChunkStep(p))
    /\ \A w \in Worker : WF_importVars(TaskStep(w))
    /\ WF_importVars(ImportWatchdogStep)

-----------------------------------------------------------------------------
Feature == 1 .. layer

(* A confirmed cursor never skips a feature and a completed checkpoint has  *)
(* read the whole layer, whatever died between the storing of features and *)
(* the confirmation of their page, and also when the management command    *)
(* and a worker share the checkpoint (_confirm_checkpoint_page: "only a    *)
(* completely stored page" is the next restart cursor).                    *)
CheckpointIsSound ==
    \A c \in ImportId :
        /\ 1 .. cursor[c] \subseteq stored[c]
        /\ completed[c] => Feature \subseteq stored[c]

(* The lock lets one worker at a time into the task, although tasks are    *)
(* killed, their messages delivered again and the key may expire.          *)
OneImporter ==
    \A v, w \in Worker : process[v].pc # "idle" /\ process[w].pc # "idle" => v = w

(* As long as nobody runs the command, no confirmed page is ever read      *)
(* again: the cursor of a checkpoint only grows, although each task writes *)
(* it from its own copy (import_metsaregister_chunk,                       *)
(* _confirm_checkpoint_page).                                              *)
CursorNeverMovesBack ==
    [][cli = {} => \A c \in ImportId : cursor'[c] >= cursor[c]]_importVars

(* As long as nobody runs the command, every successful run has completed  *)
(* a checkpoint that no other run had completed: no run reports success    *)
(* without having driven an import of its own to the end of the layer.     *)
EverySuccessHasItsImport ==
    cli = {} => Cardinality({r \in RunId : importStatus[r] = "SUCCESS"})
                  <= Cardinality({c \in ImportId : completed[c]})

(* A running row is eventually ended: by its chain, or by the watchdog or  *)
(* the next request when the chain broke.                                  *)
RunningImportIsRetired ==
    \A r \in RunId : importStatus[r] = "RUNNING" ~> importStatus[r] # "RUNNING"

(* "Drain one bounded full-import chunk and chain another task until WFS   *)
(* EOF": without faults, every run that was started succeeds.              *)
ChainReachesEof ==
    \A r \in RunId : importStatus[r] = "RUNNING" ~> importStatus[r] = "SUCCESS"

(* "Expired Redis locks cannot block dispatch forever": a row that makes   *)
(* every later request answer already_running is eventually ended.         *)
ActiveRunNeverBlocksForever ==
    \A r \in RunId : importStatus[r] = "QUEUED" ~> importStatus[r] # "QUEUED"
=============================================================================
