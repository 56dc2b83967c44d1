# A verification project for ForestIQ

TLA+ models of the ForestIQ backend (`src/django_backend`), the TLC runs that
check them on small instances, and theorems about them that TLAPS proves for
every value of the constants. ForestIQ is a workbench for forest buyers: a
Django API and PostGIS database with a React client, and Celery workers that
keep cadastres, forest-registry data and ownership up to date from external
services. The models cover the parts in which several processes, a message
broker with at-least-once delivery, an expiring lock, caches, object storage,
Keycloak and a database without enclosing transactions meet: the imports and
their locks, and the records that office workers change at the same time.

Contents: [inventory](#inventory), [modules](#modules),
[runs](#runs-and-bounds), [fairness](#fairness), [proofs](#proofs),
[findings](#findings), [what is abstracted](#abstractions-and-limits),
[what is not modelled](#not-modelled), [what is left](#what-is-left).

## Inventory

There is no `ATOMIC_REQUESTS`: every statement of a handler or a task commits
on its own unless it is inside `transaction.atomic()`. Processes share the
PostgreSQL rows, the Redis keys and the Celery queue, and nothing else.

| Component | State it keeps | Operations | Interaction | Correct when |
|---|---|---|---|---|
| Single-flight lock (`forestry/services/single_flight.py`) | one Redis key per activity, tenant and scope: nothing, a dispatcher's token or `running:` and the token; a time to live | `acquire`, `claim_queued_or_recover`, `release`, expiry | called by every synchronization task | one owner at a time; never stuck; a late release spares a newer owner |
| Cadastre synchronization (`forestry/tasks.py`) | `DataSyncRun` rows (status, heartbeat), messages | `enqueue_cadastre_sync`, `run_cadastre_sync`, `_active_cadastre_run`, `reconcile_stale_sync_runs` | API handlers and the daily task dispatch, workers execute, Beat starts the watchdog | one writer per cadastre; a row is created only when none is live; every row ends |
| Full registry import (`metsaregister_full_import.py`, the task and the command) | `ImportCheckpoint` rows, `DataSyncRun` rows, lock | open, fetch, store, confirm, complete, fail; chain a continuation | a task continues itself by messages; the management command shares its checkpoints | a cursor never skips a feature; success means a whole import; the chain reaches the end |
| WFS generations (`wfs_generations.py`, `api/p3.py`) | `WfsLayerManifest`, `WfsGeneration`, the rows the map shows | stage, validate, activate, roll back, approve, edit, clean up | Celery refreshes and administrators' requests; single cadastres' synchronization writes the same rows | one active generation, its rows shown, only validated or approved data |
| External importers (`external_sync.py`) and WFS client (`wfs_client.py`) | feature rows | fetch pages up to a budget, upsert, guard, delete what was not read | called by the synchronization of a cadastre; imports of different cadastres overlap | a success leaves the cadastre as the provider has it; a broken answer deletes nothing |
| Registry delta check (`tasks.py`) | `DataSyncRun` rows | window, import | hourly task | no registration falls between two windows |
| Weasel ownership import (`weasel_ownership_sync.py`) | `DataSyncRun.cursor`, events | pages, `get_or_create` | hourly task | the confirmed cursor never runs ahead of what is stored; every event is read |
| Deals and offers (`api/parity.py`, `api/concurrency.py`) | `Deal` with version, `DealOffer` | claim, assign, submit, offer, send, counter, win, lose, cancel | concurrent requests, compare-and-swap on the version | a won deal has an accepted offer and its outcome; no update on a version that is gone |
| Contracts, signing, versions (`api/p1.py`) | `Contract`, `ContractSigning`, `ContractVersion` | generate, transition, upload, verify, replace | requests | a signed contract carries an attested document; a contract rests on an accepted offer; a contract in the table has its history |
| Contract storage (`contract_storage.py`, `api/views.py`) | objects in a store, `Contract.document_file` | upload, delete, reconcile | requests, an operator's command | no referenced object is deleted; a repair leaves what is referenced |
| Ownership relations (`api/p1.py`, `p1_signals.py`) | `OwnershipRelation`, `OwnerCadastre` | create, end, reactivate, resolve, project legacy rows | requests, signals, imports | one active relation of a pair; a protected end is not undone |
| Data quality (`data_quality.py`) | `DataQualityIssue` | scan, auto-resolve, assign, resolve | Beat, requests | a scan reopens nothing; what is gone leaves the queue |
| Reminders (`notifications.py`) | deliveries, messages | deliver due reminders | overlapping sweeps of Beat, requests | at most one message per person |
| Inheritance cases (`api/parity.py`) | `InheritanceCase` with version, `Heir` | open from a notice, assign, change, heirs | concurrent requests | optimistic locking; one case per notice |
| Map tiles (`tile_cache.py`, `forestry/signals.py`) | tiles and a version in each process | answer, store, invalidate | every process that writes the layer | a server that has invalidated the layer answers with no older tile |
| Identity (`user_lifecycle.py`, `oidc.py`, `accounts/authorization.py`) | Keycloak accounts and roles, `User`, its membership, local privileges | create, change roles or privileges, delete, log in | requests that call Keycloak and then save; older endpoints that only save | a membership that Keycloak manages has no role that Keycloak has not given |
| Workbaskets, segments, owner register, worklists, notices, read-only API, user interface, deployment | rows saved as a whole, or none | requests | requests | see [not modelled](#not-modelled) |

The hard behaviours: messages delivered twice or late; a lock, a reservation
and a message that outlive one another; workers killed by the hard time limit
between any two statements; a watchdog that decides on what it read before; a
row that is read, judged and written back later without a second look;
transactions that cover less than the handler; two systems that no transaction
spans (database and object storage, database and Keycloak, database and the
memory of each process). `PROJECT.json` lists each of
them under `hazards` with its line and with the property that covers it or the
reason why none does.

## Modules

| Module | Models | |
|---|---|---|
| `SingleFlight` | the Redis key | pure operators on a lock value and its time to live: one operator per command or script, because each is atomic in Redis |
| `SyncRuns` | the workers, the rows and the time limits that all synchronizations have | extends `SingleFlight` |
| `CadastreSync` | `enqueue_cadastre_sync`, `run_cadastre_sync`, the watchdog, Celery, time | extends `SyncRuns` |
| `SingleWriter` | nothing in the code: the abstract promise | at most one job writes; a run is requested only when none is live; a run may be presumed lost |
| `FullImport` | the chunked task, its continuation, checkpoints, the management command | extends `SyncRuns` |
| `WfsGenerations` | the life of the generations of one layer | stands alone |
| `VersionedRecord` | nothing in the code: the promise of `api/concurrency.py` | a request overwrites a record only while it is what the request decided on |
| `Deals` | the deal, its offers and its structured loss | implements `VersionedRecord` |
| `Contracts` | generation, manual entry, replacement, archiving, deletion with the history | extends `Deals`: a contract is generated from a won deal |
| `ContractDocuments` | the stored document: upload, deletion, the repair command | stands alone |
| `Signing` | the signing workflow of a contract | stands alone |
| `Ownership` | the relations of one owner and one cadastre, the legacy link, the signal, the projection | stands alone |
| `WeaselFeed`, `DeltaCheck` | two ways to poll a provider: by cursor and by time window | under the lock of `SingleFlight` |
| `LayerSync` | the replacement of a cadastre's registry features by the pages of the WFS client | one lock per cadastre, many cadastres |
| `Reminders` | the notices of one reminder | stands alone |
| `Inheritance` | one inheritance case and its heirs | implements `VersionedRecord` |
| `DataQuality` | one data-quality issue | stands alone |
| `Tiles` | one map tile and its version in the memory of servers and workers | stands alone |
| `Staff` | the accounts, local users and privileges of one person | stands alone |
| `MCSync` | composes `CadastreSync` and `FullImport` for TLC (liveness) | |
| `MCDesk` | composes `Contracts`, `ContractDocuments`, `Signing` for TLC | |
| `MCRecords` | composes `Ownership` to `Staff` for TLC | |
| other `MC...` | symmetry sets for TLC | |
| `..._proofs` | theorems and their proofs | extend the components and `TLAPS` |

**CadastreSync.** One cadastre of one tenant is the whole system, since other
cadastres use other keys and rows. A dispatcher walks through `scan`,
`create`, `publish` and `record`; these are the points between the statements
of `enqueue_cadastre_sync` where another process can act. A worker walks
through `claim`, `start`, `import` and `release`. `Receive` reads the status of
the row once and before the lock, as lines 213-219 of `tasks.py` do. A message
is a token and a row. `Redeliver`, `Kill` and `ClaimUnavailable` put a message
back; `DispatchFails` is the `except` clause, which releases the reservation
even when the message is already with the broker. `WatchdogRead` and
`WatchdogFail` are separate because the reconciliation writes without looking
again.

**FullImport.** A worker receives a message (the row to continue, or none for
a first task), acquires the lock, looks for a live row, opens a checkpoint,
fetches and stores a page feature by feature, confirms it, and at the end of
its budget publishes the continuation before it releases the lock. The
management command is a process of kind `Operator` that uses the same
checkpoint actions without lock and heartbeat. Opening a checkpoint is `Resume`,
which holds the row lock of the newest incomplete one, or `FindNone` and later
`Begin`: where no row exists nothing is locked and no key is unique, so a worker
and a command can both create one. `stored` is a history variable:
the features written under each checkpoint. `older` is the order of
`checkpointed_at`.

**WfsGenerations.** Every actor (worker or request) carries the copy it
loaded: the baseline at the start of a refresh, the sequence, the generation it
is about to approve or activate. `LockManifest` to `Activate` is the only
transaction; `Activate` is its commit. A row of the map is known by its origin:
a generation, or `Live` for rows written by the synchronization of a cadastre.

**Deals and Contracts.** A request is two steps. `DealReceive` and the
`...Receive` actions of `Contracts` are the part of a handler before its
transaction: it loads the rows and makes its checks on the copies. A commit
action is the transaction that begins with the compare-and-swap of
`api/concurrency.py`; `DealConflict` and `ContractRequestEnds` are the 409 and
the other ways out. Between the two any other request may run. Replacements
compute the number of the next version before they lock the row; the deletion of
a contract is a step for the row and one for the history (`views.py:1241`),
because no transaction holds them together.

**ContractDocuments.** Storage and database change one after the other, so an
upload is the save of its object, the compare-and-swap of the row and, when it
loses, the removal of the object; a deletion is the row and then the object. The
repair takes a snapshot, restores what is missing from the PDF that the row
holds, which is the save of an object and then of its name in the row
(`RepairName`), and deletes what the snapshot does not name object by object
(`RepairClean`). `calm` and `repair.alone` are history variables: no repair or
loss so far, and nothing beside this repair.

**Signing.** Each handler loads the row, changes the copy and saves the whole
row (`Save`), which may overwrite what others saved in between; only a failed
verification saves its own fields.

**Ownership.** Users' requests, imports (`owner_cadastre` inserted by a job,
with the signal that runs inside its transaction) and readers (the projection of
legacy links while a page is read) work on the same pair. The partial unique key
of the database is `Unique`, and a statement that breaks it fails.

**WeaselFeed, DeltaCheck, LayerSync.** A run walks through `fetch` and `store`
and confirms at its end; publishing, registering and moving features at the
provider happen at any time. An event of an owner who is not known is `ignored`,
as the code counts it. In `LayerSync` a feature has one row whatever cadastre
it lies in, so an import can take rows that another one believes to be its own;
the model keeps the guard against a poor answer (`MinPercent`) and the budget of
the client. One importer counts the cadastre's rows before it fetches and one
after the answer; `Counted` allows both.

**Reminders, DataQuality, Inheritance.** The reads of sweeps, scans and requests
are steps before their writes. A delivery and its message are one transaction; the
unique key of the delivery keeps the second sweep out.

**Tiles.** `settings.py` names no cache backend, so Django keeps the cache in
the memory of each process: a write bumps the version in its own process,
`Process` being servers and Celery workers, and no others. A request reads the
version once and uses it for the lookup and for the tile that it stores later.
A write inside a transaction bumps before it commits (`WriteEnds`), so a tile may
be read between the two; `BumpMissed` is the `set` that follows an increment that
found no version, with whatever another thread did in between. `covers` is a
history variable: how far the layer was when a process last invalidated it.
`back` names the processes whose version went back, because a full cache dropped
it or because the `set` of one thread followed the increment of another.

**Staff.** Each call to Keycloak is a step that may fail, take effect without an
answer (`Answered`) or be the last step of its process (`AdminDies`). User `n` is
the one that a login of account `n` makes when no user has its subject. The older
endpoints (`admin_users`, `admin_user_detail`) know nothing of Keycloak: a
request may bring privileges, and `sync_user_groups` (`Synced`) writes the roles
that they stand for into a membership that Keycloak does not manage. A change of
privileges deletes rows one by one, with the signal that brings the roles up to
date, and inserts the new ones with `bulk_create`, which sends none
(`ClearPrivileges`, `AddPrivileges`). The roles of a membership become managed by
a creation or a change of roles through Keycloak, and by a login.

The parts of `MCDesk`, those of `MCRecords` and those of `MCSync` share no
variables, as rows of these kinds never meet in the code. A behaviour therefore
follows one part, chosen by `focus`, and the run explores the sum of the parts
instead of their product; nothing is lost by this, since no property relates two
parts. Where parts do interact, they are one module (`Contracts` with `Deals`,
the documents with their repair, the relations with the links).

Mutants (operators whose comment says so) stand next to the definitions they
replace; each shows that a property fails when the code is wrong in a plausible
way.

## Runs and bounds

Time is counted in units of the Celery hard limit of 300 s: `TimeLimit = 1`,
`LockTtl = 3` (900 s) and `StaleAfter = 4` (1200 s), the defaults of
`config/settings.py`.

| Run | Instance | Shows |
|---|---|---|
| `sync_safety` | 2 dispatchers, 2 workers, 2 tokens, 2 rows, 3 faults, messages may wait | `TypeOK`, `MutualExclusion`, `LiveImportNeverLooksStale`, `CreatedOnlyWhenIdle`, `ImplementsSingleWriter` |
| `sync_liveness` | 1 dispatcher, 2 workers, 2 rows, 2 faults, messages do not wait for an idle worker; and 2 workers with a full import of 0 to 3 features, 2 checkpoints, 1 fault | `QueuedRunIsServed`, `RunningRunIsRetired`, `LockIsRecovered`; `RunningImportIsRetired`, `CursorNeverMovesBack` |
| `sync_rerun` | as `sync_safety` with 1 fault | violation of `FinishedRunStaysFinished` |
| `full_import` | 2 workers, 1 operator, layers of 0 to 3 features, pages and chunks of 2, 2 rows, 2 checkpoints, 1 fault | `ImportTypeOK`, `CheckpointIsSound`, `OneImporter`, `EverySuccessHasItsImport` (the last until the command is first run) |
| `full_import_chain` | 2 workers, no fault | violation of `ChainReachesEof` |
| `full_import_orphan` | 1 worker, 1 fault | violation of `ActiveRunNeverBlocksForever` |
| `wfs_safety` | 2 actors, 3 generations, 2 schemas and the empty one, retention of 1 | `TypeOK`, `AtMostOneActive`, `ActiveGenerationIsShown`, `OnlyValidatedDataIsShown` |
| `wfs_approval` | 2 actors, 2 generations | violation of `OnlyBlockedIsApproved` |
| `desk` | 2 requests in flight on one deal and its contract (4 deal versions, 2 offers, 2 contract versions); 2 server processes, a repair and 3 files for its document; 2 signers and 2 documents | `DeskTypeOK`, `WonDealIsSettled`, `ContractRestsOnAcceptedOffer`, `ContractHasHistory`, `CaseTakenOnlyByAdmin`, `DealIsVersionedRecord`, `RepairLeavesNamedObjects`, `NamedObjectExists`, `SignedDocumentIsAttested`, `FinalStateIsUndoneOnlyUnseen` |
| `records` | see below | `RecordsTypeOK` and, by part: `OneActiveRelation`; `ConfirmedIsStored`, `EventsAreTaken`; `NoRegistrationIsMissed`; `SuccessMirrorsLayer`; `EveryoneIsToldOnce`; `CaseIsVersionedRecord`; `ScanReopensNothing`, `GoneProblemLeavesQueue`; `ServerForgetsOldTiles`; `RolesWereGranted` |
| `tiles_invalidation` | 2 servers, 1 worker, 1 browser, 1 writer, 1 write | violation of `OldTilesAreUnreachable` |
| `ownership_revival` | 2 processes, 2 relations | violation of `ProtectedEndingIsNotRevived` |

Why the bounds are enough to be interesting. Two dispatchers and two workers
give every pair of racing roles; two rows give a live row next to an old one;
three faults allow a crash, a duplicate delivery and an outage in one behaviour.
Pages of 2 and up to 3 features give an empty layer, a page cut by the end of
the layer, a full page, an empty last page and a second chunk; a chunk of 3
(`sync_liveness`, `full_import_chain`) adds a page cut by the budget. Two
checkpoints are what a worker and a command create at once. Three generations
give an active, a retired and a staged one. Two requests, sweeps, scans, clerks
or administrators give every race of two: one that loads before and saves after
the other, and a conflict.

The parts of `records`: 2 processes and 2 relations of a pair (an ended and an
active one); 3 events in pages of 1, at most 2 pages a run, so that a backlog
needs several runs, and 2 failures; 2 registrations in 7 units of time, with an
overlap of 2 and checks of at most 2; 3 features in 2 cadastres, pages of 2, a
budget of 3, so that a page is full, short, empty and cut by the budget, and one
move of a feature during the imports; 2 sweeps, 2 persons and a change of
preferences or assignee; 2 clerks, 2 heirs, 4 versions; 2 scanners, an
administrator and 4 changes of the problem; a server, a browser, two writers, 1
write and 3 tile versions, so that two threads meet in one increment and a request
outlives an invalidation; 2 administrators, a login, 2 accounts and the roles
`Member`, `Boss`, which Keycloak gives, and `Agent`, which only privileges stand
for. Roles and accounts are changed of the named user and of user 1, privileges of
the named user. A role that nobody has given an account shows.

`desk` and `records` say what TLC can finish in a few minutes; deadlock is not
checked in `records` because its parts stop at their bounds (no more events,
versions, time). The proofs below remove the bounds for the safety properties.

`MaxRuns`, `MaxImports`, `MaxGenerations`, `MaxLayer`, `MaxFaults` and
`MaxImportFaults` exist for TLC only. When no id is left, the action that would
need one ends with the same exception path as an error (`DispatchFails`,
`AbortImport`, `ImportFails`) and this is not counted as a fault.

## Fairness

`FairSpec` of `CadastreSync`, `FairImportSpec` of `FullImport` and
`FairSyncSpec` of their composition assume weak fairness of the clock, of each
dispatcher, of each worker and of the watchdog: Beat runs the watchdog every 300
s and the portfolio dispatch daily (`CELERY_BEAT_SCHEDULE`), and the operating
system schedules processes. Faults are never forced and, in the liveness runs,
finitely many. `QueuedRunIsServed` rests on the daily dispatch (a dispatcher
never stops for ever) and on `Backlog = FALSE`, the assumption that a message
does not stay in the queue while a worker is idle for a unit of time: with a
longer backlog every reservation can expire before its message is received and
the row can be dispatched over and over. `Request` of `FullImport` is not fair:
nothing in the repository publishes the task.

`RecordsSpec` assumes weak fairness of the feed runs (`FeedWork`: Beat starts
one every hour and its steps go on; failures are finitely many), of each scan
(Beat starts one every six hours) and of the save of a request that an
administrator has sent. Publishing, changes of the problem, assignments and
resolutions are never forced. `EventsAreTaken` and `GoneProblemLeavesQueue` rest
on this and on nothing else; the second speaks of a problem that stays away
while its deal stays open. `DeskSpec` states none: the properties of the desk
are safety.

## Proofs

Proved by TLAPS for any sets of processes and any bounds, from the named
assumptions on the constants (`LimitAssumption` is the relation of the time
limits above; `ProcessAssumption` says that a worker's name is its token;
`DeltaAssumption` contains `TimeLimit <= Overlap`, which the window of
`DeltaCheck` needs; `ReminderAssumption` and `CaseAssumption` say that there are
finitely many sweeps and clerks, without which the counters that are bounded by
their number would have no type; `LayerAssumption` says that a page is at most
as long as the budget of an answer; the other assumptions say that bounds are
natural numbers and that "nobody", "nowhere" and "no document" are not elements
of the sets they stand beside):

| Theorem | In | Statement |
|---|---|---|
| `TypeCorrect` | `CadastreSync_proofs`, `FullImport_proofs`, `WfsGenerations_proofs` | `Spec => []TypeOK` (`ImportSpec => []ImportTypeOK`) |
| `MutualExclusionHolds`, `LiveImportNeverLooksStaleHolds`, `CreatedOnlyWhenIdleHolds` | `CadastreSync_proofs` | the safety of a cadastre's synchronization |
| `ImplementsSingleWriterHolds` | `CadastreSync_proofs` | `Spec => SW!Spec`: the protocol implements the abstract single writer |
| `CheckpointIsSoundHolds`, `OneImporterHolds` | `FullImport_proofs` | with any number of workers and operators |
| `CursorNeverMovesBackHolds`, `EverySuccessHasItsImportHolds` | `FullImport_proofs` | with any number of operators, until the command is first run (`cli = {}`) |
| `AtMostOneActiveHolds`, `ActiveGenerationIsShownHolds`, `OnlyValidatedDataIsShownHolds` | `WfsGenerations_proofs` | the safety of the generations |
| `WonDealStaysSettled`, `ContractKeepsItsOffer`, `ContractKeepsItsHistory` | `Contracts_proofs` | the safety of a deal and its contract |
| `DealImplementsVersionedRecord`, `CaseImplementsVersionedRecord` | `Contracts_proofs`, `Records_proofs` | the handlers refine `VersionedRecord` |
| `LossReportsWhatItLeft`, `OnlyAdminTakesCase` | `Contracts_proofs` | what a structured loss reports, and who takes a case from its evaluator |
| `SignedIsAttested`, `FinalIsUndoneUnseen` | `Documents_proofs` | the signing workflow |
| `NamedObjectStays`, `RepairIsExact` | `Documents_proofs` | the stored document and the repair |
| `DeskInvariant`, `DeskIsSafe`, `DeskStepsAreSafe`, `DeskImplementsVersionedRecord` | `Documents_proofs` | deal, contract, document and signing together, also from a deal under negotiation |
| `DeltaMissesNothing`, `FeedConfirmsStored` | `Feeds_proofs` | the window and the cursor |
| `LayerInvariant`, `ReplacementMirrorsLayer` | `Feeds_proofs` | the replacement of a cadastre's features page by page |
| `RelationStaysUnique`, `ToldOnce`, `ScansReopenNothing`, `OldTilesAreForgotten`, `RolesComeFromKeycloak` | `Records_proofs` | the safety of the parts of `records` |
| `RecordsInvariant`, `RecordsAreSafe`, `RecordStepsAreSafe` | `Records_proofs` | the records and the feeds together |
| `...TypeCorrect` | the same | type correctness of these modules |

The arguments. *CadastreSync*: mutual exclusion is not inductive, because the
key can expire. The inductive invariant adds that a worker past its claim holds
the key, with a time to live of at least `LockTtl` minus its age; since no task
is older than `TimeLimit < LockTtl`, the key cannot expire under it. A
dispatcher may lose its reservation only to its own message, so the invariant
also ties the tokens of dispatchers, messages and workers to the rows they
carry. The heartbeat of the row a worker imports for is at most the worker's
age; with `TimeLimit < StaleAfter` neither the watchdog nor a later dispatch can
presume it lost. These facts together give the step simulation of
`SingleWriter`: `Start` maps to `Begin`, `Finish` to `Report`, the ways a worker
can die to `Leave`, the watchdog and a dispatcher's scan to `PresumeLost`,
`DispatchCreate` to `Request`, and everything else to a stutter. *FullImport*:
one importer by the same lock argument; soundness of checkpoints because a
process's own cursor is covered by what is stored under its checkpoint, whatever
another process writes; the cursor is monotone because the single worker's copy
equals the stored one as long as no command has run. *WfsGenerations*: only the
holder of the manifest's row is between `LockManifest` and `Activate`, and the
generation it will retire is the only other active one; an approval or a failure
cannot make a second one active; rows on the map belong to a generation whose
validation was passed or approved when it was activated, which no later step
takes back. *Contracts* (`ContractInv`): while the version of the deal is the
one a request has seen, the deal is what it has seen and the checks of its
handler still hold (`CallHolds`); the version grows with every write, so a
commit that passes the compare-and-swap decides on the present row. Between the
two steps of a deletion there is no contract and no second deletion, which is
why the history that is removed is never that of a contract in the table.
*Signing* (`SigningInv`): whole rows overwrite each other, so the invariant
speaks of what each request is about to save: a sound row, and a final state if
it loaded one. *ContractDocuments* (`DocumentInv`): as long as the system is
calm, every upload in flight has an object of its own, which the row does not
name, and a deleted contract's object is removed only when the row is gone; a
repair that nothing disturbs still agrees with its snapshot. *DeltaCheck*
(`DeltaInv`): an allocation that a check does not see was stamped after the
check began, and the next window opens at most the time limit, hence at most the
overlap, later. *WeaselFeed* (`FeedInv`): everything up to the run's own cursor
is stored or ignored, page by page. *Ownership* (`OwnershipInv`): the unique key
refuses what a stale read would double; the proof shows that every path either
goes through the key or cannot raise the number of active relations. *Reminders*
(`ReminderInv`): the delivery row and the message are written in one transaction
under a unique key, so either both exist or none. *Inheritance* (`CaseInv`): as
for deals. *Tiles* (`TileInv`): in a server whose version has not gone back, the
tiles under the present version, and those that requests are about to store
under it, lack nothing that the last invalidation covers, and no tile lies under
a version still to come; an increment therefore leads to a version without
tiles, and a request that is overtaken stores under a version that is gone. No
time to live enters. *Staff* (`StaffInv`): a request that reaches its save has
granted the roles to an account, and that account belongs to the user it will
save unless the user is `Named`; a user made by a login keeps its account as its
subject for good; the privileges of a user whose membership Keycloak manages
change without touching its roles (`Synced`), and nothing makes such a
membership unmanaged but the deletion of its user.

Three further arguments carry the theorems that count. *FullImport*
(`SuccessInv`): no step adds a successful run and a completed import at once, so
the two counts are compared through the one task that stands between them. The
lock leaves at most one task past its import; while it has not marked its run,
the successes are strictly fewer than the completed imports, and a task that is
still reading has an open checkpoint, so that completing it adds one. The
cardinalities themselves need only that a finite set grows by one with a new
element. *LayerSync* (`LayerInv`): `Position` counts the features of an answer
from its beginning. It is injective and every position below the number of
features is taken, which follows from the cardinality of an interval of feature
numbers without an induction over it; hence a page that is shorter than asked
for is the last one, and the pages of an undisturbed load join without a gap.
For a load that nothing disturbs (`quiet`) the invariant says that what has been
read is the part of the layer before the next position, and that what is no
longer to be stored lies at its cadastre already. A load that the rule against
mass deletion refuses is no success; what it stored stays. *Inheritance*
(`HeirsInv`): every change of an heir is a change of the case, so that no heir
is ahead of its case; this is what bounds the revisions of the heirs.

*The compositions.* `MCDesk` and `MCRecords` put the components side by side. A
step of the composition is a step of a part or leaves the part as it is
(`DeskStep`, `RecordsStep`), so the conjunction of the inductive invariants is
inductive, and the type invariants, the safety invariants, the action properties
and the two refinements of `VersionedRecord` hold of the compositions that the
runs `desk` and `records` check. The desk may begin with a deal that is already
under negotiation, which is not an initial state of `Contracts`
(`NegotiatedDealHolds`): its theorems do not follow from those of the parts but
from their invariants.

Only model-checked: the liveness properties (`QueuedRunIsServed`,
`RunningRunIsRetired`, `LockIsRecovered`, `RunningImportIsRetired`,
`EventsAreTaken`, `GoneProblemLeavesQueue`), because liveness under fairness is
out of reach of the prover. Every invariant, every action property and every
refinement that a passing run checks is also proved.

## Findings

Six runs refute a sentence of the repository; `PROJECT.json` quotes it.

1. `sync_rerun`: a duplicate delivery can execute a finished run again, since
   the status is read before the lock is claimed (`tasks.py:213`).
2. `full_import_chain`: with two worker processes the continuation of a full
   import can be refused by the lock its publisher still holds (`tasks.py:467`);
   the import stops in the middle without an error.
3. `full_import_orphan`: a task lost between the creation of its row and
   `_start` leaves a QUEUED row that blocks every later import
   (`tasks.py:414`).
4. `wfs_approval`: the slower of two approvals writes READY over a published
   generation (`wfs_generations.py:183`).
5. `ownership_revival`: the signal on a new owner-cadastre link looks for a
   protected ending while its import is not yet committed and nobody locks the
   relations (`p1_signals.py:67`); a relation that a user ends with protection
   in between is active again after the import.
6. `tiles_invalidation`: a write bumps the version of its own process only, so
   another server goes on answering with the tile that `tile_cache.py:59` says is
   immediately unreachable, for as long as its entry lives.

Behaviours that the models show and that no sentence of the repository excludes,
so that no run claims them: a second structured loss fails on the unique key of
the first (`LoseAgain`); a deal that is closed is opened again by a claim or a
counteroffer; the file that an upload replaces stays in the storage until a
repair; a repair deletes the file of an upload in flight; a user whose Keycloak
account was deleted by a request that then died is refused by every later
deletion; a reminder that was skipped for a preference is never delivered later;
an event of an unknown owner is not read again once the cursor has passed it; the
issue of a deal that closes with its problem stays open.

Two more behaviours concern `accounts/authorization.py:27`, which calls Keycloak the
source of truth. A user of the older endpoints who never logs in holds the roles of
its local privileges in a membership that Keycloak does not manage; the line after
the comment makes this exception on purpose. And the privileges of such a user that
an administrator changes do not reach its roles (`AddPrivileges`): the deletion
leaves the role of a member and the insertion sends no signal.

## Abstractions and limits

- CadastreSync: the inline mode (`FORESTIQ_TASKS_INLINE`), the selection of
  sources and the counters of a row are left out. The outcome SKIPPED needs an
  empty selection, which no caller passes. Importers only decide the outcome.
  Tokens are recycled once nothing refers to them (`Fresh`); drawing the same
  random token twice is excluded.
- FullImport: at this commit nothing in the repository publishes the first task,
  so `Request` is external. The provider's layer is fixed while it is read; the
  code pages by `startIndex` and could not notice a change. A reconciliation
  ends within the time unit it began in. A worker's name is its token. The
  command takes no lock and renews no heartbeat, so the watchdog may fail its
  row and a late failure of the command may reopen a completed checkpoint:
  both are steps of the model and hazards without a property, because no
  document promises otherwise.
- WfsGenerations: loading the manifest and reading the next sequence are one
  step. The manifest permits approvals. Every actor may die at any point without
  bound. A roll back to the active generation changes nothing and is left out, as
  are `deep_verify` and the second save of `validation`. `Keep` is at least 1, as
  `cleanup_retired_generations` makes it. A PATCH that changes
  `retention_generations` is modelled only by its effect on the baseline.
- Deals and Contracts: prices, texts, audit rows and templates. Every member of
  the staff reaches the deal. No evaluator is deleted as a user, which would
  clear `Deal.evaluator` (`SET_NULL`) without a new version. An archived
  contract may be deleted at any later moment; the retention time only delays
  it.
- ContractDocuments: a contract written by the parity endpoints is seen by its
  version and its PDF only (`OtherWrite`).
- Signing: a client's version is compared with the loaded copy and never in the
  database, so it decides nothing and is left out.
- Ownership: one pair, without shares and rights; it begins without a relation
  and with or without a legacy link.
- DeltaCheck: both clocks agree and the provider shows an allocation at the time
  it stamps it with. A check started by the management command or inline has no
  time limit; the theorem does not speak of it.
- WeaselFeed: the provider honours the page size and cursors only move forward.
- LayerSync: retries of one request are one late answer; the geometry of a
  feature is the cadastre it lies in. The upserts of cadastre attributes and
  of subparts, which delete nothing, are left out.
- Reminders: messages between users and the live stream are left out (a message
  is one insert). DataQuality: one issue; two rules never share a key.
- Tiles: one tile, one layer, one filter; a cached tile may go at any time. The
  copy that a browser keeps for `max-age` is left out: nothing can invalidate
  it. The threads of a process count as requests of one process.
- Staff: one person; a privilege has the name of the role it stands for.
  Keycloak refuses a user name that is taken. Tokens are checked for
  organization and roles by code that keeps no state.

## Not modelled

- Paerimus notices: each feature is one upsert by its notice number under the lock
  that `SingleFlight` models; nothing depends on an order.
- Workbaskets, segments and next actions: every operation loads a row, changes it
  and saves it whole; the last one wins, and the code keeps no relation that a
  property could state.
- Owner register, logs, followings, worklists: single updates of single rows.
- The read-only API and reports: queries and formatting.
- One-off importers (`src/scripts`): run once, alone, against an older schema.
- The user interface, deployment and metrics: no shared state; the limits of
  `settings.py` are constants of the models.

These, with the tests and the migrations, are most of the lines of the repository;
this is why the map of `PROJECT.json` covers a small share of them although every
part that keeps shared state under concurrency has a module.

## What is left

Extensions that would add something: the overlap of `FullImport` with `LayerSync`,
which write the same feature rows under different locks; workbaskets together
with the worklists that are made from them, should they get versions.
