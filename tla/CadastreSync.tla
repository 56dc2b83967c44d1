---------------------------- MODULE CadastreSync ----------------------------
(***************************************************************************)
(* Synchronization of one cadastre of one tenant: web requests and the     *)
(* daily task dispatch runs, Celery delivers them at least once to worker  *)
(* processes, one Redis key serialises them, a watchdog fails the audit    *)
(* rows of lost workers.  Different cadastres use different keys and rows, *)
(* so one of them is the whole system.                                     *)
(***************************************************************************)
EXTENDS SyncRuns

CONSTANTS
    Dispatcher,  \* requests and tasks that may be inside enqueue_cadastre_sync
    Backlog,     \* TRUE when a message may wait although a worker is idle
    MaxFaults    \* bound: crashes, outages and duplicate deliveries together

ASSUME FaultAssumption == MaxFaults \in Nat /\ Backlog \in BOOLEAN

VARIABLES
    lock,        \* the Redis key
    status,      \* DataSyncRun.status per row id ("NONE": no such row yet)
    heartbeat,   \* time since cursor.heartbeatAt of a row that was started
    dispatcher,  \* local state of each enqueue_cadastre_sync call
    queue,       \* Celery messages that a worker may receive
    worker,      \* local state of each worker process
    watchdog,    \* local state of reconcile_stale_sync_runs
    faults       \* faults that have happened

vars == <<lock, status, heartbeat, dispatcher, queue, worker, watchdog, faults>>

Outcome == {"SUCCESS", "PARTIAL", "FAILED"}
Status  == {"NONE", "QUEUED", "RUNNING"} \cup Outcome
Live    == {"QUEUED", "RUNNING"}
Message == [token : Token, run : RunId]

IdleDispatcher == [pc |-> "idle", token |-> NoToken, run |-> NoRun, age |-> 0]
IdleWorker     == [pc |-> "idle", token |-> NoToken, run |-> NoRun, age |-> 0]
IdleWatchdog   == [stale |-> {}, age |-> 0]

TypeOK ==
    /\ lock \in LockState
    /\ status \in [RunId -> Status]
    /\ heartbeat \in [RunId -> 0 .. StaleAfter + 1]
    /\ dispatcher \in [Dispatcher -> [pc : {"idle", "scan", "create", "publish", "record"},
                                      token : Token \cup {NoToken},
                                      run : RunId \cup {NoRun},
                                      age : 0 .. TimeLimit]]
    /\ queue \subseteq Message
    /\ worker \in [Worker -> [pc : {"idle", "claim", "start", "import", "release"},
                              token : Token \cup {NoToken},
                              run : RunId \cup {NoRun},
                              age : 0 .. TimeLimit]]
    /\ watchdog \in [stale : SUBSET RunId, age : 0 .. TimeLimit]
    /\ faults \in 0 .. MaxFaults

Init ==
    /\ lock = FreeLock
    /\ status = [r \in RunId |-> "NONE"]
    /\ heartbeat = [r \in RunId |-> 0]
    /\ dispatcher = [d \in Dispatcher |-> IdleDispatcher]
    /\ queue = {}
    /\ worker = [w \in Worker |-> IdleWorker]
    /\ watchdog = IdleWatchdog
    /\ faults = 0

Fault == faults < MaxFaults /\ faults' = faults + 1

-----------------------------------------------------------------------------
(* Audit rows.                                                             *)

IsStaleQueued(r) == status[r] = "QUEUED" /\ heartbeat[r] > StaleAfter   \* mutant
IsStale(r) == status[r] = "RUNNING" /\ heartbeat[r] > StaleAfter

(* _active_cadastre_run goes through the queued and running rows from the  *)
(* newest on and returns the first that is not stale; the stale rows it    *)
(* meets before that are failed.                                           *)
LiveRuns       == {r \in RunId : status[r] \in Live /\ ~IsStale(r)}
IsActive(r)    == r \in LiveRuns /\ \A s \in LiveRuns : s <= r
RetiredOnSight == {r \in RunId : IsStale(r) /\ \A s \in LiveRuns : s < r}

FailRows(S) == status' = [r \in RunId |-> IF r \in S THEN "FAILED" ELSE status[r]]

(* A token nothing refers to is as good as one never drawn before.         *)
Fresh(t) ==
    /\ lock.value.token # t
    /\ \A m \in queue : m.token # t
    /\ \A d \in Dispatcher : dispatcher[d].token # t
    /\ \A w \in Worker : worker[w].token # t

-----------------------------------------------------------------------------
(* enqueue_cadastre_sync.                                                  *)

DispatchRefused(d) ==
    /\ dispatcher[d].pc = "idle"
    /\ ~CanAcquire(lock)
    /\ FailRows(RetiredOnSight)
    /\ UNCHANGED <<lock, heartbeat, dispatcher, queue, worker, watchdog, faults>>

DispatchAcquire(d, t) ==
    /\ dispatcher[d].pc = "idle"
    /\ Fresh(t)
    /\ CanAcquire(lock)
    /\ lock' = AfterAcquire(lock, t)
    /\ dispatcher' = [dispatcher EXCEPT
                        ![d] = [IdleDispatcher EXCEPT !.pc = "scan", !.token = t]]
    /\ UNCHANGED <<status, heartbeat, queue, worker, watchdog, faults>>

DispatchFoundRunning(d) ==
    /\ dispatcher[d].pc = "scan"
    /\ \E r \in RunId : IsActive(r) /\ status[r] = "RUNNING"
    /\ FailRows(RetiredOnSight)
    /\ lock' = AfterRelease(lock, Queued(dispatcher[d].token))
    /\ dispatcher' = [dispatcher EXCEPT ![d] = IdleDispatcher]
    /\ UNCHANGED <<heartbeat, queue, worker, watchdog, faults>>

DispatchReuseRefused(d, r) ==   \* mutant: a queued row also counts as running
    /\ dispatcher[d].pc = "scan"
    /\ IsActive(r)
    /\ status[r] = "QUEUED"
    /\ FailRows(RetiredOnSight)
    /\ lock' = AfterRelease(lock, Queued(dispatcher[d].token))
    /\ dispatcher' = [dispatcher EXCEPT ![d] = IdleDispatcher]
    /\ UNCHANGED <<heartbeat, queue, worker, watchdog, faults>>

DispatchReuse(d, r) ==
    /\ dispatcher[d].pc = "scan"
    /\ IsActive(r)
    /\ status[r] = "QUEUED"
    /\ FailRows(RetiredOnSight)
    /\ dispatcher' = [dispatcher EXCEPT ![d].pc = "publish", ![d].run = r]
    /\ UNCHANGED <<lock, heartbeat, queue, worker, watchdog, faults>>

DispatchFoundNone(d) ==
    /\ dispatcher[d].pc = "scan"
    /\ LiveRuns = {}
    /\ FailRows(RetiredOnSight)
    /\ dispatcher' = [dispatcher EXCEPT ![d].pc = "create"]
    /\ UNCHANGED <<lock, heartbeat, queue, worker, watchdog, faults>>

DispatchCreate(d, r) ==
    /\ dispatcher[d].pc = "create"
    /\ \A s \in RunId : status[s] = "NONE" <=> s >= r
    /\ status' = [status EXCEPT ![r] = "QUEUED"]
    /\ dispatcher' = [dispatcher EXCEPT ![d].pc = "publish", ![d].run = r]
    /\ UNCHANGED <<lock, heartbeat, queue, worker, watchdog, faults>>

DispatchPublish(d) ==
    /\ dispatcher[d].pc = "publish"
    /\ queue' = queue \cup {[token |-> dispatcher[d].token, run |-> dispatcher[d].run]}
    /\ dispatcher' = [dispatcher EXCEPT ![d].pc = "record"]
    /\ UNCHANGED <<lock, status, heartbeat, worker, watchdog, faults>>

(* The message is with the broker; saving task_id changes nothing modelled. *)
DispatchRecord(d) ==
    /\ dispatcher[d].pc = "record"
    /\ dispatcher' = [dispatcher EXCEPT ![d] = IdleDispatcher]
    /\ UNCHANGED <<lock, status, heartbeat, queue, worker, watchdog, faults>>

(* An exception anywhere after acquire gives the reservation back and      *)
(* leaves the row as it is, also after the message is with the broker and  *)
(* perhaps claimed.  Having no row id left is the model's bound and is not *)
(* counted as a fault.                                                     *)
DispatchFails(d) ==
    /\ dispatcher[d].pc # "idle"
    /\ IF dispatcher[d].pc = "create" /\ \A r \in RunId : status[r] # "NONE"
         THEN UNCHANGED faults
         ELSE Fault
    /\ lock' = AfterRelease(lock, Queued(dispatcher[d].token))
    /\ dispatcher' = [dispatcher EXCEPT ![d] = IdleDispatcher]
    /\ UNCHANGED <<status, heartbeat, queue, worker, watchdog>>

(* The dispatching process dies: its reservation stays until it expires.   *)
DispatchCrash(d) ==
    /\ dispatcher[d].pc # "idle"
    /\ Fault
    /\ dispatcher' = [dispatcher EXCEPT ![d] = IdleDispatcher]
    /\ UNCHANGED <<lock, status, heartbeat, queue, worker, watchdog>>

-----------------------------------------------------------------------------
(* run_cadastre_sync in a worker process.                                  *)

MessageOf(w) == [token |-> worker[w].token, run |-> worker[w].run]

(* The task reads its row once, before it looks at the lock.               *)
Receive(w, m) ==
    /\ worker[w].pc = "idle"
    /\ m \in queue
    /\ queue' = queue \ {m}
    /\ worker' = IF status[m.run] \in {"RUNNING", "SUCCESS"}
                   THEN worker
                   ELSE [worker EXCEPT ![w] = [pc |-> "claim", token |-> m.token,
                                               run |-> m.run, age |-> 0]]
    /\ UNCHANGED <<lock, status, heartbeat, dispatcher, watchdog, faults>>

Claim(w) ==
    /\ worker[w].pc = "claim"
    /\ CanClaim(lock, worker[w].token)
    /\ lock' = AfterClaim(lock, worker[w].token)
    /\ worker' = [worker EXCEPT ![w].pc = "start"]
    /\ UNCHANGED <<status, heartbeat, dispatcher, queue, watchdog, faults>>

ClaimRefused(w) ==
    /\ worker[w].pc = "claim"
    /\ ~CanClaim(lock, worker[w].token)
    /\ worker' = [worker EXCEPT ![w] = IdleWorker]
    /\ UNCHANGED <<lock, status, heartbeat, dispatcher, queue, watchdog, faults>>

(* Redis is down: SingleFlightLockUnavailable is a ConnectionError, so the *)
(* task is published again with the same arguments or is out of retries.   *)
ClaimUnavailable(w) ==
    /\ worker[w].pc = "claim"
    /\ Fault
    /\ \/ queue' = queue \cup {MessageOf(w)}
       \/ UNCHANGED queue
    /\ worker' = [worker EXCEPT ![w] = IdleWorker]
    /\ UNCHANGED <<lock, status, heartbeat, dispatcher, watchdog>>

StartWithoutHeartbeat(w) ==   \* mutant
    /\ worker[w].pc = "start"
    /\ status' = [status EXCEPT ![worker[w].run] = "RUNNING"]
    /\ worker' = [worker EXCEPT ![w].pc = "import"]
    /\ UNCHANGED <<lock, heartbeat, dispatcher, queue, watchdog, faults>>

Start(w) ==
    /\ worker[w].pc = "start"
    /\ status' = [status EXCEPT ![worker[w].run] = "RUNNING"]
    /\ heartbeat' = [heartbeat EXCEPT ![worker[w].run] = 0]
    /\ worker' = [worker EXCEPT ![w].pc = "import"]
    /\ UNCHANGED <<lock, dispatcher, queue, watchdog, faults>>

(* Every importer's exception is caught, so the importers end in one of    *)
(* the outcomes, and _complete writes it whatever the row then holds.      *)
Finish(w, outcome) ==
    /\ worker[w].pc = "import"
    /\ status' = [status EXCEPT ![worker[w].run] = outcome]
    /\ worker' = [worker EXCEPT ![w].pc = "release"]
    /\ UNCHANGED <<lock, heartbeat, dispatcher, queue, watchdog, faults>>

Release(w) ==
    /\ worker[w].pc = "release"
    /\ lock' = AfterRelease(lock, Running(worker[w].token))
    /\ worker' = [worker EXCEPT ![w] = IdleWorker]
    /\ UNCHANGED <<status, heartbeat, dispatcher, queue, watchdog, faults>>

(* release swallows a Redis error and leaves the key to its expiry.        *)
ReleaseUnavailable(w) ==
    /\ worker[w].pc = "release"
    /\ Fault
    /\ worker' = [worker EXCEPT ![w] = IdleWorker]
    /\ UNCHANGED <<lock, status, heartbeat, dispatcher, queue, watchdog>>

(* An exception outside the importers, such as a lost database connection  *)
(* in _start or _complete, runs the finally clause and nothing else.       *)
Abort(w) ==
    /\ worker[w].pc \in {"start", "import"}
    /\ Fault
    /\ lock' = AfterRelease(lock, Running(worker[w].token))
    /\ worker' = [worker EXCEPT ![w] = IdleWorker]
    /\ UNCHANGED <<status, heartbeat, dispatcher, queue, watchdog>>

(* The process is killed, by the hard time limit or with its host.  With   *)
(* late acknowledgement a lost host's message is delivered again.          *)
Kill(w) ==
    /\ worker[w].pc # "idle"
    /\ Fault
    /\ \/ queue' = queue \cup {MessageOf(w)}
       \/ UNCHANGED queue
    /\ worker' = [worker EXCEPT ![w] = IdleWorker]
    /\ UNCHANGED <<lock, status, heartbeat, dispatcher, watchdog>>

(* The broker's visibility timeout delivers an unacknowledged message      *)
(* again while its first receiver is still at work.                        *)
Redeliver(w) ==
    /\ worker[w].pc # "idle"
    /\ Fault
    /\ queue' = queue \cup {MessageOf(w)}
    /\ UNCHANGED <<lock, status, heartbeat, dispatcher, worker, watchdog>>

-----------------------------------------------------------------------------
(* reconcile_stale_sync_runs reads the RUNNING rows, then fails each stale *)
(* one by a write that does not look at the row again.                     *)

WatchdogRead ==
    /\ watchdog.stale = {}
    /\ \E r \in RunId : IsStale(r)
    /\ watchdog' = [stale |-> {r \in RunId : IsStale(r)}, age |-> 0]
    /\ UNCHANGED <<lock, status, heartbeat, dispatcher, queue, worker, faults>>

WatchdogFail(r) ==
    /\ r \in watchdog.stale
    /\ FailRows({r})
    /\ watchdog' = IF watchdog.stale = {r} THEN IdleWatchdog
                   ELSE [watchdog EXCEPT !.stale = @ \ {r}]
    /\ UNCHANGED <<lock, heartbeat, dispatcher, queue, worker, faults>>

WatchdogCrash ==
    /\ watchdog.stale # {}
    /\ Fault
    /\ watchdog' = IdleWatchdog
    /\ UNCHANGED <<lock, status, heartbeat, dispatcher, queue, worker>>

-----------------------------------------------------------------------------
(* Time.  No task or request outlives TimeLimit: one that has reached it   *)
(* ends or is killed before the next tick.                                 *)

Older(p) == IF p.pc = "idle" THEN p ELSE [p EXCEPT !.age = @ + 1]

Tick ==
    /\ \A d \in Dispatcher : dispatcher[d].age < TimeLimit \/ dispatcher[d].pc = "idle"
    /\ \A w \in Worker : worker[w].age < TimeLimit \/ worker[w].pc = "idle"
    /\ watchdog.age < TimeLimit \/ watchdog.stale = {}
    /\ Backlog \/ queue = {} \/ \A w \in Worker : worker[w].pc # "idle"
    /\ lock' = AfterTick(lock)
    /\ heartbeat' = [r \in RunId |->
                       IF status[r] \notin {"NONE", "QUEUED"} /\ heartbeat[r] <= StaleAfter
                         THEN heartbeat[r] + 1 ELSE heartbeat[r]]
    /\ dispatcher' = [d \in Dispatcher |-> Older(dispatcher[d])]
    /\ worker' = [w \in Worker |-> Older(worker[w])]
    /\ watchdog' = IF watchdog.stale = {} THEN watchdog
                   ELSE [watchdog EXCEPT !.age = @ + 1]
    /\ UNCHANGED <<status, queue, faults>>

-----------------------------------------------------------------------------
DispatcherStep(d) ==
    \/ DispatchRefused(d)
    \/ \E t \in Token : DispatchAcquire(d, t)
    \/ DispatchFoundRunning(d)
    \/ \E r \in RunId : DispatchReuse(d, r)
    \/ DispatchFoundNone(d)
    \/ \E r \in RunId : DispatchCreate(d, r)
    \/ DispatchPublish(d)
    \/ DispatchRecord(d)
    \/ DispatchFails(d)

WorkerStep(w) ==
    \/ \E m \in queue : Receive(w, m)
    \/ Claim(w)
    \/ ClaimRefused(w)
    \/ Start(w)
    \/ \E outcome \in Outcome : Finish(w, outcome)
    \/ Release(w)

WatchdogStep ==
    \/ WatchdogRead
    \/ \E r \in RunId : WatchdogFail(r)

FaultStep ==
    \/ \E d \in Dispatcher : DispatchCrash(d)
    \/ \E w \in Worker :
         \/ ClaimUnavailable(w)
         \/ ReleaseUnavailable(w)
         \/ Abort(w)
         \/ Kill(w)
         \/ Redeliver(w)
    \/ WatchdogCrash

Next ==
    \/ \E d \in Dispatcher : DispatcherStep(d)
    \/ \E w \in Worker : WorkerStep(w)
    \/ WatchdogStep
    \/ FaultStep
    \/ Tick

Spec == Init /\ [][Next]_vars

(* Beat, the web server, the worker pool and the clock keep going; faults  *)
(* are never forced.                                                       *)
FairSpec ==
    /\ Spec
    /\ WF_vars(Tick)
    /\ \A d \in Dispatcher : WF_vars(DispatcherStep(d))
    /\ \A w \in Worker : WF_vars(WorkerStep(w))
    /\ WF_vars(WatchdogStep)

-----------------------------------------------------------------------------
InCriticalSection(w) == worker[w].pc \in {"start", "import", "release"}

(* No two workers are between a successful claim and their release, however *)
(* often a message is delivered and although the key may expire: the hard  *)
(* time limit ends a task before the key it claimed can expire             *)
(* (SingleFlightLock, CELERY_TASK_TIME_LIMIT).                             *)
MutualExclusion ==
    \A v, w \in Worker : InCriticalSection(v) /\ InCriticalSection(w) => v = w

(* The row a live worker is importing for never satisfies _is_stale_run,   *)
(* although the task sends no heartbeat while its importers run.           *)
LiveImportNeverLooksStale ==
    \A w \in Worker : worker[w].pc = "import" => ~IsStale(worker[w].run)

(* enqueue_cadastre_sync creates a row only when no row of the cadastre is *)
(* queued or running, although it looked for one in an earlier step and    *)
(* any number of dispatchers, late messages and watchdogs act in between.  *)
CreatedOnlyWhenIdle ==
    [][\A r \in RunId : status[r] = "NONE" /\ status'[r] = "QUEUED"
         => \A s \in RunId : status[s] \notin Live]_vars

(* "A duplicate delivery does not perform the same writes": a run that     *)
(* ended in SUCCESS, which the task answers with already_finished, is      *)
(* never executed again.                                                   *)
FinishedRunStaysFinished ==
    [][\A r \in RunId : status[r] = "SUCCESS" => status'[r] # "RUNNING"]_vars

(* Locks, messages, crashes and clocks implement the single writer: the    *)
(* worker between _start and _complete is the one that writes.             *)
SW == INSTANCE SingleWriter WITH
        job <- [w \in Worker |-> IF worker[w].pc = "import" THEN worker[w].run
                                                            ELSE NoRun],
        row <- status

ImplementsSingleWriter == SW!Spec

(* A queued run is eventually taken up: by its message, or by a later      *)
(* dispatch that finds its row after the reservation has expired.          *)
QueuedRunIsServed ==
    \A r \in RunId : status[r] = "QUEUED" ~> status[r] # "QUEUED"

(* A running row is eventually completed, by its worker or, when that was  *)
(* lost, by the watchdog or the next dispatch.                             *)
RunningRunIsRetired ==
    \A r \in RunId : status[r] = "RUNNING" ~> status[r] # "RUNNING"

(* However its holder ended, the key is released or expires: dispatch is   *)
(* never blocked for ever.                                                 *)
LockIsRecovered == []<>(lock.value = NoValue)
=============================================================================
