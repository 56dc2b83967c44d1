------------------------ MODULE CadastreSync_proofs ------------------------
(***************************************************************************)
(* Proofs about CadastreSync for every number of workers, dispatchers,     *)
(* tokens, audit rows and faults, and for all limits with                  *)
(* TimeLimit < LockTtl and TimeLimit < StaleAfter.                         *)
(***************************************************************************)
EXTENDS CadastreSync, SingleFlight_proofs

-----------------------------------------------------------------------------
(* A busy process knows its token, and its row once it has one.            *)
BusyOK ==
    /\ \A d \in Dispatcher :
         /\ dispatcher[d].pc # "idle" => dispatcher[d].token \in Token
         /\ dispatcher[d].pc \in {"publish", "record"} => dispatcher[d].run \in RunId
    /\ \A w \in Worker : worker[w].pc # "idle" =>
         worker[w].token \in Token /\ worker[w].run \in RunId

TypeInv == TypeOK /\ BusyOK

LEMMA TypeInvInit == Init => TypeInv
<1> SUFFICES ASSUME Init PROVE TypeInv
  OBVIOUS
<1>1. FreeLock \in LockState
  BY LockTtlAssumption DEF FreeLock, LockState, LockValue, NoValue
<1> QED
  BY <1>1, TokenAssumption, LimitAssumption, FaultAssumption
     DEF Init, TypeInv, TypeOK, BusyOK, Status, IdleDispatcher, IdleWorker, IdleWatchdog

(* What one dispatcher or one worker becomes keeps the types of all.       *)
DispatcherRow == [pc : {"idle", "scan", "create", "publish", "record"},
                  token : Token \cup {NoToken}, run : RunId \cup {NoRun},
                  age : 0 .. TimeLimit]
WorkerRow     == [pc : {"idle", "claim", "start", "import", "release"},
                  token : Token \cup {NoToken}, run : RunId \cup {NoRun},
                  age : 0 .. TimeLimit]

LEMMA DispatcherMoves ==
    ASSUME TypeInv, NEW d \in Dispatcher, NEW row \in DispatcherRow,
           row.pc # "idle" => row.token \in Token,
           row.pc \in {"publish", "record"} => row.run \in RunId,
           dispatcher' = [dispatcher EXCEPT ![d] = row], UNCHANGED worker
    PROVE  dispatcher' \in [Dispatcher -> DispatcherRow] /\ BusyOK'
<1>1. dispatcher \in [Dispatcher -> DispatcherRow] /\ BusyOK
  BY DEF TypeInv, TypeOK, DispatcherRow
<1>2. dispatcher' \in [Dispatcher -> DispatcherRow]
  BY <1>1
<1>3. \A e \in Dispatcher : dispatcher'[e] = IF e = d THEN row ELSE dispatcher[e]
  BY <1>1
<1> QED
  BY <1>1, <1>2, <1>3 DEF BusyOK

LEMMA WorkerMoves ==
    ASSUME TypeInv, NEW w \in Worker, NEW row \in WorkerRow,
           row.pc # "idle" => row.token \in Token /\ row.run \in RunId,
           worker' = [worker EXCEPT ![w] = row], UNCHANGED dispatcher
    PROVE  worker' \in [Worker -> WorkerRow] /\ BusyOK'
<1>1. worker \in [Worker -> WorkerRow] /\ BusyOK
  BY DEF TypeInv, TypeOK, WorkerRow
<1>2. worker' \in [Worker -> WorkerRow]
  BY <1>1
<1>3. \A v \in Worker : worker'[v] = IF v = w THEN row ELSE worker[v]
  BY <1>1
<1> QED
  BY <1>1, <1>2, <1>3 DEF BusyOK

LEMMA TypeInvDispatcher ==
    TypeInv /\ (\E d \in Dispatcher : DispatcherStep(d) \/ DispatchCrash(d)) => TypeInv'
<1> SUFFICES ASSUME TypeInv, NEW d \in Dispatcher, DispatcherStep(d) \/ DispatchCrash(d)
             PROVE  TypeInv'
  OBVIOUS
<1>t. TypeOK /\ BusyOK /\ dispatcher[d] \in DispatcherRow
  BY DEF TypeInv, TypeOK, DispatcherRow
<1>f. ASSUME NEW S \in SUBSET RunId, FailRows(S) PROVE status' \in [RunId -> Status]
  BY <1>t, <1>f DEF FailRows, TypeOK, Status, Outcome
<1>r. RetiredOnSight \in SUBSET RunId
  BY DEF RetiredOnSight
<1>i. IdleDispatcher \in DispatcherRow /\ IdleDispatcher.pc = "idle"
  BY LimitAssumption DEF IdleDispatcher, DispatcherRow
<1>b. dispatcher[d].pc # "idle" => dispatcher[d].token \in Token
  BY <1>t DEF BusyOK
<1>c. dispatcher[d].pc \in {"publish", "record"} => dispatcher[d].run \in RunId
  BY <1>t DEF BusyOK
(* Leaving: the dispatcher is idle again.                                  *)
<1>l. ASSUME dispatcher' = [dispatcher EXCEPT ![d] = IdleDispatcher], UNCHANGED worker
      PROVE  dispatcher' \in [Dispatcher -> DispatcherRow] /\ BusyOK'
  BY <1>i, <1>l, DispatcherMoves
<1>1. CASE DispatchRefused(d)
  BY <1>1, <1>t, <1>f, <1>r DEF DispatchRefused, TypeInv, TypeOK, BusyOK
<1>2. ASSUME NEW t \in Token, DispatchAcquire(d, t) PROVE TypeInv'
  <2> DEFINE row == [IdleDispatcher EXCEPT !.pc = "scan", !.token = t]
  <2>1. row \in DispatcherRow /\ row.pc = "scan" /\ row.token = t
    BY <1>i DEF DispatcherRow, IdleDispatcher
  <2>2. dispatcher' \in [Dispatcher -> DispatcherRow] /\ BusyOK'
    BY <1>2, <2>1, DispatcherMoves DEF DispatchAcquire
  <2>3. lock' \in LockState
    BY <1>2, <1>t, LockTypes DEF DispatchAcquire, TypeOK
  <2> QED
    BY <1>2, <1>t, <2>2, <2>3 DEF DispatchAcquire, TypeInv, TypeOK, DispatcherRow
<1>3. CASE DispatchFoundRunning(d)
  <2>1. dispatcher' \in [Dispatcher -> DispatcherRow] /\ BusyOK'
    BY <1>3, <1>l DEF DispatchFoundRunning
  <2>2. lock' \in LockState
    BY <1>3, <1>t, <1>b, LockTypes DEF DispatchFoundRunning, TypeOK
  <2>3. status' \in [RunId -> Status]
    BY <1>3, <1>f, <1>r DEF DispatchFoundRunning
  <2> QED
    BY <1>3, <1>t, <2>1, <2>2, <2>3 DEF DispatchFoundRunning, TypeInv, TypeOK, DispatcherRow
<1>4. ASSUME NEW r \in RunId, DispatchReuse(d, r) PROVE TypeInv'
  <2> DEFINE row == [dispatcher[d] EXCEPT !.pc = "publish", !.run = r]
  <2>1. /\ row \in DispatcherRow /\ row.token = dispatcher[d].token /\ row.run = r
        /\ dispatcher[d].pc # "idle"
    BY <1>4, <1>t DEF DispatcherRow, DispatchReuse
  <2>2. dispatcher' \in [Dispatcher -> DispatcherRow] /\ BusyOK'
    BY <1>4, <1>b, <2>1, DispatcherMoves DEF DispatchReuse
  <2>3. status' \in [RunId -> Status]
    BY <1>4, <1>f, <1>r DEF DispatchReuse
  <2> QED
    BY <1>4, <1>t, <2>2, <2>3 DEF DispatchReuse, TypeInv, TypeOK, DispatcherRow
<1>5. CASE DispatchFoundNone(d)
  <2> DEFINE row == [dispatcher[d] EXCEPT !.pc = "create"]
  <2>1. /\ row \in DispatcherRow /\ row.token = dispatcher[d].token /\ row.pc = "create"
        /\ dispatcher[d].pc # "idle"
    BY <1>5, <1>t DEF DispatcherRow, DispatchFoundNone
  <2>2. dispatcher' \in [Dispatcher -> DispatcherRow] /\ BusyOK'
    BY <1>5, <1>b, <2>1, DispatcherMoves DEF DispatchFoundNone
  <2>3. status' \in [RunId -> Status]
    BY <1>5, <1>f, <1>r DEF DispatchFoundNone
  <2> QED
    BY <1>5, <1>t, <2>2, <2>3 DEF DispatchFoundNone, TypeInv, TypeOK, DispatcherRow
<1>6. ASSUME NEW r \in RunId, DispatchCreate(d, r) PROVE TypeInv'
  <2> DEFINE row == [dispatcher[d] EXCEPT !.pc = "publish", !.run = r]
  <2>1. /\ row \in DispatcherRow /\ row.token = dispatcher[d].token /\ row.run = r
        /\ dispatcher[d].pc # "idle"
    BY <1>6, <1>t DEF DispatcherRow, DispatchCreate
  <2>2. dispatcher' \in [Dispatcher -> DispatcherRow] /\ BusyOK'
    BY <1>6, <1>b, <2>1, DispatcherMoves DEF DispatchCreate
  <2>3. status' \in [RunId -> Status]
    BY <1>6, <1>t DEF DispatchCreate, TypeOK, Status
  <2> QED
    BY <1>6, <1>t, <2>2, <2>3 DEF DispatchCreate, TypeInv, TypeOK, DispatcherRow
<1>7. CASE DispatchPublish(d)
  <2> DEFINE row == [dispatcher[d] EXCEPT !.pc = "record"]
  <2>1. /\ row \in DispatcherRow /\ row.token = dispatcher[d].token
        /\ row.run = dispatcher[d].run /\ dispatcher[d].pc = "publish"
    BY <1>7, <1>t DEF DispatcherRow, DispatchPublish
  <2>2. dispatcher' \in [Dispatcher -> DispatcherRow] /\ BusyOK'
    BY <1>7, <1>b, <1>c, <2>1, DispatcherMoves DEF DispatchPublish
  <2>3. queue' \subseteq Message
    BY <1>7, <1>t, <1>b, <1>c, <2>1 DEF DispatchPublish, TypeOK, Message
  <2> QED
    BY <1>7, <1>t, <2>2, <2>3 DEF DispatchPublish, TypeInv, TypeOK, DispatcherRow
<1>8. CASE DispatchRecord(d)
  <2>1. dispatcher' \in [Dispatcher -> DispatcherRow] /\ BusyOK'
    BY <1>8, <1>l DEF DispatchRecord
  <2> QED
    BY <1>8, <1>t, <2>1 DEF DispatchRecord, TypeInv, TypeOK, DispatcherRow
<1>9. CASE DispatchFails(d)
  <2>1. lock' \in LockState
    BY <1>9, <1>t, <1>b, LockTypes DEF DispatchFails, TypeOK
  <2>2. faults' \in 0 .. MaxFaults
    BY <1>9, <1>t, FaultAssumption DEF DispatchFails, TypeOK, Fault
  <2>3. dispatcher' \in [Dispatcher -> DispatcherRow] /\ BusyOK'
    BY <1>9, <1>l DEF DispatchFails
  <2> QED
    BY <1>9, <1>t, <2>1, <2>2, <2>3 DEF DispatchFails, TypeInv, TypeOK, DispatcherRow
<1>10. CASE DispatchCrash(d)
  <2>1. dispatcher' \in [Dispatcher -> DispatcherRow] /\ BusyOK'
    BY <1>10, <1>l DEF DispatchCrash
  <2>2. faults' \in 0 .. MaxFaults
    BY <1>10, <1>t, FaultAssumption DEF DispatchCrash, TypeOK, Fault
  <2> QED
    BY <1>10, <1>t, <2>1, <2>2 DEF DispatchCrash, TypeInv, TypeOK, DispatcherRow
<1> QED
  BY <1>1, <1>2, <1>3, <1>4, <1>5, <1>6, <1>7, <1>8, <1>9, <1>10 DEF DispatcherStep

LEMMA TypeInvWorker ==
    TypeInv /\ (\E w \in Worker : \/ WorkerStep(w) \/ ClaimUnavailable(w)
                                  \/ ReleaseUnavailable(w) \/ Abort(w)
                                  \/ Kill(w) \/ Redeliver(w))
      => TypeInv'
<1> SUFFICES ASSUME TypeInv, NEW w \in Worker,
                    \/ WorkerStep(w) \/ ClaimUnavailable(w) \/ ReleaseUnavailable(w)
                    \/ Abort(w) \/ Kill(w) \/ Redeliver(w)
             PROVE  TypeInv'
  OBVIOUS
<1>t. TypeOK /\ BusyOK /\ worker[w] \in WorkerRow
  BY DEF TypeInv, TypeOK, WorkerRow
<1>i. IdleWorker \in WorkerRow /\ IdleWorker.pc = "idle"
  BY LimitAssumption DEF IdleWorker, WorkerRow
<1>b. worker[w].pc # "idle" => worker[w].token \in Token /\ worker[w].run \in RunId
  BY <1>t DEF BusyOK
<1>m. worker[w].pc # "idle" => MessageOf(w) \in Message
  BY <1>b DEF MessageOf, Message
(* Leaving: the worker is idle again.                                      *)
<1>l. ASSUME worker' = [worker EXCEPT ![w] = IdleWorker], UNCHANGED dispatcher
      PROVE  worker' \in [Worker -> WorkerRow] /\ BusyOK'
  BY <1>i, <1>l, WorkerMoves
<1>1. ASSUME NEW m \in queue, Receive(w, m) PROVE TypeInv'
  <2> DEFINE row == [pc |-> "claim", token |-> m.token, run |-> m.run, age |-> 0]
  <2>1. m.token \in Token /\ m.run \in RunId
    BY <1>t DEF TypeOK, Message
  <2>2. row \in WorkerRow
    BY <2>1, LimitAssumption DEF WorkerRow
  <2>3. queue' \subseteq Message
    BY <1>1, <1>t DEF Receive, TypeOK
  <2>4. CASE worker' = worker
    BY <1>1, <1>t, <2>3, <2>4 DEF Receive, TypeInv, TypeOK, BusyOK
  <2>5. CASE worker' = [worker EXCEPT ![w] = row]
    <3>1. worker' \in [Worker -> WorkerRow] /\ BusyOK'
      BY <1>1, <2>1, <2>2, <2>5, WorkerMoves DEF Receive
    <3> QED
      BY <1>1, <1>t, <2>3, <3>1 DEF Receive, TypeInv, TypeOK, WorkerRow
  <2> QED
    BY <1>1, <2>4, <2>5 DEF Receive
<1>2. CASE Claim(w)
  <2> DEFINE row == [worker[w] EXCEPT !.pc = "start"]
  <2>1. row \in WorkerRow /\ row.token = worker[w].token /\ row.run = worker[w].run
    BY <1>t DEF WorkerRow
  <2>2. worker[w].pc # "idle"
    BY <1>2 DEF Claim
  <2>3. worker' \in [Worker -> WorkerRow] /\ BusyOK'
    BY <1>2, <1>b, <2>1, <2>2, WorkerMoves DEF Claim
  <2>4. lock' \in LockState
    BY <1>2, <1>t, <1>b, <2>2, LockTypes DEF Claim, TypeOK
  <2> QED
    BY <1>2, <1>t, <2>3, <2>4 DEF Claim, TypeInv, TypeOK, WorkerRow
<1>3. CASE ClaimRefused(w)
  <2>1. worker' \in [Worker -> WorkerRow] /\ BusyOK'
    BY <1>3, <1>l DEF ClaimRefused
  <2> QED
    BY <1>3, <1>t, <2>1 DEF ClaimRefused, TypeInv, TypeOK, WorkerRow
<1>4. CASE Start(w)
  <2> DEFINE row == [worker[w] EXCEPT !.pc = "import"]
  <2>1. row \in WorkerRow /\ row.token = worker[w].token /\ row.run = worker[w].run
    BY <1>t DEF WorkerRow
  <2>2. worker[w].pc # "idle"
    BY <1>4 DEF Start
  <2>3. worker' \in [Worker -> WorkerRow] /\ BusyOK'
    BY <1>4, <1>b, <2>1, <2>2, WorkerMoves DEF Start
  <2>4. status' \in [RunId -> Status]
    BY <1>4, <1>t DEF Start, TypeOK, Status
  <2>5. heartbeat' \in [RunId -> 0 .. StaleAfter + 1]
    <3>1. 0 \in 0 .. StaleAfter + 1
      BY LimitAssumption
    <3> QED
      BY <1>4, <1>t, <3>1 DEF Start, TypeOK
  <2> QED
    BY <1>4, <1>t, <2>3, <2>4, <2>5 DEF Start, TypeInv, TypeOK, WorkerRow
<1>5. ASSUME NEW outcome \in Outcome, Finish(w, outcome) PROVE TypeInv'
  <2> DEFINE row == [worker[w] EXCEPT !.pc = "release"]
  <2>1. row \in WorkerRow /\ row.token = worker[w].token /\ row.run = worker[w].run
    BY <1>t DEF WorkerRow
  <2>2. worker[w].pc # "idle"
    BY <1>5 DEF Finish
  <2>3. worker' \in [Worker -> WorkerRow] /\ BusyOK'
    BY <1>5, <1>b, <2>1, <2>2, WorkerMoves DEF Finish
  <2>4. status' \in [RunId -> Status]
    BY <1>5, <1>t DEF Finish, TypeOK, Status
  <2> QED
    BY <1>5, <1>t, <2>3, <2>4 DEF Finish, TypeInv, TypeOK, WorkerRow
<1>6. CASE Release(w)
  <2>1. worker' \in [Worker -> WorkerRow] /\ BusyOK'
    BY <1>6, <1>l DEF Release
  <2>2. lock' \in LockState
    BY <1>6, <1>t, <1>b, LockTypes DEF Release, TypeOK
  <2> QED
    BY <1>6, <1>t, <2>1, <2>2 DEF Release, TypeInv, TypeOK, WorkerRow
<1>7. CASE ClaimUnavailable(w)
  <2>1. worker' \in [Worker -> WorkerRow] /\ BusyOK'
    BY <1>7, <1>l DEF ClaimUnavailable
  <2>2. faults' \in 0 .. MaxFaults
    BY <1>7, <1>t, FaultAssumption DEF ClaimUnavailable, TypeOK, Fault
  <2>3. queue' \subseteq Message
    BY <1>7, <1>t, <1>m DEF ClaimUnavailable, TypeOK
  <2> QED
    BY <1>7, <1>t, <2>1, <2>2, <2>3 DEF ClaimUnavailable, TypeInv, TypeOK, WorkerRow
<1>8. CASE ReleaseUnavailable(w)
  <2>1. worker' \in [Worker -> WorkerRow] /\ BusyOK'
    BY <1>8, <1>l DEF ReleaseUnavailable
  <2>2. faults' \in 0 .. MaxFaults
    BY <1>8, <1>t, FaultAssumption DEF ReleaseUnavailable, TypeOK, Fault
  <2> QED
    BY <1>8, <1>t, <2>1, <2>2 DEF ReleaseUnavailable, TypeInv, TypeOK, WorkerRow
<1>9. CASE Abort(w)
  <2>1. worker' \in [Worker -> WorkerRow] /\ BusyOK'
    BY <1>9, <1>l DEF Abort
  <2>2. faults' \in 0 .. MaxFaults
    BY <1>9, <1>t, FaultAssumption DEF Abort, TypeOK, Fault
  <2>3. lock' \in LockState
    BY <1>9, <1>t, <1>b, LockTypes DEF Abort, TypeOK
  <2> QED
    BY <1>9, <1>t, <2>1, <2>2, <2>3 DEF Abort, TypeInv, TypeOK, WorkerRow
<1>10. CASE Kill(w)
  <2>1. worker' \in [Worker -> WorkerRow] /\ BusyOK'
    BY <1>10, <1>l DEF Kill
  <2>2. faults' \in 0 .. MaxFaults
    BY <1>10, <1>t, FaultAssumption DEF Kill, TypeOK, Fault
  <2>3. queue' \subseteq Message
    BY <1>10, <1>t, <1>m DEF Kill, TypeOK
  <2> QED
    BY <1>10, <1>t, <2>1, <2>2, <2>3 DEF Kill, TypeInv, TypeOK, WorkerRow
<1>11. CASE Redeliver(w)
  <2>1. faults' \in 0 .. MaxFaults
    BY <1>11, <1>t, FaultAssumption DEF Redeliver, TypeOK, Fault
  <2>2. queue' \subseteq Message
    BY <1>11, <1>t, <1>m DEF Redeliver, TypeOK
  <2> QED
    BY <1>11, <1>t, <2>1, <2>2 DEF Redeliver, TypeInv, TypeOK, BusyOK
<1> QED
  BY <1>1, <1>2, <1>3, <1>4, <1>5, <1>6, <1>7, <1>8, <1>9, <1>10, <1>11 DEF WorkerStep

LEMMA TypeInvWatchdog ==
    TypeInv /\ (WatchdogStep \/ WatchdogCrash) => TypeInv'
<1> SUFFICES ASSUME TypeInv, WatchdogStep \/ WatchdogCrash PROVE TypeInv'
  OBVIOUS
<1> USE DEF TypeInv
<1>i. IdleWatchdog \in [stale : SUBSET RunId, age : 0 .. TimeLimit]
  BY LimitAssumption DEF IdleWatchdog
<1>1. CASE WatchdogRead
  BY <1>1, LimitAssumption DEF WatchdogRead, TypeOK, BusyOK
<1>2. ASSUME NEW r \in RunId, WatchdogFail(r) PROVE TypeInv'
  <2>1. status' \in [RunId -> Status]
    BY <1>2 DEF WatchdogFail, FailRows, TypeOK, Status, Outcome
  <2> QED
    BY <1>2, <1>i, <2>1 DEF WatchdogFail, TypeOK, BusyOK
<1>3. CASE WatchdogCrash
  BY <1>3, <1>i, FaultAssumption DEF WatchdogCrash, TypeOK, BusyOK, Fault
<1> QED
  BY <1>1, <1>2, <1>3 DEF WatchdogStep

LEMMA TypeInvTick == TypeInv /\ Tick => TypeInv'
<1> SUFFICES ASSUME TypeInv, Tick PROVE TypeInv'
  OBVIOUS
<1> USE DEF TypeInv
<1>1. lock' \in LockState
  <2>1. FreeLock \in LockState
    BY LockTtlAssumption DEF FreeLock, LockState, LockValue, NoValue
  <2>2. lock.ttl > 1 => [lock EXCEPT !.ttl = @ - 1] \in LockState
    BY LockTtlAssumption DEF LockState, TypeOK
  <2> QED
    BY <2>1, <2>2, LockTtlAssumption DEF Tick, AfterTick, LockState, TypeOK
<1>2. heartbeat' \in [RunId -> 0 .. StaleAfter + 1]
  BY LimitAssumption DEF Tick, TypeOK
<1>3. dispatcher' \in [Dispatcher -> [pc : {"idle", "scan", "create", "publish", "record"},
                                      token : Token \cup {NoToken},
                                      run : RunId \cup {NoRun}, age : 0 .. TimeLimit]]
  <2>1. ASSUME NEW d \in Dispatcher
        PROVE  Older(dispatcher[d]) \in [pc : {"idle", "scan", "create", "publish", "record"},
                                         token : Token \cup {NoToken},
                                         run : RunId \cup {NoRun}, age : 0 .. TimeLimit]
    <3>1. dispatcher[d] \in [pc : {"idle", "scan", "create", "publish", "record"},
                           token : Token \cup {NoToken},
                           run : RunId \cup {NoRun}, age : 0 .. TimeLimit]
      BY DEF TypeOK
    <3>2. CASE dispatcher[d].pc = "idle"
      BY <3>1, <3>2 DEF Older
    <3>3. CASE dispatcher[d].pc # "idle"
      <4>1. dispatcher[d].age + 1 \in 0 .. TimeLimit
        BY <3>1, <3>3, LimitAssumption DEF Tick
      <4>2. Older(dispatcher[d]) = [dispatcher[d] EXCEPT !.age = dispatcher[d].age + 1]
        BY <3>3 DEF Older
      <4> HIDE DEF TypeInv
      <4> QED
        BY <3>1, <4>1, <4>2
    <3> QED
      BY <3>2, <3>3
  <2> QED
    <3>1. dispatcher' = [d \in Dispatcher |-> Older(dispatcher[d])]
      BY DEF Tick
    <3> HIDE DEF TypeInv
    <3> QED
      BY <2>1, <3>1
<1>4. worker' \in [Worker -> [pc : {"idle", "claim", "start", "import", "release"},
                              token : Token \cup {NoToken},
                              run : RunId \cup {NoRun}, age : 0 .. TimeLimit]]
  <2>1. ASSUME NEW w \in Worker
        PROVE  Older(worker[w]) \in [pc : {"idle", "claim", "start", "import", "release"},
                                     token : Token \cup {NoToken},
                                     run : RunId \cup {NoRun}, age : 0 .. TimeLimit]
    <3>1. worker[w] \in [pc : {"idle", "claim", "start", "import", "release"},
                           token : Token \cup {NoToken},
                           run : RunId \cup {NoRun}, age : 0 .. TimeLimit]
      BY DEF TypeOK
    <3>2. CASE worker[w].pc = "idle"
      BY <3>1, <3>2 DEF Older
    <3>3. CASE worker[w].pc # "idle"
      <4>1. worker[w].age + 1 \in 0 .. TimeLimit
        BY <3>1, <3>3, LimitAssumption DEF Tick
      <4>2. Older(worker[w]) = [worker[w] EXCEPT !.age = worker[w].age + 1]
        BY <3>3 DEF Older
      <4> HIDE DEF TypeInv
      <4> QED
        BY <3>1, <4>1, <4>2
    <3> QED
      BY <3>2, <3>3
  <2> QED
    <3>1. worker' = [w \in Worker |-> Older(worker[w])]
      BY DEF Tick
    <3> HIDE DEF TypeInv
    <3> QED
      BY <2>1, <3>1
<1>5. watchdog' \in [stale : SUBSET RunId, age : 0 .. TimeLimit]
  BY LimitAssumption DEF Tick, TypeOK
<1>6. BusyOK'
  BY DEF Tick, TypeOK, BusyOK, Older
<1> QED
  BY <1>1, <1>2, <1>3, <1>4, <1>5, <1>6 DEF Tick, TypeOK

LEMMA TypeInvNext == TypeInv /\ [Next]_vars => TypeInv'
<1> SUFFICES ASSUME TypeInv, [Next]_vars PROVE TypeInv'
  OBVIOUS
<1>1. CASE UNCHANGED vars
  BY <1>1 DEF vars, TypeInv, TypeOK, BusyOK
<1>2. CASE Next
  BY <1>2, TypeInvDispatcher, TypeInvWorker, TypeInvWatchdog, TypeInvTick DEF Next, FaultStep
<1> QED
  BY <1>1, <1>2

(* Type correctness of the whole component.                                *)
THEOREM TypeCorrect == Spec => []TypeOK
<1>1. TypeInv => TypeOK
  BY DEF TypeInv
<1> QED
  BY <1>1, TypeInvInit, TypeInvNext, PTL DEF Spec

-----------------------------------------------------------------------------
(* Mutual exclusion.  A worker in its critical section holds the key with  *)
(* its own running value, and the key's remaining life and the task's age  *)
(* together never fall below LockTtl: the task reaches TimeLimit first.    *)
WorkerHoldsLock ==
    \A w \in Worker : InCriticalSection(w) =>
        /\ lock.value = Running(worker[w].token)
        /\ lock.ttl + worker[w].age >= LockTtl

(* A dispatcher holds the key with its reservation until it has published, *)
(* and until then nothing else carries its token.                          *)
Reserving(d) == dispatcher[d].pc \in {"scan", "create", "publish"}
DispatcherHoldsLock ==
    \A d \in Dispatcher : Reserving(d) =>
        /\ lock.value = Queued(dispatcher[d].token)
        /\ lock.ttl + dispatcher[d].age >= LockTtl
TokenNotPublished ==
    \A d \in Dispatcher : Reserving(d) =>
        /\ \A m \in queue : m.token # dispatcher[d].token
        /\ \A w \in Worker : worker[w].token # dispatcher[d].token
TokensDistinct ==
    \A d, e \in Dispatcher :
        dispatcher[d].pc # "idle" /\ dispatcher[d].token = dispatcher[e].token => d = e

LockInv ==
    /\ MutualExclusion
    /\ WorkerHoldsLock
    /\ DispatcherHoldsLock
    /\ TokenNotPublished
    /\ TokensDistinct

LEMMA LockInvInit == Init => LockInv
BY DEF Init, LockInv, MutualExclusion, WorkerHoldsLock, DispatcherHoldsLock, TokenNotPublished,
       TokensDistinct, InCriticalSection, Reserving, IdleDispatcher, IdleWorker

(* What the dispatchers do to the key leaves a claimed key alone.          *)
LEMMA LockInvDispatcher ==
    TypeInv /\ LockInv /\ (\E d \in Dispatcher : DispatcherStep(d) \/ DispatchCrash(d)) => LockInv'
<1> SUFFICES ASSUME TypeInv, LockInv, NEW d \in Dispatcher, DispatcherStep(d) \/ DispatchCrash(d)
             PROVE  LockInv'
  OBVIOUS
<1> USE DEF LockInv, MutualExclusion, WorkerHoldsLock, DispatcherHoldsLock, TokenNotPublished,
            TokensDistinct, InCriticalSection, Reserving
<1>t. /\ dispatcher \in [Dispatcher -> [pc : {"idle", "scan", "create", "publish", "record"},
                          token : Token \cup {NoToken}, run : RunId \cup {NoRun},
                          age : 0 .. TimeLimit]]
      /\ lock \in LockState
      /\ \A e \in Dispatcher : dispatcher[e].pc # "idle" => dispatcher[e].token \in Token
      /\ \A w \in Worker : worker[w].pc # "idle" => worker[w].token \in Token
      /\ NoToken \notin Token
  BY TokenAssumption DEF TypeInv, TypeOK, BusyOK
<1>1. CASE DispatchRefused(d)
  BY <1>1 DEF DispatchRefused
<1>2. ASSUME NEW t \in Token, DispatchAcquire(d, t) PROVE LockInv'
  <2>1. lock.value = NoValue /\ lock' = Held(Queued(t))
    BY <1>2 DEF DispatchAcquire, CanAcquire, AfterAcquire
  <2>2. \A w \in Worker : ~InCriticalSection(w)
    BY <2>1, <1>t, LockValues
  <2>3. \A e \in Dispatcher : ~Reserving(e)
    BY <2>1, <1>t, LockValues
  <2> QED
    BY <1>2, <1>t, <2>1, <2>2, <2>3, LockTtlAssumption
       DEF DispatchAcquire, Fresh, IdleDispatcher, Held, Queued
<1>3. ASSUME dispatcher' = [dispatcher EXCEPT ![d] = IdleDispatcher],
             lock' = AfterRelease(lock, Queued(dispatcher[d].token)),
             dispatcher[d].pc # "idle", UNCHANGED <<worker, queue>>
      PROVE  LockInv'
  <2>1. \A w \in Worker : InCriticalSection(w) => lock' = lock
    BY <1>3, <1>t, LockValues DEF AfterRelease
  <2>2. \A e \in Dispatcher \ {d} : Reserving(e) => lock' = lock
    BY <1>3, <1>t, LockValues DEF AfterRelease
  <2> QED
    BY <1>3, <1>t, <2>1, <2>2 DEF IdleDispatcher
<1>4. CASE DispatchFoundRunning(d)
  BY <1>3, <1>4 DEF DispatchFoundRunning
<1>5. CASE DispatchFails(d)
  BY <1>3, <1>5 DEF DispatchFails
<1>6. ASSUME NEW r \in RunId, DispatchReuse(d, r) PROVE LockInv'
  BY <1>6, <1>t DEF DispatchReuse
<1>7. CASE DispatchFoundNone(d)
  BY <1>7, <1>t DEF DispatchFoundNone
<1>8. ASSUME NEW r \in RunId, DispatchCreate(d, r) PROVE LockInv'
  BY <1>8, <1>t DEF DispatchCreate
<1>9. CASE DispatchPublish(d)
  BY <1>9, <1>t DEF DispatchPublish
<1>10. CASE DispatchRecord(d)
  BY <1>10, <1>t DEF DispatchRecord, IdleDispatcher
<1>11. CASE DispatchCrash(d)
  BY <1>11, <1>t DEF DispatchCrash, IdleDispatcher
<1> QED
  BY <1>1, <1>2, <1>4, <1>5, <1>6, <1>7, <1>8, <1>9, <1>10, <1>11 DEF DispatcherStep


(* What the workers do: a claim needs a key no critical worker holds.      *)
LEMMA LockInvWorker ==
    TypeInv /\ LockInv /\ (\E w \in Worker : \/ WorkerStep(w) \/ ClaimUnavailable(w)
                                             \/ ReleaseUnavailable(w) \/ Abort(w)
                                             \/ Kill(w) \/ Redeliver(w))
      => LockInv'
<1> SUFFICES ASSUME TypeInv, LockInv, NEW w \in Worker,
                    \/ WorkerStep(w) \/ ClaimUnavailable(w) \/ ReleaseUnavailable(w)
                    \/ Abort(w) \/ Kill(w) \/ Redeliver(w)
             PROVE  LockInv'
  OBVIOUS
<1> USE DEF LockInv, MutualExclusion, WorkerHoldsLock, DispatcherHoldsLock, TokenNotPublished,
            TokensDistinct, InCriticalSection, Reserving
<1>t. /\ worker \in [Worker -> [pc : {"idle", "claim", "start", "import", "release"},
                          token : Token \cup {NoToken}, run : RunId \cup {NoRun},
                          age : 0 .. TimeLimit]]
      /\ lock \in LockState
      /\ queue \subseteq Message
      /\ \A d \in Dispatcher : dispatcher[d].pc # "idle" => dispatcher[d].token \in Token
      /\ \A v \in Worker : worker[v].pc # "idle" => worker[v].token \in Token
      /\ NoToken \notin Token
  BY TokenAssumption DEF TypeInv, TypeOK, BusyOK
(* A worker that ends keeps or gives up its own value, never another's.    *)
<1>e. ASSUME worker' = [worker EXCEPT ![w] = IdleWorker], worker[w].pc # "idle",
             \/ lock' = lock
             \/ InCriticalSection(w) /\ lock' = AfterRelease(lock, Running(worker[w].token)),
             queue' \subseteq queue \cup {MessageOf(w)}, UNCHANGED dispatcher
      PROVE  LockInv'
  <2>1. \A v \in Worker \ {w} : InCriticalSection(v) => lock' = lock
    BY <1>e, <1>t
  <2>2. \A d \in Dispatcher : Reserving(d) => lock' = lock
    BY <1>e, <1>t, LockValues DEF AfterRelease
  <2> QED
    BY <1>e, <1>t, <2>1, <2>2 DEF IdleWorker, MessageOf
<1>1. ASSUME NEW m \in queue, Receive(w, m) PROVE LockInv'
  BY <1>1, <1>t DEF Receive, Message
<1>2. CASE Claim(w)
  <2>1. \A v \in Worker : ~InCriticalSection(v)
    BY <1>2, <1>t, LockValues DEF Claim, CanClaim
  <2>2. \A d \in Dispatcher : ~Reserving(d)
    BY <1>2, <1>t, LockValues DEF Claim, CanClaim
  <2>3. lock' = Held(Running(worker[w].token))
    BY <1>2 DEF Claim, AfterClaim
  <2> QED
    BY <1>2, <1>t, <2>1, <2>2, <2>3, LockTtlAssumption DEF Claim, Held
<1>3. CASE ClaimRefused(w)
  BY <1>3, <1>e DEF ClaimRefused
<1>4. CASE Start(w)
  BY <1>4, <1>t DEF Start
<1>5. ASSUME NEW outcome \in Outcome, Finish(w, outcome) PROVE LockInv'
  BY <1>5, <1>t DEF Finish
<1>6. CASE Release(w)
  BY <1>6, <1>e DEF Release
<1>7. CASE ClaimUnavailable(w)
  BY <1>7, <1>e DEF ClaimUnavailable
<1>8. CASE ReleaseUnavailable(w)
  BY <1>8, <1>e DEF ReleaseUnavailable
<1>9. CASE Abort(w)
  BY <1>9, <1>e DEF Abort
<1>10. CASE Kill(w)
  BY <1>10, <1>e DEF Kill
<1>11. CASE Redeliver(w)
  BY <1>11, <1>t DEF Redeliver, MessageOf
<1> QED
  BY <1>1, <1>2, <1>3, <1>4, <1>5, <1>6, <1>7, <1>8, <1>9, <1>10, <1>11 DEF WorkerStep

LEMMA LockInvWatchdog ==
    LockInv /\ (WatchdogStep \/ WatchdogCrash) => LockInv'
BY DEF WatchdogStep, WatchdogRead, WatchdogFail, WatchdogCrash, LockInv, MutualExclusion,
       WorkerHoldsLock, DispatcherHoldsLock, TokenNotPublished, TokensDistinct,
       InCriticalSection, Reserving

(* Time: a process that may still live through a tick is younger than      *)
(* TimeLimit, so the key it holds has more than one unit left.             *)
LEMMA LockInvTick == TypeInv /\ LockInv /\ Tick => LockInv'
<1> SUFFICES ASSUME TypeInv, LockInv, Tick PROVE LockInv'
  OBVIOUS
<1>t. /\ dispatcher \in [Dispatcher -> [pc : {"idle", "scan", "create", "publish", "record"},
                          token : Token \cup {NoToken}, run : RunId \cup {NoRun},
                          age : 0 .. TimeLimit]]
      /\ worker \in [Worker -> [pc : {"idle", "claim", "start", "import", "release"},
                          token : Token \cup {NoToken}, run : RunId \cup {NoRun},
                          age : 0 .. TimeLimit]]
      /\ lock \in LockState
  BY DEF TypeInv, TypeOK
<1>1. ASSUME NEW n \in 0 .. TimeLimit, n < TimeLimit, lock.ttl + n >= LockTtl
      PROVE  lock'.value = lock.value /\ lock'.ttl + (n + 1) >= LockTtl
  <2>1. lock.ttl \in Nat /\ lock.ttl > 1 /\ lock.ttl - 1 \in Nat
    BY <1>1, <1>t, LimitAssumption, LockTtlAssumption DEF LockState
  <2>2. lock' = [lock EXCEPT !.ttl = lock.ttl - 1]
    BY <2>1 DEF Tick, AfterTick
  <2>3. lock'.value = lock.value /\ lock'.ttl = lock.ttl - 1
    BY <2>2, <1>t DEF LockState
  <2> QED
    BY <2>1, <2>3, <1>1, LimitAssumption, LockTtlAssumption
<1>2. /\ \A w \in Worker : /\ worker'[w].pc = worker[w].pc
                           /\ worker'[w].token = worker[w].token
                           /\ worker[w].pc # "idle" => /\ worker[w].age < TimeLimit
                                                       /\ worker'[w].age = worker[w].age + 1
      /\ \A d \in Dispatcher : /\ dispatcher'[d].pc = dispatcher[d].pc
                               /\ dispatcher'[d].token = dispatcher[d].token
                               /\ dispatcher[d].pc # "idle" =>
                                     /\ dispatcher[d].age < TimeLimit
                                     /\ dispatcher'[d].age = dispatcher[d].age + 1
  BY <1>t DEF Tick, Older
<1>3. MutualExclusion'
  BY <1>2 DEF LockInv, MutualExclusion, InCriticalSection
<1>4. WorkerHoldsLock'
  <2> SUFFICES ASSUME NEW w \in Worker, InCriticalSection(w)'
               PROVE  /\ lock'.value = Running(worker'[w].token)
                      /\ lock'.ttl + worker'[w].age >= LockTtl
    BY DEF WorkerHoldsLock
  <2>1. InCriticalSection(w) /\ worker[w].pc # "idle"
    BY <1>2 DEF InCriticalSection
  <2>2. worker[w].age \in 0 .. TimeLimit
    BY <1>t
  <2> QED
    BY <2>1, <2>2, <1>1, <1>2 DEF LockInv, WorkerHoldsLock
<1>5. DispatcherHoldsLock'
  <2> SUFFICES ASSUME NEW d \in Dispatcher, Reserving(d)'
               PROVE  /\ lock'.value = Queued(dispatcher'[d].token)
                      /\ lock'.ttl + dispatcher'[d].age >= LockTtl
    BY DEF DispatcherHoldsLock
  <2>1. Reserving(d) /\ dispatcher[d].pc # "idle"
    BY <1>2 DEF Reserving
  <2>2. dispatcher[d].age \in 0 .. TimeLimit
    BY <1>t
  <2> QED
    BY <2>1, <2>2, <1>1, <1>2 DEF LockInv, DispatcherHoldsLock
<1>6. TokenNotPublished' /\ TokensDistinct'
  BY <1>2 DEF LockInv, TokenNotPublished, TokensDistinct, Reserving, Tick
<1> QED
  BY <1>3, <1>4, <1>5, <1>6 DEF LockInv

LEMMA LockInvNext == TypeInv /\ LockInv /\ [Next]_vars => LockInv'
<1> SUFFICES ASSUME TypeInv, LockInv, [Next]_vars PROVE LockInv'
  OBVIOUS
<1>1. CASE UNCHANGED vars
  BY <1>1 DEF vars, LockInv, MutualExclusion, WorkerHoldsLock, DispatcherHoldsLock,
              TokenNotPublished, TokensDistinct, InCriticalSection, Reserving
<1>2. CASE Next
  BY <1>2, LockInvDispatcher, LockInvWorker, LockInvWatchdog, LockInvTick DEF Next, FaultStep
<1> QED
  BY <1>1, <1>2

(* At most one worker is in its critical section, for every number of      *)
(* processes, duplicate deliveries and crashes.                            *)
THEOREM MutualExclusionHolds == Spec => []MutualExclusion
<1>1. LockInv => MutualExclusion
  BY DEF LockInv
<1> QED
  BY <1>1, TypeInvInit, TypeInvNext, LockInvInit, LockInvNext, PTL DEF Spec

-----------------------------------------------------------------------------
(* Audit rows.  A row that a message, a worker or a dispatcher names       *)
(* exists; a row the watchdog is about to fail was started; the row a      *)
(* worker imports for has a heartbeat no older than the task; and while a  *)
(* dispatcher is about to create a row, no row is live.                    *)
RowsExist ==
    /\ \A m \in queue : status[m.run] # "NONE"
    /\ \A w \in Worker : worker[w].pc # "idle" => status[worker[w].run] # "NONE"
    /\ \A d \in Dispatcher :
         dispatcher[d].pc \in {"publish", "record"} => status[dispatcher[d].run] # "NONE"
StaleRowsStarted == \A r \in watchdog.stale : status[r] \notin {"NONE", "QUEUED"}
HeartbeatYoungerThanTask ==
    \A w \in Worker : worker[w].pc = "import" => heartbeat[worker[w].run] <= worker[w].age
NoLiveRowWhenCreating ==
    \A d \in Dispatcher : dispatcher[d].pc = "create" => \A r \in RunId : status[r] \notin Live

RowInv ==
    /\ RowsExist
    /\ StaleRowsStarted
    /\ HeartbeatYoungerThanTask
    /\ NoLiveRowWhenCreating

LEMMA RowInvInit == Init => RowInv
BY DEF Init, RowInv, RowsExist, StaleRowsStarted, HeartbeatYoungerThanTask,
       NoLiveRowWhenCreating, IdleDispatcher, IdleWorker, IdleWatchdog

(* Failing rows that were started keeps every part but the local states.   *)
LEMMA FailRowsKeeps ==
    ASSUME TypeInv, NEW S \in SUBSET RunId, FailRows(S),
           \A r \in S : status[r] \notin {"NONE", "QUEUED"}
    PROVE  /\ \A r \in RunId : status[r] # "NONE" => status'[r] # "NONE"
           /\ \A r \in RunId : status'[r] \in Live => status[r] \in Live
           /\ \A r \in RunId : status'[r] \in {"NONE", "QUEUED"} => status'[r] = status[r]
BY DEF FailRows, TypeInv, TypeOK, Live

LEMMA RowInvDispatcher ==
    TypeInv /\ LockInv /\ RowInv
      /\ (\E d \in Dispatcher : DispatcherStep(d) \/ DispatchCrash(d)) => RowInv'
<1> SUFFICES ASSUME TypeInv, LockInv, RowInv,
                    NEW d \in Dispatcher, DispatcherStep(d) \/ DispatchCrash(d)
             PROVE  RowInv'
  OBVIOUS
<1> USE DEF RowInv, RowsExist, StaleRowsStarted, HeartbeatYoungerThanTask, NoLiveRowWhenCreating
<1>t. /\ dispatcher \in [Dispatcher -> [pc : {"idle", "scan", "create", "publish", "record"},
                          token : Token \cup {NoToken}, run : RunId \cup {NoRun},
                          age : 0 .. TimeLimit]]
      /\ status \in [RunId -> Status]
      /\ queue \subseteq Message
      /\ watchdog.stale \subseteq RunId
      /\ \A w \in Worker : worker[w].pc # "idle" => worker[w].run \in RunId
      /\ \A e \in Dispatcher : dispatcher[e].pc \in {"publish", "record"} =>
                               dispatcher[e].run \in RunId
  BY DEF TypeInv, TypeOK, BusyOK
<1>f. ASSUME FailRows(RetiredOnSight)
      PROVE  /\ \A r \in RunId : status[r] # "NONE" => status'[r] # "NONE"
             /\ \A r \in RunId : status'[r] \in Live => status[r] \in Live
             /\ \A r \in RunId : status'[r] \in {"NONE", "QUEUED"} => status'[r] = status[r]
  BY <1>f, FailRowsKeeps DEF RetiredOnSight, IsStale
<1>1. CASE DispatchRefused(d)
  BY <1>1, <1>f, <1>t DEF DispatchRefused, Message
<1>2. ASSUME NEW t \in Token, DispatchAcquire(d, t) PROVE RowInv'
  BY <1>2, <1>t DEF DispatchAcquire, IdleDispatcher
<1>3. CASE DispatchFoundRunning(d)
  BY <1>3, <1>f, <1>t DEF DispatchFoundRunning, Message, IdleDispatcher
<1>4. ASSUME NEW r \in RunId, DispatchReuse(d, r) PROVE RowInv'
  BY <1>4, <1>f, <1>t DEF DispatchReuse, Message
<1>5. CASE DispatchFoundNone(d)
  <2>1. \A r \in RunId : status'[r] \notin Live
    BY <1>5, <1>t DEF DispatchFoundNone, FailRows, RetiredOnSight, LiveRuns, IsStale, Live
  <2> QED
    BY <1>5, <1>f, <1>t, <2>1 DEF DispatchFoundNone, Message
<1>6. ASSUME NEW r \in RunId, DispatchCreate(d, r) PROVE RowInv'
  <2>1. \A e \in Dispatcher \ {d} : dispatcher[e].pc # "create"
    <3> SUFFICES ASSUME NEW e \in Dispatcher \ {d}, dispatcher[e].pc = "create" PROVE FALSE
      OBVIOUS
    <3>1. Queued(dispatcher[d].token) = Queued(dispatcher[e].token)
      BY <1>6 DEF DispatchCreate, LockInv, DispatcherHoldsLock, Reserving
    <3>2. dispatcher[d].token = dispatcher[e].token
      BY <3>1 DEF Queued
    <3> QED
      BY <3>2 DEF LockInv, TokensDistinct
  <2>2. \A s \in RunId : status[s] # "NONE" => status'[s] # "NONE"
    BY <1>6, <1>t DEF DispatchCreate
  <2>3. \A s \in watchdog.stale : status'[s] = status[s]
    <3>1. status[r] = "NONE"
      BY <1>6, RunAssumption DEF DispatchCreate, RunId
    <3> QED
      BY <1>6, <1>t, <3>1 DEF DispatchCreate
  <2> QED
    BY <1>6, <1>t, <2>1, <2>2, <2>3 DEF DispatchCreate, Message
<1>7. CASE DispatchPublish(d)
  BY <1>7, <1>t DEF DispatchPublish
<1>8. CASE DispatchRecord(d)
  BY <1>8, <1>t DEF DispatchRecord, IdleDispatcher
<1>9. CASE DispatchFails(d)
  BY <1>9, <1>t DEF DispatchFails, IdleDispatcher
<1>10. CASE DispatchCrash(d)
  BY <1>10, <1>t DEF DispatchCrash, IdleDispatcher
<1> QED
  BY <1>1, <1>2, <1>3, <1>4, <1>5, <1>6, <1>7, <1>8, <1>9, <1>10 DEF DispatcherStep

LEMMA RowInvWorker ==
    TypeInv /\ LockInv /\ RowInv
      /\ (\E w \in Worker : \/ WorkerStep(w) \/ ClaimUnavailable(w)
                            \/ ReleaseUnavailable(w) \/ Abort(w)
                            \/ Kill(w) \/ Redeliver(w))
      => RowInv'
<1> SUFFICES ASSUME TypeInv, LockInv, RowInv, NEW w \in Worker,
                    \/ WorkerStep(w) \/ ClaimUnavailable(w) \/ ReleaseUnavailable(w)
                    \/ Abort(w) \/ Kill(w) \/ Redeliver(w)
             PROVE  RowInv'
  OBVIOUS
<1> USE DEF RowInv, RowsExist, StaleRowsStarted, HeartbeatYoungerThanTask, NoLiveRowWhenCreating
<1>t. /\ worker \in [Worker -> [pc : {"idle", "claim", "start", "import", "release"},
                          token : Token \cup {NoToken}, run : RunId \cup {NoRun},
                          age : 0 .. TimeLimit]]
      /\ status \in [RunId -> Status]
      /\ heartbeat \in [RunId -> 0 .. StaleAfter + 1]
      /\ queue \subseteq Message
      /\ watchdog.stale \subseteq RunId
      /\ \A v \in Worker : worker[v].pc # "idle" => worker[v].run \in RunId
      /\ \A d \in Dispatcher : dispatcher[d].pc \in {"publish", "record"} =>
                               dispatcher[d].run \in RunId
      /\ TimeLimit \in Nat /\ StaleAfter \in Nat
  BY LimitAssumption DEF TypeInv, TypeOK, BusyOK
(* No dispatcher is about to create a row while a worker is critical.      *)
<1>c. InCriticalSection(w) => \A d \in Dispatcher : dispatcher[d].pc # "create"
  <2>1. InCriticalSection(w) => lock.value.mode = "running"
    <3>1. InCriticalSection(w) => lock.value = Running(worker[w].token)
      BY DEF LockInv, WorkerHoldsLock, InCriticalSection
    <3>2. Running(worker[w].token).mode = "running"
      BY DEF Running
    <3> QED
      BY <3>1, <3>2 DEF InCriticalSection
  <2>2. \A d \in Dispatcher : dispatcher[d].pc = "create" => lock.value.mode = "queued"
    <3> SUFFICES ASSUME NEW d \in Dispatcher, dispatcher[d].pc = "create"
                 PROVE  lock.value.mode = "queued"
      OBVIOUS
    <3>1. lock.value = Queued(dispatcher[d].token)
      BY DEF LockInv, DispatcherHoldsLock, Reserving
    <3> QED
      BY <3>1 DEF Queued
  <2> QED
    BY <2>1, <2>2
<1>e. ASSUME worker' = [worker EXCEPT ![w] = IdleWorker], worker[w].pc # "idle",
             queue' \subseteq queue \cup {MessageOf(w)},
             UNCHANGED <<status, heartbeat, dispatcher, watchdog>>
      PROVE  RowInv'
  BY <1>e, <1>t DEF IdleWorker, MessageOf
<1>1. ASSUME NEW m \in queue, Receive(w, m) PROVE RowInv'
  BY <1>1, <1>t DEF Receive, Message
<1>2. CASE Claim(w)
  BY <1>2, <1>t DEF Claim
<1>3. CASE ClaimRefused(w)
  BY <1>3, <1>e DEF ClaimRefused
<1>4. CASE Start(w)
  <2>1. \A r \in RunId : status[r] # "NONE" => status'[r] # "NONE"
    BY <1>4, <1>t DEF Start
  <2>2. HeartbeatYoungerThanTask'
    BY <1>4, <1>t DEF Start
  <2>3. StaleRowsStarted'
    BY <1>4, <1>t DEF Start
  <2> QED
    BY <1>4, <1>c, <1>t, <2>1, <2>2, <2>3 DEF Start, InCriticalSection, Message
<1>5. ASSUME NEW outcome \in Outcome, Finish(w, outcome) PROVE RowInv'
  <2>1. \A r \in RunId : status[r] # "NONE" => status'[r] # "NONE"
    BY <1>5, <1>t DEF Finish, Outcome
  <2>2. StaleRowsStarted'
    BY <1>5, <1>t DEF Finish, Outcome
  <2> QED
    BY <1>5, <1>c, <1>t, <2>1, <2>2 DEF Finish, InCriticalSection, Message
<1>6. CASE Release(w)
  BY <1>6, <1>e DEF Release
<1>7. CASE ClaimUnavailable(w)
  BY <1>7, <1>e DEF ClaimUnavailable
<1>8. CASE ReleaseUnavailable(w)
  BY <1>8, <1>e DEF ReleaseUnavailable
<1>9. CASE Abort(w)
  BY <1>9, <1>e DEF Abort
<1>10. CASE Kill(w)
  BY <1>10, <1>e DEF Kill
<1>11. CASE Redeliver(w)
  BY <1>11, <1>t DEF Redeliver, MessageOf
<1> QED
  BY <1>1, <1>2, <1>3, <1>4, <1>5, <1>6, <1>7, <1>8, <1>9, <1>10, <1>11 DEF WorkerStep

LEMMA RowInvWatchdog ==
    TypeInv /\ RowInv /\ (WatchdogStep \/ WatchdogCrash) => RowInv'
<1> SUFFICES ASSUME TypeInv, RowInv, WatchdogStep \/ WatchdogCrash PROVE RowInv'
  OBVIOUS
<1> USE DEF RowInv, RowsExist, StaleRowsStarted, HeartbeatYoungerThanTask, NoLiveRowWhenCreating
<1>1. CASE WatchdogRead
  BY <1>1 DEF WatchdogRead, IsStale
<1>2. ASSUME NEW r \in RunId, WatchdogFail(r) PROVE RowInv'
  <2>1. /\ \A s \in RunId : status[s] # "NONE" => status'[s] # "NONE"
        /\ \A s \in RunId : status'[s] \in Live => status[s] \in Live
        /\ \A s \in RunId : status'[s] \in {"NONE", "QUEUED"} => status'[s] = status[s]
    BY <1>2, FailRowsKeeps DEF WatchdogFail
  <2>2. watchdog'.stale \subseteq watchdog.stale /\ watchdog.stale \subseteq RunId
    BY <1>2 DEF WatchdogFail, IdleWatchdog, TypeInv, TypeOK
  <2> QED
    BY <1>2, <2>1, <2>2 DEF WatchdogFail, TypeInv, TypeOK, BusyOK, Message
<1>3. CASE WatchdogCrash
  BY <1>3 DEF WatchdogCrash, IdleWatchdog
<1> QED
  BY <1>1, <1>2, <1>3 DEF WatchdogStep

LEMMA RowInvTick == TypeInv /\ RowInv /\ Tick => RowInv'
<1> SUFFICES ASSUME TypeInv, RowInv, Tick PROVE RowInv'
  OBVIOUS
<1> USE DEF RowInv, RowsExist, StaleRowsStarted, HeartbeatYoungerThanTask, NoLiveRowWhenCreating
<1>1. HeartbeatYoungerThanTask'
  BY LimitAssumption DEF Tick, Older, TypeInv, TypeOK, BusyOK
<1>2. RowsExist' /\ NoLiveRowWhenCreating'
  BY DEF Tick, Older, TypeInv, TypeOK
<1>3. StaleRowsStarted'
  BY DEF Tick, TypeInv, TypeOK
<1> QED
  BY <1>1, <1>2, <1>3

LEMMA RowInvNext == TypeInv /\ LockInv /\ RowInv /\ [Next]_vars => RowInv'
<1> SUFFICES ASSUME TypeInv, LockInv, RowInv, [Next]_vars PROVE RowInv'
  OBVIOUS
<1>1. CASE UNCHANGED vars
  BY <1>1 DEF vars, RowInv, RowsExist, StaleRowsStarted, HeartbeatYoungerThanTask,
              NoLiveRowWhenCreating
<1>2. CASE Next
  BY <1>2, RowInvDispatcher, RowInvWorker, RowInvWatchdog, RowInvTick DEF Next, FaultStep
<1> QED
  BY <1>1, <1>2

(* The row of a live import never looks stale: its heartbeat is no older   *)
(* than the task, and the task's limit is below the staleness threshold.   *)
THEOREM LiveImportNeverLooksStaleHolds == Spec => []LiveImportNeverLooksStale
<1>1. TypeInv /\ RowInv => LiveImportNeverLooksStale
  BY LimitAssumption DEF RowInv, HeartbeatYoungerThanTask, LiveImportNeverLooksStale, IsStale,
                         TypeInv, TypeOK, BusyOK
<1> QED
  BY <1>1, TypeInvInit, TypeInvNext, LockInvInit, LockInvNext, RowInvInit, RowInvNext, PTL
     DEF Spec

Inv == TypeInv /\ LockInv /\ RowInv

LEMMA InvAlways == Spec => []Inv
<1>1. Init => Inv
  BY TypeInvInit, LockInvInit, RowInvInit DEF Inv
<1>2. Inv /\ [Next]_vars => Inv'
  BY TypeInvNext, LockInvNext, RowInvNext DEF Inv
<1> QED
  BY <1>1, <1>2, PTL DEF Spec

-----------------------------------------------------------------------------
(* Every step shows on the audit rows as nothing, as the failing of rows   *)
(* that were started, as a creation, or as a worker's start or finish.     *)
LEMMA StepKinds ==
    ASSUME Inv, Next
    PROVE  \/ UNCHANGED status
           \/ \E S \in SUBSET RunId : /\ \A r \in S : status[r] \notin {"NONE", "QUEUED"}
                                      /\ FailRows(S)
                                      /\ UNCHANGED worker
           \/ \E d \in Dispatcher, r \in RunId : DispatchCreate(d, r)
           \/ \E w \in Worker : Start(w)
           \/ \E w \in Worker, outcome \in Outcome : Finish(w, outcome)
<1>1. RetiredOnSight \in SUBSET RunId /\ \A r \in RetiredOnSight : status[r] \notin {"NONE", "QUEUED"}
  BY DEF RetiredOnSight, IsStale
<1>2. CASE \E d \in Dispatcher : DispatcherStep(d) \/ DispatchCrash(d)
  BY <1>1, <1>2 DEF DispatcherStep, DispatchRefused, DispatchAcquire, DispatchFoundRunning,
     DispatchReuse, DispatchFoundNone, DispatchPublish, DispatchRecord, DispatchFails, DispatchCrash
<1>3. CASE \E w \in Worker : \/ WorkerStep(w) \/ ClaimUnavailable(w) \/ ReleaseUnavailable(w)
                             \/ Abort(w) \/ Kill(w) \/ Redeliver(w)
  BY <1>3 DEF WorkerStep, Receive, Claim, ClaimRefused, Release, ClaimUnavailable,
     ReleaseUnavailable, Abort, Kill, Redeliver
<1>4. CASE WatchdogStep \/ WatchdogCrash
  <2>1. ASSUME NEW r \in RunId, WatchdogFail(r)
        PROVE  /\ {r} \in SUBSET RunId
               /\ \A s \in {r} : status[s] \notin {"NONE", "QUEUED"}
               /\ FailRows({r})
               /\ UNCHANGED worker
    BY <2>1 DEF WatchdogFail, Inv, RowInv, StaleRowsStarted
  <2> QED
    BY <1>4, <2>1 DEF WatchdogStep, WatchdogRead, WatchdogCrash
<1>5. CASE Tick
  BY <1>5 DEF Tick
<1> QED
  BY <1>2, <1>3, <1>4, <1>5 DEF Next, FaultStep

(* A row is created only when no row of the cadastre is queued or running. *)
THEOREM CreatedOnlyWhenIdleHolds == Spec => CreatedOnlyWhenIdle
<1> DEFINE Idle == \A r \in RunId : status[r] = "NONE" /\ status'[r] = "QUEUED"
                     => \A s \in RunId : status[s] \notin Live
<1>1. Inv /\ [Next]_vars => [Idle]_vars
  <2> SUFFICES ASSUME Inv, Next, NEW r \in RunId, status[r] = "NONE", status'[r] = "QUEUED",
                      NEW s \in RunId
               PROVE  status[s] \notin Live
    OBVIOUS
  <2>t. status \in [RunId -> Status] /\ \A w \in Worker : worker[w].pc # "idle" => worker[w].run \in RunId
    BY DEF Inv, TypeInv, TypeOK, BusyOK
  <2>1. ASSUME NEW S \in SUBSET RunId, FailRows(S) PROVE FALSE
    BY <2>1, <2>t DEF FailRows
  <2>2. ASSUME NEW d \in Dispatcher, NEW q \in RunId, DispatchCreate(d, q)
        PROVE  status[s] \notin Live
    BY <2>2 DEF DispatchCreate, Inv, RowInv, NoLiveRowWhenCreating
  <2>3. ASSUME NEW w \in Worker, Start(w) PROVE FALSE
    BY <2>3, <2>t DEF Start
  <2>4. ASSUME NEW w \in Worker, NEW outcome \in Outcome, Finish(w, outcome) PROVE FALSE
    BY <2>4, <2>t DEF Finish, Outcome
  <2> QED
    BY StepKinds, <2>1, <2>2, <2>3, <2>4
<1> QED
  BY <1>1, InvAlways, PTL DEF CreatedOnlyWhenIdle, Spec

(* The component implements SingleWriter: every step is one of its steps   *)
(* or changes neither the rows nor who imports.                            *)
Job(v) == IF worker[v].pc = "import" THEN worker[v].run ELSE NoRun

LEMMA StartIsBegin ==
    ASSUME Inv, NEW w \in Worker, Start(w)
    PROVE  SW!Begin(w, worker[w].run)
<1>t. /\ worker \in [Worker -> [pc : {"idle", "claim", "start", "import", "release"},
                          token : Token \cup {NoToken}, run : RunId \cup {NoRun},
                          age : 0 .. TimeLimit]]
      /\ worker[w].run \in RunId /\ worker[w].pc = "start"
  BY DEF Inv, TypeInv, TypeOK, BusyOK, Start
<1>1. \A v \in Worker : worker[v].pc # "import"
  BY <1>t DEF Inv, LockInv, MutualExclusion, InCriticalSection
<1>2. status[worker[w].run] # "NONE"
  BY <1>t DEF Inv, RowInv, RowsExist
<1>3. \A v \in Worker : worker'[v] = IF v = w THEN [worker[w] EXCEPT !.pc = "import"]
                                     ELSE worker[v]
  BY <1>t DEF Start
<1>4. worker'[w].pc = "import" /\ worker'[w].run = worker[w].run
  BY <1>3, <1>t
<1> QED
  BY <1>1, <1>2, <1>3, <1>4, <1>t DEF Start, SW!Begin

LEMMA FinishIsReport ==
    ASSUME Inv, NEW w \in Worker, NEW outcome \in Outcome, Finish(w, outcome)
    PROVE  SW!Report(w, outcome)
<1>t. /\ worker \in [Worker -> [pc : {"idle", "claim", "start", "import", "release"},
                          token : Token \cup {NoToken}, run : RunId \cup {NoRun},
                          age : 0 .. TimeLimit]]
      /\ worker[w].run \in RunId /\ worker[w].pc = "import"
  BY DEF Inv, TypeInv, TypeOK, BusyOK, Finish
<1>1. worker[w].run # NoRun
  BY <1>t, RunAssumption DEF RunId, NoRun
<1>2. \A v \in Worker : worker'[v].pc = IF v = w THEN "release" ELSE worker[v].pc
  BY <1>t DEF Finish
<1>3. \A v \in Worker \ {w} : worker'[v] = worker[v]
  BY <1>t DEF Finish
<1> QED
  BY <1>1, <1>2, <1>3, <1>t DEF Finish, SW!Report

(* A step that leaves the rows alone leaves every job alone or ends one.   *)
LEMMA OtherStepsLeave ==
    ASSUME Inv, Next, UNCHANGED status,
           ~(\E w \in Worker : Start(w)),
           ~(\E w \in Worker, outcome \in Outcome : Finish(w, outcome))
    PROVE  SW!Next \/ UNCHANGED SW!vars
<1>t. /\ worker \in [Worker -> [pc : {"idle", "claim", "start", "import", "release"},
                          token : Token \cup {NoToken}, run : RunId \cup {NoRun},
                          age : 0 .. TimeLimit]]
      /\ \A w \in Worker : worker[w].pc # "idle" => worker[w].run \in RunId
  BY DEF Inv, TypeInv, TypeOK, BusyOK
<1>same. ASSUME \A v \in Worker : Job(v)' = Job(v) PROVE UNCHANGED SW!vars
  BY <1>same DEF SW!vars, Job
<1>1. CASE UNCHANGED worker
  BY <1>1, <1>same DEF Job
<1>2. ASSUME NEW w \in Worker, worker' = [worker EXCEPT ![w] = IdleWorker]
      PROVE  SW!Next \/ UNCHANGED SW!vars
  <2>1. \A v \in Worker \ {w} : worker'[v] = worker[v]
    BY <1>2, <1>t
  <2>2. worker'[w].pc = "idle"
    BY <1>2, <1>t DEF IdleWorker
  <2>3. CASE worker[w].pc = "import"
    <3>1. worker[w].run # NoRun
      BY <1>t, <2>3, RunAssumption DEF RunId, NoRun
    <3>2. SW!Leave(w)
      BY <2>1, <2>2, <2>3, <3>1 DEF SW!Leave
    <3> QED
      BY <3>2 DEF SW!Next
  <2>4. CASE worker[w].pc # "import"
    BY <1>same, <2>1, <2>2, <2>4 DEF Job
  <2> QED
    BY <2>3, <2>4
<1>3. ASSUME NEW w \in Worker, NEW p \in {"claim", "start"}, worker'[w].pc = p,
             worker[w].pc # "import", \A v \in Worker \ {w} : worker'[v] = worker[v]
      PROVE  UNCHANGED SW!vars
  BY <1>3, <1>same DEF Job
<1>4. CASE Tick
  <2>1. \A v \in Worker : worker'[v].pc = worker[v].pc /\ worker'[v].run = worker[v].run
    BY <1>4, <1>t DEF Tick, Older
  <2> QED
    BY <2>1, <1>same DEF Job
<1>5. ASSUME NEW w \in Worker, NEW m \in queue, Receive(w, m)
      PROVE  SW!Next \/ UNCHANGED SW!vars
  <2>1. CASE worker' = worker
    BY <2>1, <1>1
  <2>2. CASE worker' # worker
    BY <1>5, <1>3, <1>t, <2>2 DEF Receive
  <2> QED
    BY <2>1, <2>2
<1>6. ASSUME NEW w \in Worker, Claim(w) PROVE SW!Next \/ UNCHANGED SW!vars
  BY <1>6, <1>3, <1>t DEF Claim
<1>7. CASE \E d \in Dispatcher : DispatcherStep(d) \/ DispatchCrash(d)
  <2>1. UNCHANGED worker
    BY <1>7 DEF DispatcherStep, DispatchRefused, DispatchAcquire, DispatchFoundRunning,
       DispatchReuse, DispatchFoundNone, DispatchCreate, DispatchPublish, DispatchRecord,
       DispatchFails, DispatchCrash
  <2> QED
    BY <2>1, <1>1
<1>8. CASE \E w \in Worker : \/ WorkerStep(w) \/ ClaimUnavailable(w) \/ ReleaseUnavailable(w)
                             \/ Abort(w) \/ Kill(w) \/ Redeliver(w)
  BY <1>1, <1>2, <1>5, <1>6, <1>8 DEF WorkerStep, ClaimRefused, Release, ClaimUnavailable,
     ReleaseUnavailable, Abort, Kill, Redeliver
<1>9. CASE WatchdogStep \/ WatchdogCrash
  <2>1. UNCHANGED worker
    BY <1>9 DEF WatchdogStep, WatchdogRead, WatchdogFail, WatchdogCrash
  <2> QED
    BY <2>1, <1>1
<1> QED
  BY <1>4, <1>7, <1>8, <1>9 DEF Next, FaultStep

THEOREM ImplementsSingleWriterHolds == Spec => ImplementsSingleWriter
<1>1. Init => SW!Init
  BY DEF Init, SW!Init, IdleWorker
<1>2. Inv /\ [Next]_vars => [SW!Next]_(SW!vars)
  <2>1. CASE UNCHANGED vars
    BY <2>1 DEF vars, SW!vars
  <2>2. ASSUME Inv, Next PROVE SW!Next \/ UNCHANGED SW!vars
    <3>1. ASSUME NEW S \in SUBSET RunId, \A r \in S : status[r] \notin {"NONE", "QUEUED"},
                 FailRows(S), UNCHANGED worker
          PROVE  SW!PresumeLost(S)
      BY <3>1 DEF FailRows, SW!PresumeLost
    <3>2. ASSUME NEW d \in Dispatcher, NEW r \in RunId, DispatchCreate(d, r)
          PROVE  SW!Request(r)
      <4>1. status[r] = "NONE"
        BY <3>2, RunAssumption DEF DispatchCreate, RunId
      <4>2. \A s \in RunId : status[s] \notin {"QUEUED", "RUNNING"}
        BY <2>2, <3>2 DEF DispatchCreate, Inv, RowInv, NoLiveRowWhenCreating, Live
      <4> QED
        BY <3>2, <4>1, <4>2 DEF DispatchCreate, SW!Request
    <3>3. ASSUME NEW w \in Worker, Start(w) PROVE SW!Next
      <4>1. worker[w].run \in RunId
        BY <2>2, <3>3 DEF Start, Inv, TypeInv, BusyOK
      <4>2. SW!Begin(w, worker[w].run)
        BY <2>2, <3>3, StartIsBegin
      <4>3. \E v \in Worker, r \in RunId : SW!Begin(v, r)
        BY <4>1, <4>2 DEF SW!Begin
      <4> QED
        BY <4>3 DEF SW!Next
    <3>4. ASSUME NEW w \in Worker, NEW outcome \in Outcome, Finish(w, outcome)
          PROVE  SW!Next
      <4>1. SW!Report(w, outcome)
        BY <2>2, <3>4, FinishIsReport
      <4> QED
        BY <4>1 DEF SW!Next, Outcome
    <3> QED
      BY <2>2, StepKinds, OtherStepsLeave, <3>1, <3>2, <3>3, <3>4 DEF SW!Next
  <2> QED
    BY <2>1, <2>2
<1> QED
  BY <1>1, <1>2, InvAlways, PTL DEF ImplementsSingleWriter, SW!Spec, Spec
=============================================================================
