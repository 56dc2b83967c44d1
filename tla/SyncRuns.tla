------------------------------ MODULE SyncRuns -------------------------------
(***************************************************************************)
(* What the synchronisations in the background share: the pool of worker   *)
(* processes, the audit rows of their runs (DataSyncRun) and the time      *)
(* limits of the settings.  Each synchronisation has its own lock, rows    *)
(* and messages.                                                           *)
(*                                                                         *)
(* Time is counted in units of the Celery hard limit (300 s by default):   *)
(* TimeLimit = 1, LockTtl = 3, StaleAfter = 4.                             *)
(***************************************************************************)
EXTENDS SingleFlight, FiniteSets

CONSTANTS
    Worker,      \* Celery worker processes
    MaxRuns,     \* bound: audit rows that may ever be created
    TimeLimit,   \* CELERY_TASK_TIME_LIMIT: no task or request lives longer
    StaleAfter   \* FORESTIQ_SYNC_RUN_STALE_SECONDS

ASSUME RunAssumption == MaxRuns \in Nat
(* settings.py: 300 s < 900 s and 300 s < 1200 s. *)
ASSUME LimitAssumption ==
    /\ TimeLimit \in Nat
    /\ StaleAfter \in Nat
    /\ TimeLimit < LockTtl
    /\ TimeLimit < StaleAfter

RunId == 1 .. MaxRuns
NoRun == 0
=============================================================================
