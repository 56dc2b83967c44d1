------------------------------ MODULE DeltaCheck ------------------------------
(***************************************************************************)
(* The hourly delta check of one organization                              *)
(* (run_metsaregister_delta_check, import_metsaregister_delta): a check    *)
(* asks for the allocations registered since a little before the end of    *)
(* the last successful check, and stores them one after the other while    *)
(* new ones are being registered.                                          *)
(*                                                                         *)
(* Checks do not overlap (SingleFlight).  Time is counted from a moment    *)
(* before the first check; both clocks agree and the provider shows an     *)
(* allocation at the time it stamps it with.                               *)
(***************************************************************************)
EXTENDS Naturals

CONSTANTS
    Allocation,  \* allocations that are registered sooner or later
    MaxTime,     \* bound: clock
    Lookback,    \* FORESTIQ_METSAREGISTER_DELTA_LOOKBACK_HOURS
    Overlap,     \* FORESTIQ_METSAREGISTER_DELTA_OVERLAP_MINUTES
    TimeLimit    \* CELERY_TASK_TIME_LIMIT_SECONDS

(* The default limit is 5 minutes and the default overlap 10.              *)
ASSUME DeltaAssumption ==
    /\ MaxTime \in Nat
    /\ Lookback \in Nat
    /\ Overlap \in Nat
    /\ TimeLimit \in Nat
    /\ TimeLimit <= Overlap

VARIABLES
    clock,
    stamp,       \* registration time of each allocation
    imported,    \* allocations stored locally
    finished,    \* finished_at of the last successful check
    firstSince,  \* history: since when the first successful check has read
    check        \* the check in progress

deltaVars == <<clock, stamp, imported, finished, firstSince, check>>

Time  == 0 .. MaxTime
Never == MaxTime + 1   \* no time yet
Check == [since : Time, started : Time, visible : SUBSET Allocation]
NoCheck == [since |-> Never]

DeltaTypeOK ==
    /\ clock \in Time
    /\ stamp \in [Allocation -> Time \cup {Never}]
    /\ imported \in SUBSET Allocation
    /\ finished \in Time \cup {Never}
    /\ firstSince \in Time \cup {Never}
    /\ check \in Check \cup {NoCheck}

DeltaInit ==
    /\ clock = 0
    /\ stamp = [a \in Allocation |-> Never]
    /\ imported = {}
    /\ finished = Never
    /\ firstSince = Never
    /\ check = NoCheck

Before(t, d) == IF t > d THEN t - d ELSE 0

(* Mutant: the next check begins where the last one ended.                 *)
SinceFinish == IF finished # Never THEN finished ELSE Before(clock, Lookback)

(* Where a check that starts now begins to read.                           *)
Since == IF finished # Never THEN Before(finished, Overlap) ELSE Before(clock, Lookback)

Registered == {a \in Allocation : stamp[a] # Never}

-----------------------------------------------------------------------------
Register ==
    /\ \E a \in Allocation :
        /\ stamp[a] = Never
        /\ stamp' = [stamp EXCEPT ![a] = clock]
    /\ UNCHANGED <<clock, imported, finished, firstSince, check>>

(* A check that reaches the hard time limit is killed.                     *)
DeltaTick ==
    /\ clock < MaxTime
    /\ check # NoCheck => clock < check.started + TimeLimit
    /\ clock' = clock + 1
    /\ UNCHANGED <<stamp, imported, finished, firstSince, check>>

CheckStart ==
    /\ check = NoCheck
    /\ check' = [since |-> Since, started |-> clock, visible |-> Registered]
    /\ UNCHANGED <<clock, stamp, imported, finished, firstSince>>

(* _store_allocation: an allocation of the answer is stored.               *)
CheckStores ==
    /\ check # NoCheck
    /\ \E a \in Registered \ imported :
        /\ stamp[a] >= check.since
        /\ imported' = imported \cup {a}
    /\ UNCHANGED <<clock, stamp, finished, firstSince, check>>

(* The pages are read to the end: what was registered before the check     *)
(* began is among them, what came later may be.                            *)
CheckSucceeds ==
    /\ check # NoCheck
    /\ \A a \in check.visible : stamp[a] >= check.since => a \in imported
    /\ finished' = clock
    /\ firstSince' = IF finished = Never THEN check.since ELSE firstSince
    /\ check' = NoCheck
    /\ UNCHANGED <<clock, stamp, imported>>

CheckFails ==
    /\ check # NoCheck
    /\ check' = NoCheck
    /\ UNCHANGED <<clock, stamp, imported, finished, firstSince>>

DeltaNext ==
    \/ Register \/ DeltaTick
    \/ CheckStart \/ CheckStores \/ CheckSucceeds \/ CheckFails

DeltaSpec == DeltaInit /\ [][DeltaNext]_deltaVars
-----------------------------------------------------------------------------
(* Nothing falls between two checks: once a check has succeeded, every     *)
(* allocation registered since that first window opened is stored or will  *)
(* be in the window of the next check.                                     *)
NoRegistrationIsMissed ==
    finished # Never =>
        \A a \in Registered : firstSince <= stamp[a] => a \in imported \/ stamp[a] >= Since
=============================================================================
