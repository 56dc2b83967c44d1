---------------------------- MODULE SingleWriter ----------------------------
(***************************************************************************)
(* What the synchronization of one cadastre promises to the rest of the    *)
(* program, without locks, messages, processes or time: at most one job    *)
(* writes at a time; a run is requested only when none is queued or        *)
(* running; only a writing job reports that a run succeeded, wholly or in  *)
(* part; a run may be presumed lost and failed at any time after its start.*)
(***************************************************************************)
EXTENDS Naturals

CONSTANTS Worker, RunId, NoRun

VARIABLES
    job,   \* the run each worker imports for, NoRun when it imports for none
    row    \* the status each run shows

vars == <<job, row>>

Init ==
    /\ job = [w \in Worker |-> NoRun]
    /\ row = [r \in RunId |-> "NONE"]

Request(r) ==
    /\ row[r] = "NONE"
    /\ \A s \in RunId : row[s] \notin {"QUEUED", "RUNNING"}
    /\ row' = [row EXCEPT ![r] = "QUEUED"]
    /\ UNCHANGED job

Begin(w, r) ==
    /\ \A v \in Worker : job[v] = NoRun
    /\ row[r] # "NONE"
    /\ job' = [job EXCEPT ![w] = r]
    /\ row' = [row EXCEPT ![r] = "RUNNING"]

Report(w, outcome) ==
    /\ job[w] # NoRun
    /\ row' = [row EXCEPT ![job[w]] = outcome]
    /\ job' = [job EXCEPT ![w] = NoRun]

Leave(w) ==
    /\ job[w] # NoRun
    /\ job' = [job EXCEPT ![w] = NoRun]
    /\ UNCHANGED row

PresumeLost(S) ==
    /\ \A r \in S : row[r] \notin {"NONE", "QUEUED"}
    /\ row' = [r \in RunId |-> IF r \in S THEN "FAILED" ELSE row[r]]
    /\ UNCHANGED job

Next ==
    \/ \E r \in RunId : Request(r)
    \/ \E w \in Worker, r \in RunId : Begin(w, r)
    \/ \E w \in Worker, outcome \in {"SUCCESS", "PARTIAL", "FAILED"} : Report(w, outcome)
    \/ \E w \in Worker : Leave(w)
    \/ \E S \in SUBSET RunId : PresumeLost(S)

Spec == Init /\ [][Next]_vars
=============================================================================
