------------------------------ MODULE DataQuality -----------------------------
(***************************************************************************)
(* One data-quality issue (operations/data_quality.py, api/p1.py): scans,  *)
(* scheduled and manual ones side by side, look whether an owner has the   *)
(* problem, open the issue or refresh it, and resolve it when the problem  *)
(* is gone, while administrators assign, release and resolve it.           *)
(*                                                                         *)
(* Every save of a loaded copy is a step of its own.  Abstracted: texts,   *)
(* severity and evidence.                                                  *)
(***************************************************************************)
EXTENDS Naturals

CONSTANTS
    Scanner,    \* processes that scan
    Overseer,   \* administrators' requests
    MaxEdits    \* bound: changes of the owner, requests and failures

ASSUME QualityAssumption == MaxEdits \in Nat

VARIABLES
    problem,  \* TRUE while the owner (or the deal) has the problem
    watched,  \* FALSE while the deal is closed: scans leave it out
    issue,    \* DataQualityIssue.status ("NONE": no row)
    scan,     \* what each scan has found
    review,   \* what each administrator's request is about to save
    edits

qualityVars == <<problem, watched, issue, scan, review, edits>>

IssueStatus == {"OPEN", "ASSIGNED", "RESOLVED"}
ScanStep    == {"none", "problem", "no problem", "create", "refresh", "resolve"}
(* loaded: the status of the copy that will be saved.                      *)
Scan        == [state : ScanStep, loaded : IssueStatus \cup {"NONE"}]
NoScan      == [state |-> "none", loaded |-> "NONE"]

QualityTypeOK ==
    /\ problem \in BOOLEAN /\ watched \in BOOLEAN
    /\ issue \in IssueStatus \cup {"NONE"}
    /\ scan \in [Scanner -> Scan]
    /\ review \in [Overseer -> IssueStatus \cup {"NONE"}]
    /\ edits \in 0 .. MaxEdits

QualityInit ==
    /\ problem \in BOOLEAN
    /\ watched = TRUE
    /\ issue = "NONE"
    /\ scan = [s \in Scanner |-> NoScan]
    /\ review = [o \in Overseer |-> "NONE"]
    /\ edits = 0

-----------------------------------------------------------------------------
OwnerChanges ==
    /\ edits < MaxEdits
    /\ edits' = edits + 1
    /\ problem' = ~problem
    /\ UNCHANGED <<watched, issue, scan, review>>

(* A deal is closed, or opened again.                                      *)
DealClosesOrOpens ==
    /\ edits < MaxEdits
    /\ edits' = edits + 1
    /\ watched' = ~watched
    /\ UNCHANGED <<problem, issue, scan, review>>

(* run_data_quality_scan reads the owner, or a deal that is not closed.    *)
ScanOwner(s) ==
    /\ scan[s] = NoScan
    /\ watched
    /\ scan' = [scan EXCEPT ![s].state = IF problem THEN "problem" ELSE "no problem"]
    /\ UNCHANGED <<problem, watched, issue, review, edits>>

(* _upsert: no issue, a resolved one, which is left alone, or a live one.  *)
UpsertLook(s) ==
    /\ scan[s].state = "problem"
    /\ scan' = [scan EXCEPT ![s] =
          CASE issue = "NONE"     -> [state |-> "create", loaded |-> "NONE"]
            [] issue = "RESOLVED" -> NoScan
            [] OTHER              -> [state |-> "refresh", loaded |-> issue]]
    /\ UNCHANGED <<problem, watched, issue, review, edits>>

(* A second insert of the fingerprint fails the whole scan.                *)
UpsertCreate(s) ==
    /\ scan[s].state = "create"
    /\ issue' = IF issue = "NONE" THEN "OPEN" ELSE issue
    /\ scan' = [scan EXCEPT ![s] = NoScan]
    /\ UNCHANGED <<problem, watched, review, edits>>

(* Mutant: the whole copy is saved, its status too.                        *)
UpsertRefreshWhole(s) ==
    /\ scan[s].state = "refresh"
    /\ issue' = scan[s].loaded
    /\ scan' = [scan EXCEPT ![s] = NoScan]
    /\ UNCHANGED <<problem, watched, review, edits>>

(* The fields saved are named, and status is not one of them.              *)
UpsertRefresh(s) ==
    /\ scan[s].state = "refresh"
    /\ scan' = [scan EXCEPT ![s] = NoScan]
    /\ UNCHANGED <<problem, watched, issue, review, edits>>

(* Mutant: only an open issue is resolved, not one that someone has.       *)
ResolveLookOpen(s) ==
    /\ scan[s].state = "no problem"
    /\ scan' = [scan EXCEPT ![s] = IF issue # "OPEN" THEN NoScan
                                   ELSE [state |-> "resolve", loaded |-> issue]]
    /\ UNCHANGED <<problem, watched, issue, review, edits>>

(* _auto_resolve reads an issue that is not resolved, ...                  *)
ResolveLook(s) ==
    /\ scan[s].state = "no problem"
    /\ scan' = [scan EXCEPT ![s] = IF issue \in {"NONE", "RESOLVED"} THEN NoScan
                                   ELSE [state |-> "resolve", loaded |-> issue]]
    /\ UNCHANGED <<problem, watched, issue, review, edits>>

(* ... and saves it as resolved, whatever has become of it.                *)
ResolveSave(s) ==
    /\ scan[s].state = "resolve"
    /\ issue' = "RESOLVED"
    /\ scan' = [scan EXCEPT ![s] = NoScan]
    /\ UNCHANGED <<problem, watched, review, edits>>

(* data_quality_issue_detail loads the issue and decides: ASSIGN, RELEASE  *)
(* or RESOLVE; any of them is allowed in any status.                       *)
ReviewLoad(o) ==
    /\ review[o] = "NONE"
    /\ issue # "NONE"
    /\ edits < MaxEdits
    /\ edits' = edits + 1
    /\ \E status \in IssueStatus : review' = [review EXCEPT ![o] = status]
    /\ UNCHANGED <<problem, watched, issue, scan>>

ReviewSave(o) ==
    /\ review[o] # "NONE"
    /\ issue' = review[o]
    /\ review' = [review EXCEPT ![o] = "NONE"]
    /\ UNCHANGED <<problem, watched, scan, edits>>

(* An error somewhere in the scan, or a kill.                              *)
ScanFails(s) ==
    /\ scan[s] # NoScan
    /\ edits < MaxEdits
    /\ edits' = edits + 1
    /\ scan' = [scan EXCEPT ![s] = NoScan]
    /\ UNCHANGED <<problem, watched, issue, review>>

ScannerStep(s) ==
    \/ ScanOwner(s)
    \/ UpsertLook(s) \/ UpsertCreate(s) \/ UpsertRefresh(s)
    \/ ResolveLook(s) \/ ResolveSave(s)

ReviewStep(o) == ReviewLoad(o) \/ ReviewSave(o)

QualityNext ==
    \/ OwnerChanges \/ DealClosesOrOpens
    \/ \E s \in Scanner : ScannerStep(s) \/ ScanFails(s)
    \/ \E o \in Overseer : ReviewStep(o)

QualitySpec == QualityInit /\ [][QualityNext]_qualityVars
-----------------------------------------------------------------------------
(* What an administrator has resolved no scan opens again, not even one    *)
(* that read the issue while it was open.                                  *)
ScanReopensNothing ==
    [][issue = "RESOLVED" /\ issue' # "RESOLVED" =>
          \E o \in Overseer : review[o] # "NONE" /\ review'[o] = "NONE"]_qualityVars

(* An issue leaves the queue when its problem is gone for good, also when  *)
(* requests that loaded it before save their copies later.  (That of a     *)
(* deal which closes with its problem does not.)                           *)
GoneProblemLeavesQueue ==
    <>[](~problem /\ watched) => <>[](issue \in {"NONE", "RESOLVED"})
=============================================================================
