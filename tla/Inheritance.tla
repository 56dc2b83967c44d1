------------------------------ MODULE Inheritance -----------------------------
(***************************************************************************)
(* The inheritance case of one owner and one official notice (api/parity): *)
(* it is opened from the notice by whoever asks first, and then changed by *)
(* requests that load it, decide on it and overwrite it under its version. *)
(*                                                                         *)
(* Abstracted: the data of heirs (an heir has a revision of its data), the *)
(* events, dates.  A case that a user creates for the same notice without  *)
(* looking meets the same unique key.                                      *)
(***************************************************************************)
EXTENDS Naturals, FiniteSets

CONSTANTS
    Clerk,          \* processes, each with at most one request
    Heir,           \* heirs
    MaxCaseVersion  \* bound: InheritanceCase.version

ASSUME CaseAssumption == MaxCaseVersion \in Nat \ {0} /\ IsFiniteSet(Clerk)

VARIABLES
    case,     \* the row (opened: history, cases made for the notice), or none
    heirs,    \* revision of the data of each heir (0: no such heir)
    request   \* what each clerk asks for, with what was loaded

caseVars == <<case, heirs, request>>

EndStatus  == {"COMPLETED", "CLOSED"}
CaseStatus == {"NEW", "IN_PROGRESS", "WAITING"} \cup EndStatus
CaseRow    == [version : 1 .. MaxCaseVersion, status : CaseStatus, ended : BOOLEAN,
               assigned : BOOLEAN, opened : 1 .. Cardinality(Clerk)]
NoCase     == [version |-> 0]
CaseOp     == {"assign", "status", "add heir", "change heir", "note"}
CaseCall   == [op : CaseOp, expected : 1 .. MaxCaseVersion, seen : 1 .. MaxCaseVersion,
               heir : Heir, status : CaseStatus]
Opening    == [op : {"open"}]
NoRequest  == [op |-> "none"]

CaseTypeOK ==
    /\ case \in CaseRow \cup {NoCase}
    /\ heirs \in [Heir -> 0 .. MaxCaseVersion]
    /\ request \in [Clerk -> CaseCall \cup Opening \cup {NoRequest}]

CaseInit ==
    /\ case = NoCase
    /\ heirs = [h \in Heir |-> 0]
    /\ request = [k \in Clerk |-> NoRequest]

Ask(k, r)  == request[k] = NoRequest /\ request' = [request EXCEPT ![k] = r]
Answer(k)  == request' = [request EXCEPT ![k] = NoRequest]

-----------------------------------------------------------------------------
(* _notice_to_case: get_or_create looks for the case ...                   *)
OpenLook(k) ==
    /\ case = NoCase
    /\ Ask(k, [op |-> "open"])
    /\ UNCHANGED <<case, heirs>>

(* Mutant: create instead of get_or_create, and no unique key.             *)
OpenAlways(k) ==
    /\ request[k].op = "open"
    /\ case' = [version |-> 1, status |-> "NEW", ended |-> FALSE, assigned |-> FALSE,
                opened |-> IF case = NoCase THEN 1 ELSE case.opened + 1]
    /\ Answer(k)
    /\ UNCHANGED heirs

(* ... and inserts it, unless the unique key shows that another did.       *)
Open(k) ==
    /\ request[k].op = "open"
    /\ IF case = NoCase
       THEN case' = [version |-> 1, status |-> "NEW", ended |-> FALSE, assigned |-> FALSE, opened |-> 1]
       ELSE case' = case
    /\ Answer(k)
    /\ UNCHANGED heirs

(* A handler loads the case and the heir.                                  *)
CaseReceive(k) ==
    /\ case # NoCase
    /\ \E op \in CaseOp, v \in 1 .. MaxCaseVersion - 1, h \in Heir, s \in CaseStatus :
        /\ v <= case.version
        /\ op # "status" => s = "NEW"
        /\ op = "change heir" => heirs[h] # 0
        /\ op = "add heir" => heirs[h] = 0
        /\ op \notin {"add heir", "change heir"} => h = CHOOSE x \in Heir : TRUE
        /\ v < case.version => op \in {"note", "change heir"}
        /\ Ask(k, [op |-> op, expected |-> v, seen |-> case.version, heir |-> h, status |-> s])
    /\ UNCHANGED <<case, heirs>>

(* _update_case_or_conflict.                                               *)
Overwrites(k, status, ended, assigned) ==
    /\ request[k].expected = case.version
    /\ case' = [case EXCEPT !.version = @ + 1, !.status = status, !.ended = ended, !.assigned = assigned]
    /\ Answer(k)

AssignCase(k) ==
    /\ request[k].op = "assign"
    /\ \E a \in BOOLEAN : Overwrites(k, case.status, case.ended, a)
    /\ UNCHANGED heirs

SetStatus(k) ==
    /\ request[k].op = "status"
    /\ Overwrites(k, request[k].status, request[k].status \in EndStatus, case.assigned)
    /\ UNCHANGED heirs

(* _save_heir, in the transaction of the new version.                      *)
AddHeir(k) ==
    /\ request[k].op = "add heir"
    /\ Overwrites(k, case.status, case.ended, case.assigned)
    /\ heirs' = [heirs EXCEPT ![request[k].heir] = 1]

(* Mutant: the heir is saved whatever version the case has.                *)
ChangeHeirUnversioned(k) ==
    /\ request[k].op = "change heir"
    /\ case.version < MaxCaseVersion
    /\ case' = [case EXCEPT !.version = @ + 1]
    /\ Answer(k)
    /\ heirs' = [heirs EXCEPT ![request[k].heir] = @ + 1]

ChangeHeir(k) ==
    /\ request[k].op = "change heir"
    /\ Overwrites(k, case.status, case.ended, case.assigned)
    /\ heirs' = [heirs EXCEPT ![request[k].heir] = @ + 1]

AddNote(k) ==
    /\ request[k].op = "note"
    /\ Overwrites(k, case.status, case.ended, case.assigned)
    /\ UNCHANGED heirs

(* 409, or an error before the update: no change.                          *)
CaseConflict(k) ==
    /\ request[k] # NoRequest
    /\ Answer(k)
    /\ UNCHANGED <<case, heirs>>

CaseStep(k) ==
    \/ OpenLook(k) \/ Open(k) \/ CaseReceive(k) \/ CaseConflict(k)
    \/ AssignCase(k) \/ SetStatus(k) \/ AddHeir(k) \/ ChangeHeir(k) \/ AddNote(k)

CaseNext == \E k \in Clerk : CaseStep(k)

CaseSpec == CaseInit /\ [][CaseNext]_caseVars
-----------------------------------------------------------------------------
(* A notice has one case, and once it is there the case and its heirs are  *)
(* one versioned record: an heir, which carries no version, is overwritten *)
(* only by a request that has seen the latest state of the whole case.     *)
CaseRecord == INSTANCE VersionedRecord WITH
    Writer  <- Clerk,
    version <- IF case = NoCase THEN 1 ELSE case.version,
    content <- IF case = NoCase THEN <<"NEW", FALSE, FALSE, 1, heirs>>
               ELSE <<case.status, case.ended, case.assigned, case.opened, heirs>>,
    basis   <- [k \in Clerk |-> IF request[k].op \in CaseOp THEN request[k].seen ELSE 0]

CaseIsVersionedRecord == CaseRecord!Spec
=============================================================================
