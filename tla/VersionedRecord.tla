-------------------------- MODULE VersionedRecord ---------------------------
(***************************************************************************)
(* What the optimistic locking of api/concurrency.py promises for one      *)
(* aggregate (Owner, Deal, Contract, InheritanceCase): several requests    *)
(* decide on what they have read, and a request overwrites the record only *)
(* while the record is still what it decided on.  Every overwrite makes a  *)
(* new version, and nothing else changes the record.                       *)
(***************************************************************************)
EXTENDS Naturals

CONSTANT Writer   \* requests that may be in progress together

VARIABLES
    version,      \* version of the stored record
    content,      \* the versioned part of the record
    basis         \* version each request decides on; 0: no request

Free == 0

Init ==
    /\ version = 1
    /\ basis = [w \in Writer |-> Free]

(* A request reads the record and decides on what it read.                 *)
Read(w) ==
    /\ basis[w] = Free
    /\ basis' = [basis EXCEPT ![w] = version]
    /\ UNCHANGED <<version, content>>

(* update_if_current succeeds: the row still has the version of the basis. *)
Overwrite(w) ==
    /\ basis[w] = version
    /\ version' = version + 1
    /\ basis' = [basis EXCEPT ![w] = Free]

(* The request ends without a change: a conflict, or a check that failed.  *)
Refuse(w) ==
    /\ basis[w] # Free
    /\ basis' = [basis EXCEPT ![w] = Free]
    /\ UNCHANGED <<version, content>>

Next == \E w \in Writer : Read(w) \/ Overwrite(w) \/ Refuse(w)

Spec == Init /\ [][Next]_<<version, content, basis>>
=============================================================================
