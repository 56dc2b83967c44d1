------------------------- MODULE ContractDocuments --------------------------
(***************************************************************************)
(* The stored document of one contract: uploads and deletion               *)
(* (api/views.py) and the repair of the storage that operators run         *)
(* (operations/services/contract_storage.py, reconcile_contract_storage    *)
(* --apply).  Object storage and database are two systems: every save,     *)
(* delete and update is a step of its own, and a process may die between.  *)
(*                                                                         *)
(* Abstracted: the contents of the objects; the retention time.  A         *)
(* contract that is written by api/parity.py (Contracts) is seen here only *)
(* by its version and by whether its row holds a PDF.                      *)
(***************************************************************************)
EXTENDS Naturals

CONSTANTS
    Server,         \* server processes, each with at most one request
    MaxRowVersion,  \* bound: Contract.version
    MaxFiles        \* bound: objects under contracts/ at one time

ASSUME DocumentAssumption ==
    /\ MaxRowVersion \in Nat \ {0}
    /\ MaxFiles \in Nat \ {0}

VARIABLES
    row,      \* the contract row, or NoRow
    objects,  \* names under contracts/ in the storage
    task,     \* the request of each server process
    repair,   \* the run of reconcile_contract_storage --apply
    calm      \* TRUE until the first repair or loss (only for properties)

documentVars == <<row, objects, task, repair, calm>>

(* binary: Contract.document holds a PDF; file: Contract.document_file,    *)
(* 0 when it is empty.                                                     *)
File     == 1 .. MaxFiles
Row      == [version : 1 .. MaxRowVersion, binary : BOOLEAN, file : File \cup {0}]
NoRow    == [version |-> 0]
Task     == [op : {"upload", "delete", "purge"}, expected : 1 .. MaxRowVersion, file : File \cup {0}]
NoTask   == [op |-> "none"]
Repair   == [pc : {"legacy", "list", "restore", "migrate", "name", "clean", "done"},
             names : SUBSET File, binary : BOOLEAN, legacy : BOOLEAN, saved : File \cup {0},
             orphans : SUBSET File, alone : BOOLEAN]
NoRepair == [pc |-> "idle"]

DocumentTypeOK ==
    /\ row \in Row \cup {NoRow}
    /\ objects \subseteq File
    /\ task \in [Server -> Task \cup {NoTask}]
    /\ repair \in Repair \cup {NoRepair}
    /\ calm \in BOOLEAN

DocumentInit ==
    /\ row \in [version : {1}, binary : BOOLEAN, file : {0}]
    /\ objects = {}
    /\ task = [s \in Server |-> NoTask]
    /\ repair = NoRepair
    /\ calm = TRUE

(* The object that the row names.                                          *)
Named == IF row = NoRow THEN {} ELSE {row.file} \ {0}

(* Mutant: the storage overwrites.                                         *)
OverwritingName(f) == f = 1

(* The storage gives the usual name, or one with a suffix if it is taken.  *)
FreshName(f) == f \in File \ objects /\ (f # 1 => 1 \in objects)

(* A request that runs into a repair takes its claim to have been alone.   *)
Disturb == repair' = IF repair = NoRepair THEN NoRepair ELSE [repair EXCEPT !.alone = FALSE]

Start(s, op, v, f) ==
    /\ task[s] = NoTask
    /\ task' = [task EXCEPT ![s] = [op |-> op, expected |-> v, file |-> f]]
    /\ Disturb

Stop(s) ==
    /\ task' = [task EXCEPT ![s] = NoTask]
    /\ Disturb

-----------------------------------------------------------------------------
(* contract_document_upload stores the object before it updates the row.   *)
(* An outdated version of the client ends in the conflict.                 *)
UploadReceive(s) ==
    /\ row # NoRow
    /\ \E v \in 1 .. MaxRowVersion - 1, f \in File :
        /\ v <= row.version
        /\ FreshName(f)
        /\ objects' = objects \cup {f}
        /\ Start(s, "upload", v, f)
    /\ UNCHANGED <<row, calm>>

IsCurrentRow(s) == row # NoRow /\ row.version = task[s].expected

Upload(s) ==
    /\ task[s].op = "upload"
    /\ IsCurrentRow(s)
    /\ row' = [row EXCEPT !.version = @ + 1, !.file = task[s].file]
    /\ Stop(s)
    /\ UNCHANGED <<objects, calm>>

(* The conflict of an upload removes the object that it stored.            *)
UploadConflict(s) ==
    /\ task[s].op = "upload"
    /\ ~IsCurrentRow(s)
    /\ objects' = objects \ {task[s].file}
    /\ Stop(s)
    /\ UNCHANGED <<row, calm>>

(* Archiving and a replacement version of the PDF, in one step each        *)
(* because they do not touch the storage.                                  *)
OtherWrite ==
    /\ row # NoRow
    /\ row.version < MaxRowVersion
    /\ row' = [row EXCEPT !.version = @ + 1]
    /\ Disturb
    /\ UNCHANGED <<objects, task, calm>>

(* contract_detail DELETE: the row, then the object that it named when it  *)
(* was loaded.                                                             *)
RemovalReceive(s) ==
    /\ row # NoRow
    /\ Start(s, "delete", row.version, row.file)
    /\ UNCHANGED <<row, objects, calm>>

DeleteRow(s) ==
    /\ task[s].op = "delete"
    /\ IsCurrentRow(s)
    /\ row' = NoRow
    /\ task' = [task EXCEPT ![s].op = "purge"]
    /\ Disturb
    /\ UNCHANGED <<objects, calm>>

PurgeFile(s) ==
    /\ task[s].op = "purge"
    /\ objects' = objects \ {task[s].file}
    /\ Stop(s)
    /\ UNCHANGED <<row, calm>>

(* A deletion that meets another version, or a server process that dies:   *)
(* what it has stored or deleted stays so.                                 *)
RequestEnds(s) ==
    /\ task[s] # NoTask
    /\ Stop(s)
    /\ UNCHANGED <<row, objects, calm>>

(* The storage loses the object of the contract: what a repair is for.     *)
ObjectLost ==
    /\ Named \cap objects # {}
    /\ objects' = objects \ Named
    /\ Disturb
    /\ calm' = FALSE
    /\ UNCHANGED <<row, task>>

-----------------------------------------------------------------------------
(* The repair reads the rows that name an object, ...                      *)
RepairStart ==
    /\ repair = NoRepair
    /\ repair' = [pc |-> "legacy", names |-> Named, legacy |-> FALSE, orphans |-> {}, saved |-> 0,
                  binary |-> row # NoRow /\ row.binary,
                  alone |-> \A s \in Server : task[s] = NoTask]
    /\ calm' = FALSE
    /\ UNCHANGED <<row, objects, task>>

(* ... then the rows that hold only a PDF, ...                             *)
RepairReadLegacy ==
    /\ repair.pc = "legacy"
    /\ repair' = [repair EXCEPT !.pc = "list",
                                !.legacy = row # NoRow /\ row.binary /\ row.file = 0]
    /\ UNCHANGED <<row, objects, task, calm>>

(* Mutant: the storage is listed against nothing.                          *)
RepairListsAllAsOrphans ==
    /\ repair.pc = "list"
    /\ repair' = [repair EXCEPT !.pc = "restore", !.orphans = objects, !.names = repair.names \ objects]
    /\ UNCHANGED <<row, objects, task, calm>>

(* ... then the storage; names becomes the set of missing objects.         *)
RepairList ==
    /\ repair.pc = "list"
    /\ repair' = [repair EXCEPT !.pc = "restore", !.orphans = objects \ repair.names,
                                !.names = repair.names \ objects]
    /\ UNCHANGED <<row, objects, task, calm>>

(* A missing object is saved from the binary of the loaded row, under      *)
(* another name if it has come back.                                       *)
RepairRestore ==
    /\ repair.pc = "restore"
    /\ IF repair.binary /\ repair.names # {}
       THEN IF repair.names \cap objects = {} THEN objects' = objects \cup repair.names
            ELSE \E f \in File : FreshName(f) /\ objects' = objects \cup {f}
       ELSE objects' = objects
    /\ repair' = [repair EXCEPT !.pc = "migrate"]
    /\ UNCHANGED <<row, task, calm>>

(* The binary becomes an object ...                                        *)
RepairMigrate ==
    /\ repair.pc = "migrate"
    /\ repair.legacy
    /\ \E f \in File :
        /\ FreshName(f)
        /\ objects' = objects \cup {f}
        /\ repair' = [repair EXCEPT !.pc = "name", !.saved = f]
    /\ UNCHANGED <<row, task, calm>>

(* ... and the row names it, whatever its version is by now; a row that is *)
(* gone ends the command.                                                  *)
RepairName ==
    /\ repair.pc = "name"
    /\ IF row = NoRow THEN repair' = NoRepair /\ row' = row
       ELSE repair' = [repair EXCEPT !.pc = "clean"] /\ row' = [row EXCEPT !.file = repair.saved]
    /\ UNCHANGED <<objects, task, calm>>

RepairNothingToMigrate ==
    /\ repair.pc = "migrate"
    /\ ~repair.legacy
    /\ repair' = [repair EXCEPT !.pc = "clean"]
    /\ UNCHANGED <<row, objects, task, calm>>

(* The objects that were orphans when the storage was listed are deleted   *)
(* one by one.                                                             *)
RepairClean ==
    /\ repair.pc = "clean"
    /\ \E f \in repair.orphans :
        /\ objects' = objects \ {f}
        /\ repair' = [repair EXCEPT !.orphans = @ \ {f}]
    /\ UNCHANGED <<row, task, calm>>

RepairCleaned ==
    /\ repair.pc = "clean"
    /\ repair.orphans = {}
    /\ repair' = [repair EXCEPT !.pc = "done"]
    /\ UNCHANGED <<row, objects, task, calm>>

(* The report is printed, or the command dies on the way.                  *)
RepairEnds ==
    /\ repair # NoRepair
    /\ repair' = NoRepair
    /\ UNCHANGED <<row, objects, task, calm>>

RequestStep(s) ==
    \/ UploadReceive(s) \/ Upload(s) \/ UploadConflict(s)
    \/ RemovalReceive(s) \/ DeleteRow(s) \/ PurgeFile(s) \/ RequestEnds(s)

RepairStep ==
    \/ RepairStart \/ RepairReadLegacy \/ RepairList \/ RepairRestore
    \/ RepairMigrate \/ RepairName \/ RepairNothingToMigrate
    \/ RepairClean \/ RepairCleaned \/ RepairEnds

DocumentNext == (\E s \in Server : RequestStep(s)) \/ OtherWrite \/ ObjectLost \/ RepairStep

DocumentSpec == DocumentInit /\ [][DocumentNext]_documentVars
-----------------------------------------------------------------------------
(* A repair that no request and no loss disturbed leaves exactly the       *)
(* object that the contract names; one it cannot restore it leaves missing.*)
RepairLeavesNamedObjects ==
    repair # NoRepair /\ repair.pc = "done" /\ repair.alone =>
        /\ objects \subseteq Named
        /\ repair.binary => Named \subseteq objects

(* As long as no repair and no loss has happened, the object that the      *)
(* contract names exists: uploads that conflict and deletions remove only  *)
(* what is theirs.                                                         *)
NamedObjectExists == calm => Named \subseteq objects
=============================================================================
