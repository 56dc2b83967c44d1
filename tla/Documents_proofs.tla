--------------------------- MODULE Documents_proofs ---------------------------
(***************************************************************************)
(* Proofs about the document of a contract, its signing and its storage,   *)
(* and about the desk that the deals, their contracts and these make up,   *)
(* for any number of processes, documents and objects.  No save of a       *)
(* signing compares anything, so what is proved of it rests on what every  *)
(* loaded row, and every row about to be saved, has in common.  The proof  *)
(* of the storage follows each object from the request that stores it.     *)
(***************************************************************************)
EXTENDS MCDesk, Contracts_proofs

-----------------------------------------------------------------------------
(* A stored document has the hash of the row, and a signed row the hash of *)
(* an attested document.                                                   *)
Sound(r) ==
    /\ r.document \in {NoDocument, r.sha256}
    /\ r.state = "SIGNED" => r.sha256 \in attested

(* Whoever saves what it loaded in a final state saves that state.         *)
Faithful(q) == q.op # "refused" /\ q.seen.state \in {"SIGNED", "CANCELLED"} => q.save.state = q.seen.state

RequestsSound == \A r \in Signer : signer[r] # NoRequest => Sound(signer[r].save) /\ Faithful(signer[r])

SigningInv == SigningTypeOK /\ Sound(signing) /\ RequestsSound

LEMMA SigningInitially == SigningInit => SigningInv
BY DEF SigningInit, SigningInv, SigningTypeOK, SigningRow, SigningState, Verification, Hash, Sound,
       RequestsSound, NoRequest

LEMMA TransitionsLeaveFinalStates ==
    ASSUME NEW s \in SigningState
    PROVE  /\ Transitions[s] \subseteq SigningState
           /\ s \in {"SIGNED", "CANCELLED"} => Transitions[s] = {}
BY DEF Transitions, SigningState

(* A request that has loaded the row will save a sound one.                *)
LEMMA LoadedKeeps ==
    ASSUME SigningInv, NEW r \in Signer, NEW op \in {"patch", "upload", "verified", "refused"},
           NEW save \in SigningRow, Loaded(r, op, save), UNCHANGED attested,
           Sound(save), Faithful([op |-> op, seen |-> signing, save |-> save])
    PROVE  SigningInv'
<1> DEFINE q == [op |-> op, seen |-> signing, save |-> save]
<1>1. signing' = signing /\ signer' = [signer EXCEPT ![r] = q]
    BY DEF Loaded
<1>2. q \in Request /\ q.save = save /\ Faithful(q)
    BY DEF Request, SigningInv, SigningTypeOK
<1> HIDE DEF q
<1>3. signer' \in [Signer -> Request \cup {NoRequest}]
    BY <1>1, <1>2 DEF SigningInv, SigningTypeOK
<1>4. \A i \in Signer : signer'[i] = IF i = r THEN q ELSE signer[i]
    BY <1>1 DEF SigningInv, SigningTypeOK
<1>5. RequestsSound'
    BY <1>2, <1>4 DEF SigningInv, RequestsSound, Sound, Faithful
<1> QED
    BY <1>1, <1>3, <1>5 DEF SigningInv, SigningTypeOK, Sound

LEMMA PatchKeeps ==
    ASSUME SigningInv, NEW r \in Signer, PatchReceive(r)
    PROVE  SigningInv'
<1>1. signing \in SigningRow /\ signing.state \in SigningState /\ Sound(signing)
    BY DEF SigningInv, SigningTypeOK, SigningRow
<1>2. PICK target \in Transitions[signing.state] \cup {signing.state} :
          /\ target = "SIGNED" => target = signing.state
          /\ Loaded(r, "patch", [signing EXCEPT !.state = target])
    BY DEF PatchReceive
<1>3. /\ target \in SigningState
      /\ signing.state \in {"SIGNED", "CANCELLED"} => target = signing.state
    BY <1>1, TransitionsLeaveFinalStates
<1> DEFINE save == [signing EXCEPT !.state = target]
<1>4. /\ save \in SigningRow /\ save.state = target
      /\ save.document = signing.document /\ save.sha256 = signing.sha256
    BY <1>1, <1>3 DEF SigningRow
<1>5. Loaded(r, "patch", save)
    BY <1>2
<1> HIDE DEF save
<1>6. Sound(save)
    BY <1>1, <1>2, <1>4 DEF Sound
<1>7. Faithful([op |-> "patch", seen |-> signing, save |-> save])
    BY <1>3, <1>4 DEF Faithful
<1>8. UNCHANGED attested
    BY DEF PatchReceive
<1> QED
    BY <1>4, <1>5, <1>6, <1>7, <1>8, LoadedKeeps

LEMMA UploadKeeps ==
    ASSUME SigningInv, NEW r \in Signer, UploadSignature(r)
    PROVE  SigningInv'
<1>1. signing \in SigningRow /\ signing.state = "SENT_FOR_SIGNATURE" /\ UNCHANGED attested
    BY DEF SigningInv, SigningTypeOK, UploadSignature
<1>2. PICK d \in Document :
          Loaded(r, "upload", [signing EXCEPT !.verification = "PENDING", !.document = d, !.sha256 = d])
    BY DEF UploadSignature
<1> DEFINE save == [signing EXCEPT !.verification = "PENDING", !.document = d, !.sha256 = d]
<1>3. /\ save \in SigningRow /\ save.state = signing.state
      /\ save.document = d /\ save.sha256 = d
    BY <1>1 DEF SigningRow, Verification, Hash
<1>4. Loaded(r, "upload", save)
    BY <1>2
<1> HIDE DEF save
<1>5. Sound(save) /\ Faithful([op |-> "upload", seen |-> signing, save |-> save])
    BY <1>1, <1>3 DEF Sound, Faithful
<1> QED
    BY <1>1, <1>3, <1>4, <1>5, LoadedKeeps

(* Evidence about a row without a hash is about a row without a document.  *)
LEMMA EvidenceHoldsKeeps ==
    ASSUME SigningInv, NEW r \in Signer, EvidenceHolds(r)
    PROVE  SigningInv'
<1>1. signing \in SigningRow /\ signing.state = "SENT_FOR_SIGNATURE" /\ Sound(signing)
    BY DEF SigningInv, SigningTypeOK, EvidenceHolds
<1>2. PICK d \in Document :
          /\ signing.sha256 \in {NoDocument, d}
          /\ Loaded(r, "verified", [signing EXCEPT !.state = "SIGNED", !.verification = "VERIFIED", !.sha256 = d])
          /\ attested' = attested \cup {d}
    BY DEF EvidenceHolds
<1> DEFINE save == [signing EXCEPT !.state = "SIGNED", !.verification = "VERIFIED", !.sha256 = d]
           q    == [op |-> "verified", seen |-> signing, save |-> save]
<1>3. /\ save \in SigningRow /\ save.state = "SIGNED" /\ save.sha256 = d /\ save.document = signing.document
    BY <1>1 DEF SigningRow, SigningState, Verification, Hash
<1>4. signing' = signing /\ signer' = [signer EXCEPT ![r] = [op |-> "verified", seen |-> signing, save |-> save]]
    BY <1>2 DEF Loaded
<1> HIDE DEF save
<1>5. q \in Request /\ q.save = save /\ Faithful(q)
    BY <1>1, <1>3 DEF Request, Faithful
<1>6. signer' = [signer EXCEPT ![r] = q]
    BY <1>4
<1> HIDE DEF q
<1>7. signer' \in [Signer -> Request \cup {NoRequest}] /\ attested' \subseteq Document
    BY <1>2, <1>5, <1>6 DEF SigningInv, SigningTypeOK
<1>8. \A i \in Signer : signer'[i] = IF i = r THEN q ELSE signer[i]
    BY <1>6 DEF SigningInv, SigningTypeOK
<1>9. q.save.document \in {NoDocument, q.save.sha256} /\ q.save.sha256 \in attested'
    BY <1>1, <1>2, <1>3, <1>5 DEF Sound
<1>10. RequestsSound'
    <2> SUFFICES ASSUME NEW i \in Signer, signer'[i] # NoRequest
                 PROVE  Sound(signer[i].save)' /\ Faithful(signer[i])'
        BY DEF RequestsSound, Faithful, Sound
    <2>1. CASE i = r
        BY <1>5, <1>8, <1>9, <2>1 DEF Sound
    <2>2. CASE i # r
        BY <1>2, <1>8, <2>2 DEF SigningInv, RequestsSound, Sound
    <2> QED
        BY <2>1, <2>2
<1> QED
    BY <1>1, <1>2, <1>4, <1>7, <1>10 DEF SigningInv, SigningTypeOK, Sound

LEMMA EvidenceFailsKeeps ==
    ASSUME SigningInv, NEW r \in Signer, EvidenceFails(r)
    PROVE  SigningInv'
<1>1. signing \in SigningRow /\ signing.state = "SENT_FOR_SIGNATURE" /\ Sound(signing) /\ UNCHANGED attested
    BY DEF SigningInv, SigningTypeOK, EvidenceFails
<1> DEFINE save == [signing EXCEPT !.verification = "FAILED"]
<1>2. /\ save \in SigningRow /\ save.state = signing.state
      /\ save.document = signing.document /\ save.sha256 = signing.sha256
    BY <1>1 DEF SigningRow, Verification
<1>3. Loaded(r, "refused", save)
    BY DEF EvidenceFails
<1> HIDE DEF save
<1>4. Sound(save) /\ Faithful([op |-> "refused", seen |-> signing, save |-> save])
    BY <1>1, <1>2 DEF Sound, Faithful
<1> QED
    BY <1>1, <1>2, <1>3, <1>4, LoadedKeeps

LEMMA SaveKeeps ==
    ASSUME SigningInv, NEW r \in Signer, Save(r)
    PROVE  SigningInv'
<1>1. /\ signer[r] \in Request /\ signing \in SigningRow
      /\ signer' = [signer EXCEPT ![r] = NoRequest] /\ attested' = attested
      /\ Sound(signing) /\ Sound(signer[r].save)
    BY DEF SigningInv, SigningTypeOK, RequestsSound, Save
<1>2. signing' \in SigningRow /\ Sound(signing')
    <2>1. CASE signer[r].op = "refused"
        <3>1. signing' = [signing EXCEPT !.verification = "FAILED"]
            BY <2>1 DEF Save
        <3> QED
            BY <1>1, <3>1 DEF SigningRow, Verification, Sound
    <2>2. CASE signer[r].op # "refused"
        <3>1. signing' = signer[r].save
            BY <2>2 DEF Save
        <3> QED
            BY <1>1, <3>1 DEF Request
    <2> QED
        BY <2>1, <2>2
<1>3. /\ signer' \in [Signer -> Request \cup {NoRequest}]
      /\ \A i \in Signer : signer'[i] \in {signer[i], NoRequest}
    BY <1>1 DEF SigningInv, SigningTypeOK
<1>4. RequestsSound'
    BY <1>1, <1>3 DEF SigningInv, RequestsSound, Sound, Faithful
<1> QED
    BY <1>1, <1>2, <1>3, <1>4 DEF SigningInv, SigningTypeOK, Sound

-----------------------------------------------------------------------------
LEMMA SigningNextKeeps == SigningInv /\ [SigningNext]_signingVars => SigningInv'
<1> SUFFICES ASSUME SigningInv, [SigningNext]_signingVars PROVE SigningInv'
    OBVIOUS
<1>1. CASE UNCHANGED signingVars
    BY <1>1 DEF signingVars, SigningInv, SigningTypeOK, Sound, RequestsSound, Faithful
<1> QED
    BY <1>1, PatchKeeps, UploadKeeps, EvidenceHoldsKeeps, EvidenceFailsKeeps, SaveKeeps DEF SigningNext

(* The invariant holds in every state.                                     *)
THEOREM SigningInvariant == SigningSpec => []SigningInv
BY SigningInitially, SigningNextKeeps, PTL DEF SigningSpec

(* Signing is type correct.                                                *)
THEOREM SigningTypeCorrect == SigningSpec => []SigningTypeOK
BY SigningInvariant, PTL DEF SigningInv

(* A signed contract carries the hash of an attested document, and the     *)
(* stored document has that hash, whatever was saved over what.            *)
THEOREM SignedIsAttested == SigningSpec => []SignedDocumentIsAttested
<1>1. SigningInv => SignedDocumentIsAttested
    BY DEF SigningInv, Sound, SignedDocumentIsAttested
<1> QED
    BY <1>1, SigningInvariant, PTL

(* The step that leaves a final state saves a row loaded before it.        *)
LEMMA FinalStep == SigningInv /\ [SigningNext]_signingVars
    => [signing.state \in {"SIGNED", "CANCELLED"} /\ signing'.state # signing.state =>
            \E r \in Signer : /\ signer[r] # NoRequest /\ signer'[r] = NoRequest
                              /\ signer[r].seen.state # signing.state]_signingVars
<1> SUFFICES ASSUME SigningInv, SigningNext, signing.state \in {"SIGNED", "CANCELLED"},
                    signing'.state # signing.state
             PROVE  \E r \in Signer : /\ signer[r] # NoRequest /\ signer'[r] = NoRequest
                                      /\ signer[r].seen.state # signing.state
    OBVIOUS
<1>1. PICK r \in Signer : Save(r)
    BY DEF SigningNext, PatchReceive, UploadSignature, EvidenceHolds, EvidenceFails, Loaded
<1>2. signer[r] # NoRequest /\ signer'[r] = NoRequest /\ Faithful(signer[r]) /\ signing \in SigningRow
    BY <1>1 DEF Save, SigningInv, SigningTypeOK, RequestsSound
<1>3. signer[r].op # "refused"
    <2> SUFFICES ASSUME signer[r].op = "refused" PROVE FALSE
        OBVIOUS
    <2>1. signing' = [signing EXCEPT !.verification = "FAILED"]
        BY <1>1 DEF Save
    <2> QED
        BY <1>2, <2>1 DEF SigningRow
<1>4. signing'.state = signer[r].save.state
    BY <1>1, <1>3 DEF Save
<1> QED
    BY <1>2, <1>3, <1>4 DEF Faithful

(* A final state is undone only by a request that has not seen it.         *)
THEOREM FinalIsUndoneUnseen == SigningSpec => FinalStateIsUndoneOnlyUnseen
BY SigningInvariant, FinalStep, PTL DEF SigningSpec, FinalStateIsUndoneOnlyUnseen

-----------------------------------------------------------------------------
(* While no repair and no loss has happened: as long as the contract       *)
(* exists, every upload in progress has an object of its own, which the    *)
(* row does not name; an object is purged only when the row is gone.       *)
CalmHolds ==
    calm =>
        /\ repair = NoRepair
        /\ Named \subseteq objects
        /\ \A s \in Server : task[s].op = "purge" => row = NoRow
        /\ row # NoRow =>
              /\ \A s \in Server : task[s].op = "upload" => task[s].file \in objects \ Named
              /\ \A s, t \in Server : task[s].op = "upload" /\ task[t].op = "upload" /\ s # t
                                         => task[s].file # task[t].file

(* What a repair that nobody disturbs knows at each of its steps.          *)
RepairHolds ==
    repair # NoRepair /\ repair.alone =>
        /\ \A s \in Server : task[s] = NoTask
        /\ repair.binary = (row # NoRow /\ row.binary)
        /\ repair.pc \in {"legacy", "list"} => repair.names = Named
        /\ repair.pc \in {"list", "restore", "migrate"} =>
              repair.legacy = (row # NoRow /\ row.binary /\ row.file = 0)
        /\ repair.pc = "restore" => repair.names = Named \ objects /\ repair.orphans = objects \ Named
        /\ repair.pc \in {"migrate", "clean"} =>
              /\ objects \ repair.orphans \subseteq Named
              /\ repair.orphans \subseteq objects /\ repair.orphans \cap Named = {}
              /\ repair.binary => Named \subseteq objects
        /\ repair.pc = "name" =>
              /\ row # NoRow => row.file = 0 /\ repair.binary
              /\ repair.saved \in objects \ repair.orphans
              /\ objects \ repair.orphans \subseteq {repair.saved}
              /\ repair.orphans \subseteq objects
        /\ repair.pc = "done" => objects \subseteq Named /\ (repair.binary => Named \subseteq objects)

(* An upload counts on a version that leaves room for the next one.        *)
ExpectedHolds == \A s \in Server : task[s].op = "upload" => task[s].expected < MaxRowVersion

DocumentInv == DocumentTypeOK /\ CalmHolds /\ RepairHolds /\ ExpectedHolds

LEMMA DocumentInitially == DocumentInit => DocumentInv
<1> SUFFICES ASSUME DocumentInit PROVE DocumentInv
    OBVIOUS
<1>1. row \in Row /\ row.file = 0
    BY DocumentAssumption DEF DocumentInit, Row
<1>2. DocumentTypeOK
    BY <1>1 DEF DocumentInit, DocumentTypeOK
<1>3. Named = {}
    BY <1>1 DEF Named
<1> QED
    BY <1>2, <1>3 DEF DocumentInit, DocumentInv, CalmHolds, RepairHolds, ExpectedHolds, NoTask, NoRepair

(* A request that begins or ends leaves a repair that is not alone.        *)
LEMMA Disturbed ==
    ASSUME DocumentTypeOK, Disturb
    PROVE  /\ repair' \in Repair \cup {NoRepair}
           /\ repair = NoRepair => repair' = NoRepair
           /\ RepairHolds'
<1>1. CASE repair = NoRepair
    BY <1>1 DEF Disturb, RepairHolds
<1>2. CASE repair # NoRepair
    <2>1. repair \in Repair /\ repair' = [repair EXCEPT !.alone = FALSE]
        BY <1>2 DEF DocumentTypeOK, Disturb
    <2>2. repair' \in Repair /\ repair'.alone = FALSE
        BY <2>1 DEF Repair
    <2> QED
        BY <1>2, <2>2 DEF RepairHolds
<1> QED
    BY <1>1, <1>2

LEMMA Started ==
    ASSUME DocumentTypeOK, NEW s \in Server, NEW op \in {"upload", "delete", "purge"},
           NEW v \in 1 .. MaxRowVersion, NEW f \in File \cup {0}, Start(s, op, v, f)
    PROVE  /\ task' \in [Server -> Task \cup {NoTask}]
           /\ task'[s].op = op /\ task'[s].expected = v /\ task'[s].file = f
           /\ \A t \in Server : t # s => task'[t] = task[t]
<1>1. [op |-> op, expected |-> v, file |-> f] \in Task
    BY DEF Task
<1> QED
    BY <1>1 DEF Start, DocumentTypeOK

LEMMA Stopped ==
    ASSUME DocumentTypeOK, NEW s \in Server, Stop(s)
    PROVE  /\ task' \in [Server -> Task \cup {NoTask}]
           /\ task'[s].op = "none"
           /\ \A t \in Server : t # s => task'[t] = task[t]
BY DEF Stop, DocumentTypeOK, NoTask

LEMMA TaskTyped ==
    ASSUME DocumentTypeOK, NEW s \in Server, task[s].op \in {"upload", "delete", "purge"}
    PROVE  task[s].expected \in 1 .. MaxRowVersion /\ task[s].file \in File \cup {0}
<1>1. task[s] \in Task
    BY DEF DocumentTypeOK, NoTask
<1> QED
    BY <1>1 DEF Task

LEMMA ReceiveKeeps ==
    ASSUME DocumentInv, NEW s \in Server, UploadReceive(s)
    PROVE  DocumentInv'
<1> USE DEF DocumentInv
<1>1. PICK v \in 1 .. MaxRowVersion - 1, f \in File :
          FreshName(f) /\ objects' = objects \cup {f} /\ Start(s, "upload", v, f)
    BY DEF UploadReceive
<1>2. v \in 1 .. MaxRowVersion /\ v < MaxRowVersion /\ f \in File \cup {0} /\ f \notin objects
    BY <1>1, DocumentAssumption DEF FreshName
<1>3. /\ task' \in [Server -> Task \cup {NoTask}]
      /\ task'[s].op = "upload" /\ task'[s].expected = v /\ task'[s].file = f
      /\ \A t \in Server : t # s => task'[t] = task[t]
    BY <1>1, <1>2, Started
<1>4. /\ repair' \in Repair \cup {NoRepair}
      /\ repair = NoRepair => repair' = NoRepair
      /\ RepairHolds'
    BY <1>1, Disturbed DEF Start
<1>5. row # NoRow /\ row' = row /\ calm' = calm /\ Named' = Named
    BY DEF UploadReceive, Named
<1>6. DocumentTypeOK'
    BY <1>1, <1>3, <1>4, <1>5 DEF DocumentTypeOK
<1>7. CalmHolds'
    BY <1>1, <1>2, <1>3, <1>4, <1>5 DEF CalmHolds
<1>8. ExpectedHolds'
    BY <1>2, <1>3 DEF ExpectedHolds
<1> QED
    BY <1>4, <1>6, <1>7, <1>8

LEMMA UploadCommits ==
    ASSUME DocumentInv, NEW s \in Server, Upload(s)
    PROVE  DocumentInv'
<1> USE DEF DocumentInv
<1>1. /\ task' \in [Server -> Task \cup {NoTask}]
      /\ task'[s].op = "none"
      /\ \A t \in Server : t # s => task'[t] = task[t]
    BY Stopped DEF Upload
<1>2. /\ repair' \in Repair \cup {NoRepair}
      /\ repair = NoRepair => repair' = NoRepair
      /\ RepairHolds'
    BY Disturbed DEF Upload, Stop
<1>3. task[s].op = "upload" /\ row # NoRow /\ row.version = task[s].expected
      /\ objects' = objects /\ calm' = calm
    BY DEF Upload, IsCurrentRow
<1>4. row \in Row /\ row.version < MaxRowVersion /\ task[s].file \in File \cup {0}
    BY <1>3, TaskTyped DEF DocumentTypeOK, ExpectedHolds
<1>5. row' \in Row /\ row'.file = task[s].file
    <2> DEFINE f == task[s].file
    <2>1. row' = [row EXCEPT !.version = row.version + 1, !.file = f]
        BY DEF Upload
    <2>2. row.version + 1 \in 1 .. MaxRowVersion
        BY <1>4, DocumentAssumption DEF Row
    <2>3. f \in File \cup {0}
        BY <1>4
    <2> HIDE DEF f
    <2>4. row' \in Row /\ row'.file = f
        BY <1>4, <2>1, <2>2, <2>3 DEF Row
    <2> QED
        BY <2>4 DEF f
<1>6. row' # NoRow
    BY <1>5 DEF Row, NoRow
<1>7. Named' = {task[s].file} \ {0}
    BY <1>5, <1>6 DEF Named
<1>8. DocumentTypeOK'
    BY <1>1, <1>2, <1>3, <1>5 DEF DocumentTypeOK
<1>9. CalmHolds'
    BY <1>1, <1>2, <1>3, <1>7 DEF CalmHolds
<1>10. ExpectedHolds'
    BY <1>1 DEF ExpectedHolds
<1> QED
    BY <1>2, <1>8, <1>9, <1>10

(* A request that stops and leaves the row alone, whatever it removes: its *)
(* own object, or any object of a contract that is gone.                   *)
LEMMA StopKeeps ==
    ASSUME DocumentInv, NEW s \in Server, Stop(s), UNCHANGED <<row, calm>>,
           NEW gone, objects' = objects \ gone,
           \/ gone = {}
           \/ task[s].op = "upload" /\ gone = {task[s].file}
           \/ task[s].op = "purge"
    PROVE  DocumentInv'
<1> USE DEF DocumentInv
<1>1. /\ task' \in [Server -> Task \cup {NoTask}]
      /\ task'[s].op = "none"
      /\ \A t \in Server : t # s => task'[t] = task[t]
    BY Stopped
<1>2. /\ repair' \in Repair \cup {NoRepair}
      /\ repair = NoRepair => repair' = NoRepair
      /\ RepairHolds'
    BY Disturbed DEF Stop
<1>3. Named' = Named /\ (row = NoRow => Named = {})
    BY DEF Named
<1>4. DocumentTypeOK'
    BY <1>1, <1>2 DEF DocumentTypeOK
<1>5. CalmHolds'
    BY <1>1, <1>2, <1>3 DEF CalmHolds
<1>6. ExpectedHolds'
    BY <1>1 DEF ExpectedHolds
<1> QED
    BY <1>2, <1>4, <1>5, <1>6

LEMMA OtherWriteKeeps ==
    ASSUME DocumentInv, OtherWrite
    PROVE  DocumentInv'
<1> USE DEF DocumentInv
<1>1. /\ repair' \in Repair \cup {NoRepair}
      /\ repair = NoRepair => repair' = NoRepair
      /\ RepairHolds'
    BY Disturbed DEF OtherWrite
<1>2. row \in Row /\ row # NoRow /\ row.version < MaxRowVersion
    BY DEF OtherWrite, DocumentTypeOK
<1>3. row' = [row EXCEPT !.version = @ + 1] /\ UNCHANGED <<objects, task, calm>>
    BY DEF OtherWrite
<1>4. row' \in Row /\ row'.file = row.file
    BY <1>2, <1>3, DocumentAssumption DEF Row
<1>5. row' # NoRow
    BY <1>4 DEF Row, NoRow
<1>6. Named' = Named
    BY <1>2, <1>4, <1>5 DEF Named
<1>7. DocumentTypeOK'
    BY <1>1, <1>3, <1>4 DEF DocumentTypeOK
<1>8. CalmHolds'
    <2> SUFFICES ASSUME calm' PROVE CalmHolds'
        BY DEF CalmHolds
    <2>1. \A t \in Server : task[t].op # "purge"
        BY <1>2, <1>3 DEF CalmHolds
    <2> QED
        BY <1>1, <1>2, <1>3, <1>6, <2>1 DEF CalmHolds
<1>9. ExpectedHolds'
    BY <1>3 DEF ExpectedHolds
<1> QED
    BY <1>1, <1>7, <1>8, <1>9

LEMMA RemovalReceiveKeeps ==
    ASSUME DocumentInv, NEW s \in Server, RemovalReceive(s)
    PROVE  DocumentInv'
<1> USE DEF DocumentInv
<1>1. row \in Row /\ row # NoRow /\ row' = row /\ objects' = objects /\ calm' = calm
    BY DEF RemovalReceive, DocumentTypeOK
<1>2. row.version \in 1 .. MaxRowVersion /\ row.file \in File \cup {0}
    BY <1>1 DEF Row
<1>3. /\ task' \in [Server -> Task \cup {NoTask}]
      /\ task'[s].op = "delete"
      /\ \A t \in Server : t # s => task'[t] = task[t]
    BY <1>2, Started DEF RemovalReceive
<1>4. /\ repair' \in Repair \cup {NoRepair}
      /\ repair = NoRepair => repair' = NoRepair
      /\ RepairHolds'
    BY Disturbed DEF RemovalReceive, Start
<1>5. Named' = Named
    BY <1>1 DEF Named
<1>6. DocumentTypeOK'
    BY <1>1, <1>3, <1>4 DEF DocumentTypeOK
<1>7. CalmHolds'
    BY <1>1, <1>3, <1>4, <1>5 DEF CalmHolds
<1>8. ExpectedHolds'
    BY <1>3 DEF ExpectedHolds
<1> QED
    BY <1>4, <1>6, <1>7, <1>8

LEMMA DeleteRowKeeps ==
    ASSUME DocumentInv, NEW s \in Server, DeleteRow(s)
    PROVE  DocumentInv'
<1> USE DEF DocumentInv
<1>1. row' = NoRow /\ objects' = objects /\ calm' = calm
    BY DEF DeleteRow
<1>2. task[s] \in Task
    BY DEF DeleteRow, DocumentTypeOK, NoTask
<1>3. [task[s] EXCEPT !.op = "purge"] \in Task /\ [task[s] EXCEPT !.op = "purge"].op = "purge"
    BY <1>2 DEF Task
<1>4. task' = [task EXCEPT ![s] = [task[s] EXCEPT !.op = "purge"]]
    BY DEF DeleteRow
<1>5. /\ task' \in [Server -> Task \cup {NoTask}]
      /\ task'[s].op = "purge"
      /\ \A t \in Server : t # s => task'[t] = task[t]
    BY <1>3, <1>4 DEF DocumentTypeOK
<1>6. /\ repair' \in Repair \cup {NoRepair}
      /\ repair = NoRepair => repair' = NoRepair
      /\ RepairHolds'
    BY Disturbed DEF DeleteRow
<1>7. Named' = {}
    BY <1>1 DEF Named
<1>8. DocumentTypeOK'
    BY <1>1, <1>5, <1>6 DEF DocumentTypeOK
<1>9. CalmHolds'
    BY <1>1, <1>5, <1>6, <1>7 DEF CalmHolds
<1>10. ExpectedHolds'
    BY <1>5 DEF ExpectedHolds
<1> QED
    BY <1>6, <1>8, <1>9, <1>10

LEMMA ObjectLostKeeps ==
    ASSUME DocumentInv, ObjectLost
    PROVE  DocumentInv'
<1> USE DEF DocumentInv
<1>1. /\ repair' \in Repair \cup {NoRepair}
      /\ RepairHolds'
    BY Disturbed DEF ObjectLost
<1>2. DocumentTypeOK' /\ CalmHolds'
    BY <1>1 DEF ObjectLost, DocumentTypeOK, CalmHolds
<1>3. ExpectedHolds'
    BY DEF ObjectLost, ExpectedHolds
<1> QED
    BY <1>1, <1>2, <1>3

(* A step of the repair: no upload or deletion moves, and the run is not   *)
(* calm any more.                                                          *)
LEMMA RepairStepKeeps ==
    ASSUME DocumentInv, task' = task, calm' = FALSE \/ (repair # NoRepair /\ calm' = calm),
           row' \in Row \cup {NoRow}, objects' \subseteq File,
           repair' \in Repair \cup {NoRepair}, RepairHolds'
    PROVE  DocumentInv'
<1>1. calm' = FALSE
    BY DEF DocumentInv, DocumentTypeOK, CalmHolds
<1> QED
    BY <1>1 DEF DocumentInv, DocumentTypeOK, CalmHolds, ExpectedHolds

LEMMA RepairStartKeeps ==
    ASSUME DocumentInv, RepairStart
    PROVE  DocumentInv'
<1>1. row \in Row \cup {NoRow} /\ objects \subseteq File
    BY DEF DocumentInv, DocumentTypeOK
<1>2. Named \subseteq File
    BY <1>1 DEF Named, Row
<1>3. UNCHANGED <<row, objects, task>> /\ calm' = FALSE /\ Named' = Named
    BY DEF RepairStart, Named
<1> DEFINE binary == row # NoRow /\ row.binary
           alone  == \A s \in Server : task[s] = NoTask
<1>4. binary \in BOOLEAN /\ alone \in BOOLEAN
    <2>1. CASE row = NoRow
        BY <2>1
    <2>2. CASE row # NoRow
        BY <1>1, <2>2 DEF Row
    <2> QED
        BY <2>1, <2>2
<1>5. repair' = [pc |-> "legacy", names |-> Named, legacy |-> FALSE, orphans |-> {},
                 saved |-> 0, binary |-> binary, alone |-> alone]
    BY DEF RepairStart
<1>6. /\ repair'.pc = "legacy" /\ repair'.names = Named
      /\ repair'.binary = binary /\ repair'.alone = alone
    <2> HIDE DEF binary, alone
    <2> QED
        BY <1>5
<1>7. repair' \in Repair
    <2> HIDE DEF binary, alone
    <2> QED
        BY <1>2, <1>4, <1>5 DEF Repair
<1>8. RepairHolds'
    BY <1>3, <1>6 DEF RepairHolds
<1> QED
    BY <1>1, <1>3, <1>7, <1>8, RepairStepKeeps

LEMMA RepairReadLegacyKeeps ==
    ASSUME DocumentInv, RepairReadLegacy
    PROVE  DocumentInv'
<1>1. /\ row \in Row \cup {NoRow} /\ objects \subseteq File
      /\ repair \in Repair /\ repair # NoRepair /\ repair.pc = "legacy"
    BY DEF DocumentInv, DocumentTypeOK, RepairReadLegacy, NoRepair
<1>2. UNCHANGED <<row, objects, task, calm>> /\ Named' = Named
    BY DEF RepairReadLegacy, Named
<1> DEFINE legacy == row # NoRow /\ row.binary /\ row.file = 0
<1>3. legacy \in BOOLEAN
    <2>1. CASE row = NoRow
        BY <2>1
    <2>2. CASE row # NoRow
        BY <1>1, <2>2 DEF Row
    <2> QED
        BY <2>1, <2>2
<1>4. repair' = [repair EXCEPT !.pc = "list", !.legacy = legacy]
    BY DEF RepairReadLegacy
<1>5. /\ repair' \in Repair /\ repair'.pc = "list" /\ repair'.legacy = legacy
      /\ repair'.names = repair.names /\ repair'.binary = repair.binary /\ repair'.alone = repair.alone
    <2> HIDE DEF legacy
    <2> QED
        BY <1>1, <1>3, <1>4 DEF Repair
<1>6. RepairHolds'
    BY <1>1, <1>2, <1>5 DEF RepairHolds, DocumentInv
<1> QED
    BY <1>1, <1>2, <1>5, <1>6, RepairStepKeeps

LEMMA RepairListKeeps ==
    ASSUME DocumentInv, RepairList
    PROVE  DocumentInv'
<1>1. /\ row \in Row \cup {NoRow} /\ objects \subseteq File
      /\ repair \in Repair /\ repair # NoRepair /\ repair.pc = "list"
    BY DEF DocumentInv, DocumentTypeOK, RepairList, NoRepair
<1>2. UNCHANGED <<row, objects, task, calm>> /\ Named' = Named
    BY DEF RepairList, Named
<1>3. /\ repair' \in Repair /\ repair'.pc = "restore" /\ repair'.legacy = repair.legacy
      /\ repair'.names = repair.names \ objects /\ repair'.orphans = objects \ repair.names
      /\ repair'.binary = repair.binary /\ repair'.alone = repair.alone
    BY <1>1 DEF RepairList, Repair
<1>4. RepairHolds'
    BY <1>1, <1>2, <1>3 DEF RepairHolds, DocumentInv
<1> QED
    BY <1>1, <1>2, <1>3, <1>4, RepairStepKeeps

LEMMA RepairRestoreKeeps ==
    ASSUME DocumentInv, RepairRestore
    PROVE  DocumentInv'
<1>1. /\ row \in Row \cup {NoRow} /\ objects \subseteq File
      /\ repair \in Repair /\ repair # NoRepair /\ repair.pc = "restore"
    BY DEF DocumentInv, DocumentTypeOK, RepairRestore, NoRepair
<1>2. UNCHANGED <<row, task, calm>> /\ Named' = Named
    BY DEF RepairRestore, Named
<1>3. /\ repair' \in Repair /\ repair'.pc = "migrate" /\ repair'.legacy = repair.legacy
      /\ repair'.orphans = repair.orphans
      /\ repair'.binary = repair.binary /\ repair'.alone = repair.alone
    BY <1>1 DEF RepairRestore, Repair
<1>4. objects' \subseteq File
    BY <1>1 DEF RepairRestore, FreshName, Repair
<1>5. RepairHolds'
    <2> SUFFICES ASSUME repair.alone PROVE RepairHolds'
        BY <1>3 DEF RepairHolds
    <2>1. repair.names = Named \ objects /\ repair.orphans = objects \ Named
        BY <1>1 DEF RepairHolds, DocumentInv
    <2>2. objects' = objects \/ (repair.binary /\ objects' = objects \cup (Named \ objects))
        BY <2>1 DEF RepairRestore
    <2>3. repair.binary => Named \subseteq objects'
        BY <2>1 DEF RepairRestore
    <2>4. /\ objects' \ repair'.orphans \subseteq Named
          /\ repair'.orphans \subseteq objects' /\ repair'.orphans \cap Named = {}
        BY <1>3, <2>1, <2>2
    <2> QED
        BY <1>1, <1>2, <1>3, <2>3, <2>4 DEF RepairHolds, DocumentInv
<1> QED
    BY <1>1, <1>2, <1>3, <1>4, <1>5, RepairStepKeeps

LEMMA RepairMigrateKeeps ==
    ASSUME DocumentInv, RepairMigrate
    PROVE  DocumentInv'
<1>1. /\ row \in Row \cup {NoRow} /\ objects \subseteq File
      /\ repair \in Repair /\ repair # NoRepair /\ repair.pc = "migrate" /\ repair.legacy
    BY DEF DocumentInv, DocumentTypeOK, RepairMigrate, NoRepair
<1>2. PICK f \in File : /\ FreshName(f) /\ objects' = objects \cup {f}
                        /\ repair' = [repair EXCEPT !.pc = "name", !.saved = f]
    BY DEF RepairMigrate
<1>3. UNCHANGED <<row, task, calm>> /\ Named' = Named /\ objects' \subseteq File /\ f \notin objects
    BY <1>1, <1>2 DEF RepairMigrate, Named, FreshName
<1>4. /\ repair' \in Repair /\ repair'.pc = "name" /\ repair'.saved = f
      /\ repair'.orphans = repair.orphans
      /\ repair'.binary = repair.binary /\ repair'.alone = repair.alone
    BY <1>1, <1>2 DEF Repair
<1>5. RepairHolds'
    <2> SUFFICES ASSUME repair.alone PROVE RepairHolds'
        BY <1>4 DEF RepairHolds
    <2>1. row # NoRow /\ row.file = 0 /\ repair.binary
        BY <1>1 DEF RepairHolds, DocumentInv
    <2>2. objects \ repair.orphans \subseteq Named /\ repair.orphans \subseteq objects
        BY <1>1 DEF RepairHolds, DocumentInv
    <2>3. Named = {}
        BY <2>1 DEF Named
    <2>4. /\ repair'.saved \in objects' \ repair'.orphans /\ repair'.orphans \subseteq objects'
          /\ objects' \ repair'.orphans \subseteq {repair'.saved}
        BY <1>2, <1>3, <1>4, <2>2, <2>3
    <2> QED
        BY <1>1, <1>3, <1>4, <2>1, <2>4 DEF RepairHolds, DocumentInv
<1> QED
    BY <1>1, <1>3, <1>4, <1>5, RepairStepKeeps

LEMMA RepairNameKeeps ==
    ASSUME DocumentInv, RepairName
    PROVE  DocumentInv'
<1>1. /\ row \in Row \cup {NoRow} /\ objects \subseteq File
      /\ repair \in Repair /\ repair # NoRepair /\ repair.pc = "name"
    BY DEF DocumentInv, DocumentTypeOK, RepairName, NoRepair
<1>2. UNCHANGED <<objects, task, calm>>
    BY DEF RepairName
<1>3. CASE row = NoRow
    BY <1>1, <1>2, <1>3, RepairStepKeeps DEF RepairName, RepairHolds
<1>4. CASE row # NoRow
    <2>1. row \in Row /\ repair.saved \in File \cup {0}
        BY <1>1, <1>4 DEF Repair
    <2>2. row' \in Row /\ row'.file = repair.saved /\ row'.binary = row.binary
        BY <1>4, <2>1 DEF Row, RepairName
    <2>3. row' # NoRow
        BY <2>2 DEF Row, NoRow
    <2>4. /\ repair' \in Repair /\ repair'.pc = "clean" /\ repair'.orphans = repair.orphans
          /\ repair'.binary = repair.binary /\ repair'.alone = repair.alone
        BY <1>1, <1>4 DEF Repair, RepairName
    <2>5. RepairHolds'
        <3> SUFFICES ASSUME repair.alone PROVE RepairHolds'
            BY <2>4 DEF RepairHolds
        <3>1. /\ repair.saved \in objects \ repair.orphans /\ repair.orphans \subseteq objects
              /\ objects \ repair.orphans \subseteq {repair.saved} /\ repair.binary
              /\ repair.binary = (row # NoRow /\ row.binary)
              /\ \A s \in Server : task[s] = NoTask
            BY <1>1, <1>4 DEF RepairHolds, DocumentInv
        <3>2. Named' = {repair.saved}
            BY <1>1, <2>2, <2>3, <3>1 DEF Named, File
        <3>3. /\ objects' \ repair'.orphans \subseteq Named' /\ Named' \subseteq objects'
              /\ repair'.orphans \subseteq objects' /\ repair'.orphans \cap Named' = {}
            BY <1>2, <2>4, <3>1, <3>2
        <3>4. repair'.binary = (row' # NoRow /\ row'.binary)
            BY <1>4, <2>2, <2>3, <2>4, <3>1
        <3> QED
            BY <1>2, <2>4, <3>1, <3>3, <3>4 DEF RepairHolds
    <2> QED
        BY <1>1, <1>2, <2>2, <2>4, <2>5, RepairStepKeeps
<1> QED
    BY <1>3, <1>4

LEMMA RepairNothingKeeps ==
    ASSUME DocumentInv, RepairNothingToMigrate
    PROVE  DocumentInv'
<1>1. /\ row \in Row \cup {NoRow} /\ objects \subseteq File
      /\ repair \in Repair /\ repair # NoRepair /\ repair.pc = "migrate"
    BY DEF DocumentInv, DocumentTypeOK, RepairNothingToMigrate, NoRepair
<1>2. UNCHANGED <<row, objects, task, calm>> /\ Named' = Named
    BY DEF RepairNothingToMigrate, Named
<1>3. /\ repair' \in Repair /\ repair'.pc = "clean" /\ repair'.orphans = repair.orphans
      /\ repair'.binary = repair.binary /\ repair'.alone = repair.alone
    BY <1>1 DEF RepairNothingToMigrate, Repair
<1>4. RepairHolds'
    BY <1>1, <1>2, <1>3 DEF RepairHolds, DocumentInv
<1> QED
    BY <1>1, <1>2, <1>3, <1>4, RepairStepKeeps

LEMMA RepairCleanKeeps ==
    ASSUME DocumentInv, RepairClean
    PROVE  DocumentInv'
<1>1. /\ row \in Row \cup {NoRow} /\ objects \subseteq File
      /\ repair \in Repair /\ repair # NoRepair /\ repair.pc = "clean"
    BY DEF DocumentInv, DocumentTypeOK, RepairClean, NoRepair
<1>2. PICK f \in repair.orphans : /\ objects' = objects \ {f}
                                  /\ repair' = [repair EXCEPT !.orphans = @ \ {f}]
    BY DEF RepairClean
<1>3. UNCHANGED <<row, task, calm>> /\ Named' = Named /\ objects' \subseteq File
    BY <1>1, <1>2 DEF RepairClean, Named
<1>4. /\ repair' \in Repair /\ repair'.pc = "clean" /\ repair'.orphans = repair.orphans \ {f}
      /\ repair'.binary = repair.binary /\ repair'.alone = repair.alone
    BY <1>1, <1>2 DEF Repair
<1>5. RepairHolds'
    <2> SUFFICES ASSUME repair.alone PROVE RepairHolds'
        BY <1>4 DEF RepairHolds
    <2>1. /\ objects \ repair.orphans \subseteq Named
          /\ repair.orphans \subseteq objects /\ repair.orphans \cap Named = {}
          /\ repair.binary => Named \subseteq objects
        BY <1>1 DEF RepairHolds, DocumentInv
    <2>2. /\ objects' \ repair'.orphans \subseteq Named'
          /\ repair'.orphans \subseteq objects' /\ repair'.orphans \cap Named' = {}
          /\ repair'.binary => Named' \subseteq objects'
        BY <1>2, <1>3, <1>4, <2>1
    <2> QED
        BY <1>1, <1>3, <1>4, <2>2 DEF RepairHolds, DocumentInv
<1> QED
    BY <1>1, <1>3, <1>4, <1>5, RepairStepKeeps

LEMMA RepairCleanedKeeps ==
    ASSUME DocumentInv, RepairCleaned
    PROVE  DocumentInv'
<1>1. /\ row \in Row \cup {NoRow} /\ objects \subseteq File
      /\ repair \in Repair /\ repair # NoRepair /\ repair.pc = "clean" /\ repair.orphans = {}
    BY DEF DocumentInv, DocumentTypeOK, RepairCleaned, NoRepair
<1>2. UNCHANGED <<row, objects, task, calm>> /\ Named' = Named
    BY DEF RepairCleaned, Named
<1>3. /\ repair' \in Repair /\ repair'.pc = "done"
      /\ repair'.binary = repair.binary /\ repair'.alone = repair.alone
    BY <1>1 DEF RepairCleaned, Repair
<1>4. RepairHolds'
    BY <1>1, <1>2, <1>3 DEF RepairHolds, DocumentInv
<1> QED
    BY <1>1, <1>2, <1>3, <1>4, RepairStepKeeps

LEMMA RepairEndsKeeps ==
    ASSUME DocumentInv, RepairEnds
    PROVE  DocumentInv'
<1>1. RepairHolds'
    BY DEF RepairEnds, RepairHolds
<1> QED
    BY <1>1, RepairStepKeeps DEF RepairEnds, DocumentInv, DocumentTypeOK

LEMMA DocumentSteps ==
    ASSUME DocumentInv, [DocumentNext]_documentVars
    PROVE  DocumentInv'
<1>1. ASSUME NEW s \in Server, RequestStep(s) PROVE DocumentInv'
    <2>1. CASE UploadConflict(s)
        BY <2>1, StopKeeps DEF UploadConflict
    <2>2. CASE PurgeFile(s)
        BY <2>2, StopKeeps DEF PurgeFile
    <2>3. CASE RequestEnds(s)
        <3>1. Stop(s) /\ UNCHANGED <<row, calm>> /\ objects' = objects \ {}
            BY <2>3 DEF RequestEnds
        <3> QED
            BY <3>1, StopKeeps
    <2> QED
        BY <1>1, <2>1, <2>2, <2>3, ReceiveKeeps, UploadCommits, RemovalReceiveKeeps, DeleteRowKeeps
           DEF RequestStep
<1>2. ASSUME RepairStep PROVE DocumentInv'
    BY <1>2, RepairStartKeeps, RepairReadLegacyKeeps, RepairListKeeps, RepairRestoreKeeps,
       RepairMigrateKeeps, RepairNameKeeps, RepairNothingKeeps, RepairCleanKeeps, RepairCleanedKeeps,
       RepairEndsKeeps DEF RepairStep
<1>3. CASE UNCHANGED documentVars
    BY <1>3 DEF documentVars, DocumentInv, DocumentTypeOK, CalmHolds, RepairHolds, ExpectedHolds, Named
<1> QED
    BY <1>1, <1>2, <1>3, OtherWriteKeeps, ObjectLostKeeps DEF DocumentNext

(* The inductive invariant of the stored document.                         *)
THEOREM DocumentInvariant == DocumentSpec => []DocumentInv
BY DocumentInitially, DocumentSteps, PTL DEF DocumentSpec

(* The row, the objects, the requests and the repair keep their types.     *)
THEOREM DocumentTypeCorrect == DocumentSpec => []DocumentTypeOK
<1>1. DocumentInv => DocumentTypeOK
    BY DEF DocumentInv
<1> QED
    BY <1>1, DocumentInvariant, PTL

(* Uploads that conflict and deletions never remove the object that the    *)
(* contract names (contract_document_upload, contract_detail).             *)
THEOREM NamedObjectStays == DocumentSpec => []NamedObjectExists
<1>1. DocumentInv => NamedObjectExists
    BY DEF DocumentInv, CalmHolds, NamedObjectExists
<1> QED
    BY <1>1, DocumentInvariant, PTL

(* An undisturbed repair leaves exactly the object that the contract names *)
(* (reconcile_contract_storage).                                           *)
THEOREM RepairIsExact == DocumentSpec => []RepairLeavesNamedObjects
<1>1. DocumentInv => RepairLeavesNamedObjects
    BY DEF DocumentInv, RepairHolds, RepairLeavesNamedObjects
<1> QED
    BY <1>1, DocumentInvariant, PTL

-----------------------------------------------------------------------------
(* The desk.  Its behaviours begin with a new deal, or with one under      *)
(* negotiation whose first offers have been sent, and follow one part: a   *)
(* step of the desk is a step of each part or leaves the part as it is, so *)
(* that what holds of the parts holds of the desk.                         *)
DeskInv == ContractInv /\ DocumentInv /\ SigningInv

LEMMA NegotiatedDealHolds == DeskDeal => ContractInv
<1> SUFFICES ASSUME DeskDeal, ~ContractInit PROVE ContractInv
    BY ContractInitially
<1> USE DealAssumption, ContractAssumption
<1>1. /\ deal \in [version : {1}, stage : {"NEGOTIATION"}, evaluator : Staff \ Admin]
      /\ loss = "NONE" /\ call = [h \in Handler |-> NoCall] /\ contract = NoContract
      /\ history = FALSE /\ job = [h \in Handler |-> NoJob]
    BY DEF DeskDeal
<1>2. PICK n \in Revision : offers = [r \in Revision |-> IF r <= n THEN "SENT" ELSE "NONE"]
    BY DEF DeskDeal
<1>3. deal \in Deal /\ offers \in [Revision -> OfferStatus \cup {"NONE"}]
    BY <1>1, <1>2 DEF Deal, Stage, OfferStatus, Evaluator
<1>4. ContractTypeOK
    BY <1>1, <1>3 DEF ContractTypeOK, DealTypeOK
<1> QED
    BY <1>1, <1>4
       DEF ContractInv, CallsHold, JobsHold, DeletionsHold, NoCall, NoJob, NoContract,
           WonDealIsSettled, ContractRestsOnAcceptedOffer, ContractHasHistory

LEMMA DeskInitially == DeskInit => DeskInv
BY NegotiatedDealHolds, DocumentInitially, SigningInitially DEF DeskInit, DeskInv

LEMMA DeskStep == [DeskNext]_deskVars =>
    [ContractNext]_contractVars /\ [DocumentNext]_documentVars /\ [SigningNext]_signingVars
BY DEF DeskNext, deskVars

(* The inductive invariants of the parts together are one of the desk.     *)
THEOREM DeskInvariant == DeskSpec => []DeskInv
<1>1. DeskInv /\ [DeskNext]_deskVars => DeskInv'
    BY DeskStep, ContractNextKeeps, DocumentSteps, SigningNextKeeps DEF DeskInv
<1> QED
    BY <1>1, DeskInitially, PTL DEF DeskSpec

(* The desk is type correct.                                               *)
THEOREM DeskTypeCorrect == DeskSpec => []DeskTypeOK
<1>1. DeskInv => DeskTypeOK
    BY DEF DeskInv, DeskTypeOK, ContractInv, DocumentInv, SigningInv
<1> QED
    BY <1>1, DeskInvariant, PTL

(* What has been agreed, stored and signed stands: the safety invariants   *)
(* of deals, contracts, stored documents and signings, also for a deal     *)
(* that is already under negotiation.                                      *)
THEOREM DeskIsSafe ==
    DeskSpec => [](/\ WonDealIsSettled /\ ContractRestsOnAcceptedOffer /\ ContractHasHistory
                   /\ NamedObjectExists /\ RepairLeavesNamedObjects
                   /\ SignedDocumentIsAttested)
<1>1. ContractInv => WonDealIsSettled /\ ContractRestsOnAcceptedOffer /\ ContractHasHistory
    BY DEF ContractInv
<1>2. DocumentInv => NamedObjectExists /\ RepairLeavesNamedObjects
    BY DEF DocumentInv, CalmHolds, RepairHolds, NamedObjectExists, RepairLeavesNamedObjects
<1>3. SigningInv => SignedDocumentIsAttested
    BY DEF SigningInv, Sound, SignedDocumentIsAttested
<1>4. DeskInv => /\ WonDealIsSettled /\ ContractRestsOnAcceptedOffer /\ ContractHasHistory
                 /\ NamedObjectExists /\ RepairLeavesNamedObjects
                 /\ SignedDocumentIsAttested
    BY <1>1, <1>2, <1>3 DEF DeskInv
<1> QED
    BY <1>4, DeskInvariant, PTL

(* What no step of the desk does: undo a final state that was seen, take a *)
(* case from its evaluator without being an administrator, or report       *)
(* another stage than a loss has left.                                     *)
THEOREM DeskStepsAreSafe ==
    DeskSpec => /\ FinalStateIsUndoneOnlyUnseen
                /\ CaseTakenOnlyByAdmin /\ LossReportsStageLeft
<1>1. DeskInv => ContractInv /\ SigningInv
    BY DEF DeskInv
<1> QED
    BY <1>1, DeskInvariant, DeskStep, FinalStep, EvaluatorStep, LossStep, PTL
       DEF DeskSpec, FinalStateIsUndoneOnlyUnseen, CaseTakenOnlyByAdmin, LossReportsStageLeft

(* The deal of the desk implements the versioned record, from whichever    *)
(* stage it begins in.                                                     *)
THEOREM DeskImplementsVersionedRecord == DeskSpec => DealIsVersionedRecord
<1>1. DeskInit => DealRecord!Init
    BY DEF DeskInit, DeskDeal, ContractInit, DealInit, DealRecord!Init, DealRecord!Free, NoJob
<1>2. DeskInv => ContractInv
    BY DEF DeskInv
<1> QED
    BY <1>1, <1>2, ContractNextAbstract, DeskInvariant, DeskStep, PTL
       DEF DeskSpec, DealIsVersionedRecord, DealRecord!Spec, DealBasis, BasisOf, DealContent
=============================================================================
