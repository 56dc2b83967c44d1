------------------------------ MODULE Signing -------------------------------
(***************************************************************************)
(* The signing workflow of one contract (api/p1.py: contract_signing,      *)
(* contract_signature_upload, contract_signature_verification).  Every     *)
(* handler loads the row, checks the copy, changes it and saves the whole  *)
(* row; nothing is compared when it is saved.  The version that a client   *)
(* may send is compared with the loaded copy only, so it is left out.      *)
(*                                                                         *)
(* Abstracted: deadlines, responsible user, events, the fields of the      *)
(* evidence other than the hash of the document.                           *)
(***************************************************************************)
EXTENDS Naturals

CONSTANTS
    Signer,    \* server processes, each with at most one signing request
    Document   \* contents of final documents; a hash stands for its content

CONSTANT NoDocument
ASSUME SigningAssumption == NoDocument \notin Document

VARIABLES
    signing,   \* the ContractSigning row
    signer,    \* the request of each process, with the row that it loaded
    attested   \* hashes that accepted evidence was about (for properties)

signingVars == <<signing, signer, attested>>

Hash         == Document \cup {NoDocument}
SigningState == {"PREPARING", "SENT_FOR_SIGNATURE", "SIGNED", "CANCELLED"}
Verification == {"NOT_SUBMITTED", "PENDING", "VERIFIED", "FAILED"}
SigningRow   == [state : SigningState, verification : Verification, document : Hash, sha256 : Hash]

(* Mutant: a signed contract can still be cancelled.                       *)
LooseTransitions == [s \in SigningState |->
                        CASE s = "PREPARING" -> {"SENT_FOR_SIGNATURE", "CANCELLED"}
                          [] s \in {"SENT_FOR_SIGNATURE", "SIGNED"} -> {"SIGNED", "CANCELLED"}
                          [] OTHER -> {}]

(* SIGNING_TRANSITIONS.                                                    *)
Transitions  == [s \in SigningState |->
                    CASE s = "PREPARING"          -> {"SENT_FOR_SIGNATURE", "CANCELLED"}
                      [] s = "SENT_FOR_SIGNATURE" -> {"SIGNED", "CANCELLED"}
                      [] OTHER                    -> {}]

NoRequest    == [op |-> "none"]
Request      == [op : {"patch", "upload", "verified", "refused"}, seen : SigningRow, save : SigningRow]

SigningTypeOK ==
    /\ signing \in SigningRow
    /\ signer \in [Signer -> Request \cup {NoRequest}]
    /\ attested \subseteq Document

SigningInit ==
    /\ signing = [state |-> "PREPARING", verification |-> "NOT_SUBMITTED",
                  document |-> NoDocument, sha256 |-> NoDocument]
    /\ signer = [r \in Signer |-> NoRequest]
    /\ attested = {}

(* The handler has loaded the row and will save it changed like this.      *)
Loaded(r, op, save) ==
    /\ signer[r] = NoRequest
    /\ signer' = [signer EXCEPT ![r] = [op |-> op, seen |-> signing, save |-> save]]
    /\ UNCHANGED signing

(* contract_signing PATCH: a transition of the table or none; SIGNED is    *)
(* left to the verification.                                               *)
PatchReceive(r) ==
    /\ \E target \in Transitions[signing.state] \cup {signing.state} :
        /\ target = "SIGNED" => target = signing.state
        /\ Loaded(r, "patch", [signing EXCEPT !.state = target])
    /\ UNCHANGED attested

(* contract_signature_upload: the new document waits for its verification. *)
UploadSignature(r) ==
    /\ signing.state = "SENT_FOR_SIGNATURE"
    /\ \E d \in Document :
        Loaded(r, "upload", [signing EXCEPT !.verification = "PENDING", !.document = d, !.sha256 = d])
    /\ UNCHANGED attested

(* contract_signature_verification with evidence that holds: it is about   *)
(* the hash in the loaded row, or about a document kept by the provider.   *)
EvidenceHolds(r) ==
    /\ signing.state = "SENT_FOR_SIGNATURE"
    /\ \E d \in Document :
        /\ signing.sha256 \in {NoDocument, d}
        /\ Loaded(r, "verified", [signing EXCEPT !.state = "SIGNED", !.verification = "VERIFIED", !.sha256 = d])
        /\ attested' = attested \cup {d}

(* Evidence that fails, for whatever reason.                               *)
EvidenceFails(r) ==
    /\ signing.state = "SENT_FOR_SIGNATURE"
    /\ Loaded(r, "refused", [signing EXCEPT !.verification = "FAILED"])
    /\ UNCHANGED attested

(* Mutant: a verification saves its verdict but not the hash it is about.  *)
SaveVerdictOnly(r) ==
    /\ signer[r] # NoRequest
    /\ signing' = IF signer[r].op = "refused" THEN [signing EXCEPT !.verification = "FAILED"]
                  ELSE IF signer[r].op = "verified"
                  THEN [signing EXCEPT !.state = "SIGNED", !.verification = "VERIFIED"]
                  ELSE signer[r].save
    /\ signer' = [signer EXCEPT ![r] = NoRequest]
    /\ UNCHANGED attested

(* signing.save() writes all fields of the loaded row; a failed            *)
(* verification writes only its own fields.                                *)
Save(r) ==
    /\ signer[r] # NoRequest
    /\ signing' = IF signer[r].op = "refused" THEN [signing EXCEPT !.verification = "FAILED"]
                  ELSE signer[r].save
    /\ signer' = [signer EXCEPT ![r] = NoRequest]
    /\ UNCHANGED attested

SigningNext == \E r \in Signer :
    \/ PatchReceive(r) \/ UploadSignature(r) \/ EvidenceHolds(r) \/ EvidenceFails(r) \/ Save(r)

SigningSpec == SigningInit /\ [][SigningNext]_signingVars
-----------------------------------------------------------------------------
(* A signed contract carries the hash of a document that the provider has  *)
(* attested, and the stored document, if there is one, has that hash -     *)
(* whichever uploads and verifications were saved over each other.         *)
SignedDocumentIsAttested ==
    signing.state = "SIGNED" =>
        /\ signing.sha256 \in attested
        /\ signing.document \in {NoDocument, signing.sha256}

(* Only a request that loaded the row before it was signed or cancelled    *)
(* can take it back out of that state.                                     *)
FinalStateIsUndoneOnlyUnseen ==
    [][signing.state \in {"SIGNED", "CANCELLED"} /\ signing'.state # signing.state =>
          \E r \in Signer : /\ signer[r] # NoRequest /\ signer'[r] = NoRequest
                            /\ signer[r].seen.state # signing.state]_signingVars
=============================================================================
