-------------------------------- MODULE MCDesk ---------------------------------
(***************************************************************************)
(* The contract desk: a deal with its contract, the stored document of a   *)
(* contract, and its signing.  The three share no state in these models,   *)
(* so a behaviour follows one of them and leaves the others as they begin. *)
(***************************************************************************)
EXTENDS Contracts, ContractDocuments, Signing, TLC

VARIABLE focus   \* the part that this behaviour follows

deskVars == <<contractVars, documentVars, signingVars, focus>>

DeskTypeOK == ContractTypeOK /\ DocumentTypeOK /\ SigningTypeOK

(* A new deal, or one under negotiation whose first offers have been sent. *)
DeskDeal ==
    \/ ContractInit
    \/ /\ deal \in [version : {1}, stage : {"NEGOTIATION"}, evaluator : Staff \ Admin]
       /\ \E n \in Revision : offers = [r \in Revision |-> IF r <= n THEN "SENT" ELSE "NONE"]
       /\ loss = "NONE"
       /\ call = [h \in Handler |-> NoCall]
       /\ contract = NoContract
       /\ history = FALSE
       /\ job = [h \in Handler |-> NoJob]

DeskInit ==
    /\ focus \in {"deal", "document", "signing"}
    /\ DeskDeal
    /\ DocumentInit
    /\ SigningInit
    /\ focus # "deal" => deal.stage = "QUALIFICATION" /\ deal.evaluator = Nobody
    /\ focus # "document" => row.binary

DeskNext ==
    \/ focus = "deal" /\ ContractNext /\ UNCHANGED <<documentVars, signingVars, focus>>
    \/ focus = "document" /\ DocumentNext /\ UNCHANGED <<contractVars, signingVars, focus>>
    \/ focus = "signing" /\ SigningNext /\ UNCHANGED <<contractVars, documentVars, focus>>

DeskSpec == DeskInit /\ [][DeskNext]_deskVars

Symmetry == Permutations(Handler) \cup Permutations(Server)
            \cup Permutations(Signer) \cup Permutations(Document)
=============================================================================
