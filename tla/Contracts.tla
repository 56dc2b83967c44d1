----------------------------- MODULE Contracts ------------------------------
(***************************************************************************)
(* The contract of a won deal and its controlled PDF versions              *)
(* (api/parity.py, api/p1.py, api/views.py, operations/p1_signals.py),     *)
(* together with the deal it comes from.  One contract id is the whole     *)
(* component: rows of different ids never meet.  The stored document of    *)
(* the contract is modelled in ContractDocuments.                          *)
(*                                                                         *)
(* Abstracted: templates, texts, the retention time (a deletion may come   *)
(* at any time after the archiving) and the contents of the PDF files.     *)
(***************************************************************************)
EXTENDS Deals

CONSTANT MaxContractVersion  \* bound: Contract.version

ASSUME ContractAssumption == MaxContractVersion \in Nat \ {0}

VARIABLES
    contract,  \* the row, or NoContract
    history,   \* TRUE while the ContractHistory row exists
    job        \* the contract request of each handler

contractVars == <<deal, offers, loss, call, contract, history, job>>

(* Contract: the offer it comes from (0: entered by hand) and the number   *)
(* of its newest ContractVersion, whose PDF Contract.document holds (0:    *)
(* none); the versions before it exist as well.  A request to replace has  *)
(* latest = 0 when the version that it has read is gone.                   *)
Contract   == [version : 1 .. MaxContractVersion, archived : BOOLEAN,
               offer : 0 .. MaxOffers, latest : Nat]
NoContract == [version |-> 0]
JobOp      == {"generate", "replace", "archive", "delete", "purge history"}
Job        == [op : JobOp, expected : Nat, offer : 0 .. MaxOffers, latest : Nat]
NoJob      == [op |-> "none"]

ContractTypeOK ==
    /\ DealTypeOK
    /\ contract \in Contract \cup {NoContract}
    /\ history \in BOOLEAN
    /\ job \in [Handler -> Job \cup {NoJob}]

ContractInit ==
    /\ DealInit
    /\ contract = NoContract
    /\ history = FALSE
    /\ job = [h \in Handler |-> NoJob]

NewContract(offer, n) ==
    [version |-> 1, archived |-> FALSE, offer |-> offer, latest |-> n]

-----------------------------------------------------------------------------
(* The handler has loaded its rows and goes on to its transaction.         *)
Begin(h, op, expected, offer, latest) ==
    /\ call[h] = NoCall
    /\ job[h] = NoJob
    /\ job' = [job EXCEPT ![h] = [op |-> op, expected |-> expected, offer |-> offer, latest |-> latest]]
    /\ UNCHANGED <<deal, offers, loss, call, contract, history>>

End(h) == job' = [job EXCEPT ![h] = NoJob]

(* contract_generate_from_deal up to its transaction: the draft needs a    *)
(* won deal with an accepted offer, and the id must be unused.             *)
GenerateReceive(h) ==
    /\ deal.stage = "WON"
    /\ contract = NoContract
    /\ ~history
    /\ deal.version < MaxVersion
    /\ \E r \in Revision :
        /\ offers[r] = "ACCEPTED"
        /\ Begin(h, "generate", deal.version, r, 0)

(* Mutant: the deal is not updated on the condition of its version.        *)
GenerateAllowedUnversioned(h) ==
    contract = NoContract /\ ~history /\ deal.stage = "WON" /\ offers[job[h].offer] = "ACCEPTED"

(* The id is still unused, and the signal on the new row accepts only a    *)
(* won deal with an accepted offer.                                        *)
GenerateAllowed(h) ==
    /\ job[h].expected = deal.version
    /\ contract = NoContract
    /\ ~history
    /\ deal.stage = "WON"
    /\ offers[job[h].offer] = "ACCEPTED"

(* One transaction: the deal gets a new version; the contract, its history *)
(* and its first controlled version are created.                           *)
Generate(h) ==
    /\ job[h].op = "generate"
    /\ GenerateAllowed(h)
    /\ deal' = [deal EXCEPT !.version = @ + 1]
    /\ contract' = NewContract(job[h].offer, 1)
    /\ history' = TRUE
    /\ End(h)
    /\ UNCHANGED <<offers, loss, call>>

(* Mutant: a history that exists is taken over.                            *)
EnterReusingHistory(h) ==
    /\ call[h] = NoCall
    /\ job[h] = NoJob
    /\ contract = NoContract
    /\ contract' = NewContract(0, 0)
    /\ history' = TRUE
    /\ UNCHANGED <<deal, offers, loss, call, job>>

(* contracts POST: a contract without a deal.  For an id whose history     *)
(* exists the insert of the history fails and rolls everything back.       *)
Enter(h) ==
    /\ call[h] = NoCall
    /\ job[h] = NoJob
    /\ contract = NoContract
    /\ ~history
    /\ contract' = NewContract(0, 0)
    /\ history' = TRUE
    /\ UNCHANGED <<deal, offers, loss, call, job>>

(* contract_versions POST up to its transaction: the client's version is   *)
(* the loaded one, and the deal is still won with the accepted offer.      *)
ReplaceReceive(h) ==
    /\ contract # NoContract
    /\ contract.latest # 0
    /\ contract.version < MaxContractVersion
    /\ deal.stage = "WON"
    /\ offers[contract.offer] = "ACCEPTED"
    /\ Begin(h, "replace", contract.version, contract.offer, contract.latest)

(* Mutant: any version will do.                                            *)
IsCurrentUnversioned(h) == contract # NoContract

IsCurrent(h) == contract # NoContract /\ contract.version = job[h].expected

(* The row is locked and must still have the version.  The new version     *)
(* refers to the one that was read before the lock, which a deletion takes *)
(* away with the row, and has the number after it, which must be free.     *)
ReplaceAllowed(h) ==
    /\ IsCurrent(h)
    /\ job[h].latest # 0
    /\ job[h].latest + 1 \notin 1 .. contract.latest

Replace(h) ==
    /\ job[h].op = "replace"
    /\ ReplaceAllowed(h)
    /\ contract' = [contract EXCEPT !.version = @ + 1, !.latest = job[h].latest + 1]
    /\ End(h)
    /\ UNCHANGED <<deal, offers, loss, call, history>>

(* contract_detail PATCH.                                                  *)
ArchiveReceive(h) ==
    /\ contract # NoContract
    /\ history
    /\ contract.version < MaxContractVersion
    /\ Begin(h, "archive", contract.version, 0, 0)

Archive(h) ==
    /\ job[h].op = "archive"
    /\ IsCurrent(h)
    /\ contract' = [contract EXCEPT !.version = @ + 1, !.archived = TRUE]
    /\ End(h)
    /\ UNCHANGED <<deal, offers, loss, call, history>>

(* contract_detail DELETE: the row with its versions, then the history.  A *)
(* version that another one supersedes is protected, and the request ends. *)
DeleteReceive(h) ==
    /\ contract # NoContract
    /\ history
    /\ contract.archived
    /\ Begin(h, "delete", contract.version, 0, 0)

Delete(h) ==
    /\ job[h].op = "delete"
    /\ IsCurrent(h)
    /\ contract.latest < 2
    /\ contract' = NoContract
    /\ job' = [g \in Handler |-> IF g = h THEN [job[g] EXCEPT !.op = "purge history"]
                                 ELSE IF job[g].op = "replace" THEN [job[g] EXCEPT !.latest = 0]
                                 ELSE job[g]]
    /\ UNCHANGED <<deal, offers, loss, call, history>>

PurgeHistory(h) ==
    /\ job[h].op = "purge history"
    /\ history' = FALSE
    /\ End(h)
    /\ UNCHANGED <<deal, offers, loss, call, contract>>

(* A request whose condition fails at the end, or whose process dies,      *)
(* leaves what it has committed.                                           *)
ContractRequestEnds(h) ==
    /\ job[h] # NoJob
    /\ End(h)
    /\ UNCHANGED <<deal, offers, loss, call, contract, history>>

DealSteps(h) ==
    /\ job[h] = NoJob
    /\ DealStep(h)
    /\ UNCHANGED <<contract, history, job>>

ContractStep(h) ==
    \/ GenerateReceive(h) \/ Generate(h) \/ Enter(h)
    \/ ReplaceReceive(h) \/ Replace(h)
    \/ ArchiveReceive(h) \/ Archive(h)
    \/ DeleteReceive(h) \/ Delete(h) \/ PurgeHistory(h)
    \/ ContractRequestEnds(h)

ContractNext == \E h \in Handler : DealSteps(h) \/ ContractStep(h)

ContractSpec == ContractInit /\ [][ContractNext]_contractVars
-----------------------------------------------------------------------------
(* The offer that a generated contract names is an accepted offer for as   *)
(* long as the contract exists, whatever happens to the deal meanwhile.    *)
ContractRestsOnAcceptedOffer ==
    contract # NoContract /\ contract.offer # 0 => offers[contract.offer] = "ACCEPTED"

(* An id whose contract exists has its history: the reverse order of a     *)
(* deletion, or a death in its middle, never leaves a contract without.    *)
ContractHasHistory == contract # NoContract => history

(* The deal, its offers and its loss are one versioned record: a request   *)
(* changes them only while they are what its handler has checked, the      *)
(* generation of a contract included.                                      *)
DealRecord == INSTANCE VersionedRecord WITH
    Writer  <- Handler,
    version <- deal.version,
    content <- <<deal.stage, deal.evaluator, offers, loss>>,
    basis   <- [h \in Handler |-> IF call[h] # NoCall THEN call[h].seen.version
                                 ELSE IF job[h].op = "generate" THEN job[h].expected
                                 ELSE 0]

DealIsVersionedRecord == DealRecord!Spec
=============================================================================
