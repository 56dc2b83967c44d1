--------------------------- MODULE Contracts_proofs ---------------------------
(***************************************************************************)
(* Proofs about deals and their contracts, for any number of handlers,     *)
(* users and offers.  The core is optimistic locking: whatever a request   *)
(* has checked on its copy still holds while the version of the row is the *)
(* one it has seen.                                                        *)
(***************************************************************************)
EXTENDS Contracts, TLAPS

-----------------------------------------------------------------------------
(* The version a client sent is one it was shown, the copy is not newer    *)
(* than the row, and while it is as new as the row it is the row and the   *)
(* checks made on it still hold.                                           *)
CallHolds(c) ==
    /\ c.expected < MaxVersion /\ c.expected <= c.seen.version /\ c.seen.version <= deal.version
    /\ c.seen.version = deal.version => c.seen = deal /\ Admitted(c)

CallsHold == \A h \in Handler : call[h] # NoCall => CallHolds(call[h])

(* A handler serves one request, and the versions a job counts on have     *)
(* been there.                                                             *)
JobsHold ==
    \A h \in Handler :
        /\ job[h] # NoJob => call[h] = NoCall
        /\ job[h].op = "generate" =>
            /\ job[h].expected \in 1 .. deal.version
            /\ job[h].expected < MaxVersion
            /\ job[h].offer \in Revision
        /\ job[h].op \in {"replace", "archive"} => job[h].expected < MaxContractVersion

(* Between the two steps of a deletion there is no contract, its history   *)
(* keeps the id from being used, and no other deletion is at that point.   *)
DeletionsHold ==
    \A h \in Handler : job[h].op = "purge history" =>
        /\ contract = NoContract /\ history
        /\ \A i \in Handler : job[i].op = "purge history" => i = h

ContractInv ==
    /\ ContractTypeOK
    /\ CallsHold
    /\ JobsHold
    /\ DeletionsHold
    /\ WonDealIsSettled
    /\ ContractRestsOnAcceptedOffer
    /\ ContractHasHistory

LEMMA ContractInitially == ContractInit => ContractInv
<1> SUFFICES ASSUME ContractInit PROVE ContractInv
    OBVIOUS
<1> USE DealAssumption, ContractAssumption DEF ContractInit, DealInit
<1>1. deal \in Deal /\ offers \in [Revision -> OfferStatus \cup {"NONE"}]
    BY DEF Deal, Stage, OfferStatus
<1>2. call \in [Handler -> DealCall \cup {NoCall}] /\ job \in [Handler -> Job \cup {NoJob}]
    BY DEF NoCall, NoJob
<1>3. ContractTypeOK
    BY <1>1, <1>2 DEF ContractTypeOK, DealTypeOK
<1>4. deal.stage # "WON"
    OBVIOUS
<1> QED
    BY <1>3, <1>4
       DEF ContractInv, CallsHold, JobsHold, DeletionsHold, NoCall, NoJob, NoContract,
           WonDealIsSettled, ContractRestsOnAcceptedOffer, ContractHasHistory

-----------------------------------------------------------------------------
(* A request that reaches its transaction with the current version: the    *)
(* copy it has decided on is the row.                                      *)
LEMMA CommitDecides ==
    ASSUME ContractInv, NEW h \in Handler, call[h] # NoCall, call[h].expected = deal.version
    PROVE  /\ call[h] \in DealCall
           /\ call[h].seen = deal /\ Admitted(call[h])
           /\ deal \in Deal /\ deal.version < MaxVersion
<1>1. call[h] \in DealCall /\ deal \in Deal
    BY DEF ContractInv, ContractTypeOK, DealTypeOK
<1>2. CallHolds(call[h])
    BY DEF ContractInv, CallsHold
<1>3. call[h].seen.version \in Nat /\ deal.version \in Nat /\ call[h].expected \in Nat
    BY <1>1, DealAssumption DEF DealCall, Deal
<1> QED
    BY <1>1, <1>2, <1>3 DEF CallHolds

(* The new row of an update, and what becomes of the requests.             *)
LEMMA UpdateRow ==
    ASSUME ContractInv, NEW h \in Handler, call[h] # NoCall,
           NEW s \in Stage, NEW e \in Evaluator, UpdateIfCurrent(h, s, e)
    PROVE  /\ call[h].expected = deal.version
           /\ deal' \in Deal /\ deal'.version = deal.version + 1
           /\ deal'.stage = s /\ deal'.evaluator = e
           /\ call' = [call EXCEPT ![h] = NoCall]
           /\ call' \in [Handler -> DealCall \cup {NoCall}]
           /\ CallsHold'
<1>1. /\ call[h].expected = deal.version
      /\ deal' = [version |-> deal.version + 1, stage |-> s, evaluator |-> e]
      /\ call' = [call EXCEPT ![h] = NoCall]
    BY DEF UpdateIfCurrent
<1>2. deal.version \in 1 .. MaxVersion /\ deal.version < MaxVersion
    BY <1>1, CommitDecides DEF Deal
<1>3. deal' \in Deal
    BY <1>1, <1>2, DealAssumption DEF Deal
<1>4. call \in [Handler -> DealCall \cup {NoCall}]
    BY DEF ContractInv, ContractTypeOK, DealTypeOK
<1>5. call' \in [Handler -> DealCall \cup {NoCall}]
    BY <1>1, <1>4
<1>6. ASSUME NEW i \in Handler, call'[i] # NoCall PROVE CallHolds(call[i])' 
    <2>1. call'[i] = call[i] /\ call[i] \in DealCall
        BY <1>1, <1>4, <1>6
    <2>2. call[i].seen.version \in Nat /\ call[i].seen.version <= deal.version /\ CallHolds(call[i])
        BY <1>6, <2>1, DealAssumption DEF ContractInv, CallsHold, CallHolds, DealCall, Deal
    <2>3. call[i].seen.version < deal'.version
        BY <1>1, <1>2, <2>2
    <2> QED
        BY <1>1, <1>2, <2>1, <2>2, <2>3 DEF CallHolds
<1> QED
    BY <1>1, <1>3, <1>5, <1>6 DEF CallsHold

(* An update of the deal, with what the conditional update leaves to each  *)
(* operation: its stage and evaluator, the offers and the loss.            *)
Updates(h) ==
    /\ call[h] # NoCall
    /\ \E s \in Stage, e \in Evaluator : UpdateIfCurrent(h, s, e)
    /\ offers' \in [Revision -> OfferStatus \cup {"NONE"}]
    /\ \A r \in Revision : offers[r] = "ACCEPTED" => offers'[r] = "ACCEPTED"
    /\ loss' \in Stage \cup {"NONE"}
    /\ WonDealIsSettled'

LEMMA NewOfferAdds ==
    ASSUME ContractInv, NewOffer
    PROVE  /\ offers' \in [Revision -> OfferStatus \cup {"NONE"}]
           /\ \A r \in Revision : offers[r] = "ACCEPTED" => offers'[r] = "ACCEPTED"
<1>1. offers \in [Revision -> OfferStatus \cup {"NONE"}]
    BY DEF ContractInv, ContractTypeOK, DealTypeOK
<1>2. PICK r \in Revision : offers[r] = "NONE" /\ offers' = [offers EXCEPT ![r] = "DRAFT"]
    BY DEF NewOffer
<1> QED
    BY <1>1, <1>2 DEF OfferStatus

(* The evaluation of a case, which leaves the offers alone.                *)
LEMMA EvaluationUpdates ==
    ASSUME ContractInv, NEW h \in Handler,
           Claim(h) \/ ReleaseCase(h) \/ Assign(h) \/ SubmitEvaluation(h) \/ Cancel(h)
    PROVE  Updates(h)
<1>1. /\ offers \in [Revision -> OfferStatus \cup {"NONE"}]
      /\ loss \in Stage \cup {"NONE"} /\ deal \in Deal /\ WonDealIsSettled
      /\ call \in [Handler -> DealCall \cup {NoCall}]
    BY DEF ContractInv, ContractTypeOK, DealTypeOK
<1>2. call[h] # NoCall
    BY DEF NoCall, Claim, ReleaseCase, Assign, SubmitEvaluation, Cancel
<1>3. /\ call[h].by \in Evaluator /\ call[h].person \in Evaluator /\ call[h].seen.evaluator \in Evaluator
      /\ deal.stage \in Stage /\ deal.evaluator \in Evaluator /\ Nobody \in Evaluator
    BY <1>1, <1>2 DEF DealCall, Deal, Evaluator
<1>4. UNCHANGED <<offers, loss>>
    BY DEF Claim, ReleaseCase, Assign, SubmitEvaluation, Cancel
<1>5. ASSUME NEW s \in Stage, NEW e \in Evaluator, UpdateIfCurrent(h, s, e), s = "WON" => s = deal.stage
      PROVE  Updates(h)
    <2>1. deal'.stage = s
        BY <1>2, <1>5, UpdateRow
    <2>2. WonDealIsSettled'
        BY <1>1, <1>4, <1>5, <2>1 DEF WonDealIsSettled
    <2> QED
        BY <1>1, <1>2, <1>4, <1>5, <2>2 DEF Updates
<1>6. "EVALUATION" \in Stage /\ "NEGOTIATION" \in Stage /\ "CANCELLED" \in Stage
    BY DEF Stage, ClosedStage
<1>7. CASE Claim(h)
    BY <1>3, <1>5, <1>6, <1>7 DEF Claim
<1>8. CASE ReleaseCase(h)
    BY <1>3, <1>5, <1>8 DEF ReleaseCase
<1>9. CASE Assign(h)
    BY <1>3, <1>5, <1>6, <1>9 DEF Assign
<1>10. CASE SubmitEvaluation(h)
    <2> DEFINE s == IF call[h].op = "approve" THEN "NEGOTIATION" ELSE "EVALUATION"
               e == IF call[h].seen.evaluator = Nobody THEN call[h].by ELSE call[h].seen.evaluator
    <2>1. s \in Stage /\ e \in Evaluator /\ s # "WON"
        BY <1>3, <1>6
    <2>2. UpdateIfCurrent(h, s, e)
        BY <1>10 DEF SubmitEvaluation
    <2> HIDE DEF s, e
    <2> QED
        BY <1>5, <2>1, <2>2
<1>11. CASE Cancel(h)
    BY <1>3, <1>5, <1>6, <1>11 DEF Cancel
<1> QED
    BY <1>7, <1>8, <1>9, <1>10, <1>11

(* Offers: a new one, one that is sent, and the one that wins.             *)
LEMMA OfferUpdates ==
    ASSUME ContractInv, NEW h \in Handler, CreateOffer(h) \/ CounterOffer(h) \/ SendOffer(h)
    PROVE  Updates(h)
<1>1. /\ offers \in [Revision -> OfferStatus \cup {"NONE"}]
      /\ loss \in Stage \cup {"NONE"} /\ deal \in Deal
      /\ call \in [Handler -> DealCall \cup {NoCall}]
    BY DEF ContractInv, ContractTypeOK, DealTypeOK
<1>2. call[h] # NoCall
    BY DEF NoCall, CreateOffer, CounterOffer, SendOffer
<1>3. deal.stage \in Stage /\ deal.evaluator \in Evaluator /\ "NEGOTIATION" \in Stage
    BY <1>1 DEF Deal, Stage
<1>4. loss' = loss /\ call[h].expected = deal.version
    BY DEF CreateOffer, CounterOffer, SendOffer, UpdateIfCurrent
<1>5. Admitted(call[h]) /\ call[h] \in DealCall
    BY <1>2, <1>4, CommitDecides
<1>6. ASSUME NEW s \in Stage, NEW e \in Evaluator, UpdateIfCurrent(h, s, e), s # "WON",
             offers' \in [Revision -> OfferStatus \cup {"NONE"}],
             \A r \in Revision : offers[r] = "ACCEPTED" => offers'[r] = "ACCEPTED"
      PROVE  Updates(h)
    <2>1. deal'.stage = s
        BY <1>2, <1>6, UpdateRow
    <2>2. WonDealIsSettled'
        BY <1>6, <2>1 DEF WonDealIsSettled
    <2> QED
        BY <1>1, <1>2, <1>4, <1>6, <2>2 DEF Updates
<1>7. CASE CreateOffer(h)
    <2>1. deal.stage # "WON"
        BY <1>5, <1>7 DEF CreateOffer, Admitted, ClosedStage
    <2> QED
        BY <1>3, <1>6, <1>7, <2>1, NewOfferAdds DEF CreateOffer
<1>8. CASE CounterOffer(h)
    BY <1>3, <1>6, <1>8, NewOfferAdds DEF CounterOffer
<1>9. CASE SendOffer(h)
    <2>1. offers[call[h].offer] = "DRAFT" /\ call[h].offer \in Revision
        BY <1>5, <1>9 DEF SendOffer, Admitted, DealCall
    <2>2. offers' = [offers EXCEPT ![call[h].offer] = "SENT"] /\ UpdateIfCurrent(h, "NEGOTIATION", deal.evaluator)
        BY <1>9 DEF SendOffer
    <2>3. /\ offers' \in [Revision -> OfferStatus \cup {"NONE"}]
          /\ \A r \in Revision : offers[r] = "ACCEPTED" => offers'[r] = "ACCEPTED"
        BY <1>1, <2>1, <2>2 DEF OfferStatus
    <2> QED
        BY <1>3, <1>6, <2>2, <2>3
<1> QED
    BY <1>7, <1>8, <1>9

LEMMA ClosingUpdates ==
    ASSUME ContractInv, NEW h \in Handler, Win(h) \/ Lose(h)
    PROVE  Updates(h)
<1>1. /\ offers \in [Revision -> OfferStatus \cup {"NONE"}]
      /\ loss \in Stage \cup {"NONE"} /\ deal \in Deal
      /\ call \in [Handler -> DealCall \cup {NoCall}]
    BY DEF ContractInv, ContractTypeOK, DealTypeOK
<1>2. call[h] # NoCall
    BY DEF NoCall, Win, Lose
<1>3. deal.evaluator \in Evaluator /\ "WON" \in Stage /\ "LOST" \in Stage
    BY <1>1 DEF Deal, Stage, ClosedStage
<1>4. call[h] \in DealCall
    BY <1>1, <1>2
<1>5. CASE Win(h)
    <2>1. /\ UpdateIfCurrent(h, "WON", deal.evaluator) /\ loss' = loss
          /\ offers' = [r \in Revision |-> IF r = call[h].offer THEN "ACCEPTED"
                                            ELSE IF offers[r] \in OpenOffer THEN "REJECTED"
                                            ELSE offers[r]]
        BY <1>5 DEF Win
    <2>2. call[h].offer \in Revision
        BY <1>4 DEF DealCall
    <2>3. offers' \in [Revision -> OfferStatus \cup {"NONE"}]
        BY <1>1, <2>1 DEF OfferStatus
    <2>4. \A r \in Revision : offers[r] = "ACCEPTED" => offers'[r] = "ACCEPTED"
        BY <2>1 DEF OpenOffer
    <2>5. WonDealIsSettled'
        BY <2>1, <2>2 DEF WonDealIsSettled, OpenOffer
    <2> QED
        BY <1>1, <1>2, <1>3, <2>1, <2>3, <2>4, <2>5 DEF Updates
<1>6. CASE Lose(h)
    <2>1. UpdateIfCurrent(h, "LOST", deal.evaluator) /\ loss' = call[h].seen.stage /\ offers' = offers
        BY <1>6 DEF Lose
    <2>2. loss' \in Stage
        BY <1>4, <2>1 DEF DealCall, Deal
    <2>3. deal'.stage = "LOST"
        BY <1>2, <1>3, <2>1, UpdateRow
    <2>4. WonDealIsSettled'
        BY <2>3 DEF WonDealIsSettled
    <2> QED
        BY <1>1, <1>2, <1>3, <2>1, <2>2, <2>4 DEF Updates
<1> QED
    BY <1>5, <1>6

LEMMA CommitUpdates ==
    ASSUME ContractInv, NEW h \in Handler, DealCommit(h)
    PROVE  Updates(h)
BY EvaluationUpdates, OfferUpdates, ClosingUpdates DEF DealCommit

-----------------------------------------------------------------------------
LEMMA UpdatesKeep ==
    ASSUME ContractInv, NEW h \in Handler, Updates(h), UNCHANGED <<contract, history, job>>
    PROVE  ContractInv'
<1>1. PICK s \in Stage, e \in Evaluator : UpdateIfCurrent(h, s, e)
    BY DEF Updates
<1>2. /\ deal \in Deal /\ deal' \in Deal /\ deal'.version = deal.version + 1
      /\ call' = [call EXCEPT ![h] = NoCall]
      /\ call' \in [Handler -> DealCall \cup {NoCall}] /\ CallsHold'
    BY <1>1, UpdateRow DEF Updates, ContractInv, ContractTypeOK, DealTypeOK
<1>3. ContractTypeOK'
    BY <1>2 DEF Updates, ContractInv, ContractTypeOK, DealTypeOK
<1>4. \A i \in Handler : job[i] # NoJob => call'[i] = NoCall
    BY <1>2 DEF ContractInv, ContractTypeOK, DealTypeOK, JobsHold
<1>5. deal.version \in Nat /\ \A n \in 1 .. deal.version : n \in 1 .. deal'.version
    BY <1>2, DealAssumption DEF Deal
<1>6. JobsHold'
    BY <1>4, <1>5 DEF ContractInv, JobsHold
<1>7. DeletionsHold' /\ ContractHasHistory'
    BY DEF ContractInv, DeletionsHold, ContractHasHistory
<1>8. ContractRestsOnAcceptedOffer'
    <2>1. contract # NoContract /\ contract.offer # 0 => contract.offer \in Revision
        BY DealAssumption DEF ContractInv, ContractTypeOK, Contract, Revision
    <2> QED
        BY <2>1 DEF ContractInv, ContractRestsOnAcceptedOffer, Updates
<1> QED
    BY <1>2, <1>3, <1>6, <1>7, <1>8 DEF ContractInv, Updates

LEMMA DealReceiveKeeps ==
    ASSUME ContractInv, NEW h \in Handler, job[h] = NoJob, DealReceive(h),
           UNCHANGED <<contract, history, job>>
    PROVE  ContractInv'
<1>1. PICK op \in DealOp, p \in Evaluator, o \in Revision, e \in Evaluator, v \in 1 .. MaxVersion - 1 :
        LET c == [op |-> op, by |-> p, offer |-> o, person |-> e, expected |-> v, seen |-> deal]
        IN  /\ v <= deal.version
            /\ v < deal.version => op = "cancel"
            /\ op \notin {"send", "won"} => o = 1
            /\ op # "assign" => e = Nobody
            /\ op \in ByEvaluator <=> p # Nobody
            /\ op \in {"offer", "counter"} => offers[MaxOffers] = "NONE"
            /\ Admitted(c)
            /\ call' = [call EXCEPT ![h] = c]
    BY Zenon DEF DealReceive
<1> DEFINE c == [op |-> op, by |-> p, offer |-> o, person |-> e, expected |-> v, seen |-> deal]
<1>2. UNCHANGED <<deal, offers, loss>>
    BY DEF DealReceive
<1>3. deal \in Deal /\ call \in [Handler -> DealCall \cup {NoCall}]
    BY DEF ContractInv, ContractTypeOK, DealTypeOK
<1>4. deal.version \in 1 .. MaxVersion
    BY <1>3 DEF Deal
<1>5. c \in DealCall /\ CallHolds(c)
    BY <1>1, <1>3, <1>4, DealAssumption DEF DealCall, CallHolds
<1>6. call' = [call EXCEPT ![h] = c]
    BY <1>1
<1> HIDE DEF c
<1>7. call' \in [Handler -> DealCall \cup {NoCall}]
    BY <1>3, <1>5, <1>6
<1>8. \A i \in Handler : call'[i] # NoCall => CallHolds(call'[i])
    BY <1>3, <1>5, <1>6 DEF ContractInv, CallsHold
<1>9. CallsHold'
    BY <1>2, <1>8 DEF CallsHold, CallHolds, Admitted, MayEvaluate
<1>10. JobsHold'
    BY <1>2, <1>3, <1>6 DEF ContractInv, JobsHold
<1> QED
    BY <1>2, <1>7, <1>9, <1>10
       DEF ContractInv, ContractTypeOK, DealTypeOK, DeletionsHold, WonDealIsSettled,
           ContractRestsOnAcceptedOffer, ContractHasHistory

(* A request that changes nothing ends.                                    *)
LEMMA DealRefusalKeeps ==
    ASSUME ContractInv, NEW h \in Handler, DealConflict(h) \/ LoseAgain(h),
           UNCHANGED <<contract, history, job>>
    PROVE  ContractInv'
<1>1. call' = [call EXCEPT ![h] = NoCall] /\ UNCHANGED <<deal, offers, loss>>
    BY DEF DealConflict, LoseAgain
<1>2. call \in [Handler -> DealCall \cup {NoCall}]
    BY DEF ContractInv, ContractTypeOK, DealTypeOK
<1>3. /\ call' \in [Handler -> DealCall \cup {NoCall}]
      /\ \A i \in Handler : call'[i] \in {call[i], NoCall}
    BY <1>1, <1>2
<1>4. CallsHold'
    BY <1>1, <1>3 DEF ContractInv, CallsHold, CallHolds, Admitted, MayEvaluate
<1>5. JobsHold'
    BY <1>1, <1>3 DEF ContractInv, JobsHold
<1> QED
    BY <1>1, <1>3, <1>4, <1>5
       DEF ContractInv, ContractTypeOK, DealTypeOK, DeletionsHold, WonDealIsSettled,
           ContractRestsOnAcceptedOffer, ContractHasHistory

LEMMA DealStepsKeep ==
    ASSUME ContractInv, NEW h \in Handler, DealSteps(h)
    PROVE  ContractInv'
BY CommitUpdates, UpdatesKeep, DealReceiveKeeps, DealRefusalKeeps DEF DealSteps, DealStep

-----------------------------------------------------------------------------
(* A contract request loads its rows.                                      *)
LEMMA BeginKeeps ==
    ASSUME ContractInv, NEW h \in Handler,
           GenerateReceive(h) \/ ReplaceReceive(h) \/ ArchiveReceive(h) \/ DeleteReceive(h)
    PROVE  ContractInv'
<1>1. /\ deal \in Deal /\ contract \in Contract \cup {NoContract}
      /\ job \in [Handler -> Job \cup {NoJob}]
    BY DEF ContractInv, ContractTypeOK, DealTypeOK
<1>2. deal.version \in 1 .. MaxVersion /\ deal.version \in Nat /\ deal.version \in 1 .. deal.version
    BY <1>1, DealAssumption DEF Deal
<1>3. contract # NoContract => contract.version \in Nat /\ contract.offer \in 0 .. MaxOffers /\ contract.latest \in Nat
    BY <1>1, ContractAssumption DEF Contract
<1>4. ASSUME NEW op \in JobOp \ {"purge history"}, NEW expected \in Nat, NEW offer \in 0 .. MaxOffers, NEW latest \in Nat,
             Begin(h, op, expected, offer, latest),
             op = "generate" => expected = deal.version /\ deal.version < MaxVersion /\ offer \in Revision,
             op \in {"replace", "archive"} => expected < MaxContractVersion
      PROVE  ContractInv'
    <2> DEFINE j == [op |-> op, expected |-> expected, offer |-> offer, latest |-> latest]
    <2>1. /\ call[h] = NoCall /\ job' = [job EXCEPT ![h] = j]
          /\ UNCHANGED <<deal, offers, loss, call, contract, history>>
        BY <1>4 DEF Begin
    <2>2. j \in Job
        BY DEF Job
    <2>3. job' \in [Handler -> Job \cup {NoJob}]
        BY <1>1, <2>1, <2>2
    <2>4. JobsHold'
        <3>1. job'[h] = j /\ \A i \in Handler \ {h} : job'[i] = job[i]
            BY <1>1, <2>1
        <3>3. j.op = op /\ j.expected = expected /\ j.offer = offer
            OBVIOUS
        <3> HIDE DEF j
        <3>4. \A i \in Handler : job'[i] # NoJob => call'[i] = NoCall
            BY <2>1, <3>1 DEF ContractInv, JobsHold
        <3>5. \A i \in Handler : job'[i].op = "generate" =>
                  /\ job'[i].expected \in 1 .. deal.version /\ job'[i].expected < MaxVersion
                  /\ job'[i].offer \in Revision
            BY <1>2, <1>4, <3>1, <3>3 DEF ContractInv, JobsHold
        <3>6. \A i \in Handler : job'[i].op \in {"replace", "archive"} => job'[i].expected < MaxContractVersion
            BY <1>4, <3>1, <3>3 DEF ContractInv, JobsHold
        <3> QED
            BY <2>1, <3>4, <3>5, <3>6 DEF JobsHold
    <2>5. DeletionsHold'
        BY <1>1, <2>1 DEF ContractInv, DeletionsHold
    <2> QED
        BY <2>1, <2>3, <2>4, <2>5
           DEF ContractInv, ContractTypeOK, DealTypeOK, CallsHold, CallHolds, Admitted, MayEvaluate,
               WonDealIsSettled, ContractRestsOnAcceptedOffer, ContractHasHistory
<1>5. CASE GenerateReceive(h)
    <2>1. PICK r \in Revision : Begin(h, "generate", deal.version, r, 0)
        BY <1>5 DEF GenerateReceive
    <2>2. deal.version < MaxVersion /\ r \in 0 .. MaxOffers
        BY <1>5, DealAssumption DEF GenerateReceive, Revision
    <2> QED
        BY <1>2, <1>4, <2>1, <2>2 DEF JobOp
<1>6. CASE ReplaceReceive(h)
    BY <1>3, <1>4, <1>6 DEF ReplaceReceive, JobOp
<1>7. 0 \in Nat /\ 0 \in 0 .. MaxOffers
    BY DealAssumption
<1>8. CASE ArchiveReceive(h)
    <2>1. /\ contract.version \in Nat /\ contract.version < MaxContractVersion
          /\ Begin(h, "archive", contract.version, 0, 0)
        BY <1>3, <1>8 DEF ArchiveReceive
    <2>2. "archive" \in JobOp \ {"purge history"} /\ "archive" # "generate"
        BY DEF JobOp
    <2> QED
        BY <1>4, <1>7, <2>1, <2>2
<1>9. CASE DeleteReceive(h)
    <2>1. contract.version \in Nat /\ Begin(h, "delete", contract.version, 0, 0)
        BY <1>3, <1>9 DEF DeleteReceive
    <2>2. "delete" \in JobOp \ {"purge history"} /\ "delete" \notin {"generate", "replace", "archive"}
        BY DEF JobOp
    <2> QED
        BY <1>4, <1>7, <2>1, <2>2
<1> QED
    BY <1>5, <1>6, <1>8, <1>9

(* The jobs that are left when one request ends.                           *)
LEMMA EndLeaves ==
    ASSUME ContractInv, NEW h \in Handler, End(h)
    PROVE  /\ job' \in [Handler -> Job \cup {NoJob}]
           /\ job'[h] = NoJob
           /\ \A i \in Handler : i # h => job'[i] = job[i]
           /\ NoJob.op \notin JobOp
BY DEF ContractInv, ContractTypeOK, End, NoJob, JobOp

LEMMA GenerateKeeps ==
    ASSUME ContractInv, NEW h \in Handler, Generate(h)
    PROVE  ContractInv'
<1>1. /\ job[h].op = "generate" /\ job[h].expected = deal.version
      /\ contract = NoContract /\ ~history
      /\ deal.stage = "WON" /\ offers[job[h].offer] = "ACCEPTED"
      /\ deal' = [deal EXCEPT !.version = @ + 1]
      /\ contract' = NewContract(job[h].offer, 1) /\ history' = TRUE /\ End(h)
      /\ UNCHANGED <<offers, loss, call>>
    BY DEF Generate, GenerateAllowed
<1>2. /\ deal \in Deal /\ call \in [Handler -> DealCall \cup {NoCall}]
      /\ job[h].expected < MaxVersion /\ job[h].offer \in Revision
    BY <1>1 DEF ContractInv, ContractTypeOK, DealTypeOK, JobsHold
<1>3. deal.version \in 1 .. MaxVersion /\ deal.version < MaxVersion /\ deal.version \in Nat
    BY <1>1, <1>2, DealAssumption DEF Deal
<1>4. /\ deal' \in Deal /\ deal'.version = deal.version + 1
      /\ deal'.stage = deal.stage /\ deal'.evaluator = deal.evaluator
    BY <1>1, <1>2, <1>3, DealAssumption DEF Deal
<1>5. contract' \in Contract /\ contract'.offer = job[h].offer
    BY <1>1, <1>2, DealAssumption, ContractAssumption DEF NewContract, Contract, Revision
<1>6. CallsHold'
    <2> SUFFICES ASSUME NEW i \in Handler, call[i] # NoCall PROVE CallHolds(call[i])'
        BY <1>1 DEF CallsHold
    <2>1. call[i] \in DealCall /\ CallHolds(call[i])
        BY <1>2 DEF ContractInv, CallsHold
    <2>2. call[i].seen.version \in Nat
        BY <2>1, DealAssumption DEF DealCall, Deal
    <2>3. call[i].seen.version < deal'.version /\ call'[i] = call[i]
        BY <1>1, <1>3, <1>4, <2>1, <2>2 DEF CallHolds
    <2>4. deal'.version \in Nat
        BY <1>3, <1>4
    <2>5. call[i].seen.version <= deal'.version /\ call[i].seen.version # deal'.version
        BY <2>2, <2>3, <2>4
    <2> QED
        BY <2>1, <2>3, <2>5 DEF CallHolds
<1>7. \A n \in 1 .. deal.version : n \in 1 .. deal'.version
    BY <1>3, <1>4
<1>8. JobsHold'
    BY <1>1, <1>7, EndLeaves DEF ContractInv, JobsHold, JobOp
<1>9. DeletionsHold'
    BY <1>1, EndLeaves DEF ContractInv, DeletionsHold, JobOp
<1>10. ContractTypeOK'
    BY <1>1, <1>4, <1>5, EndLeaves DEF ContractInv, ContractTypeOK, DealTypeOK
<1> QED
    BY <1>1, <1>4, <1>5, <1>6, <1>8, <1>9, <1>10
       DEF ContractInv, WonDealIsSettled, ContractRestsOnAcceptedOffer, ContractHasHistory

LEMMA EnterKeeps ==
    ASSUME ContractInv, NEW h \in Handler, Enter(h)
    PROVE  ContractInv'
<1>1. /\ contract = NoContract /\ ~history
      /\ contract' = NewContract(0, 0) /\ history' = TRUE
      /\ UNCHANGED <<deal, offers, loss, call, job>>
    BY DEF Enter
<1>2. contract' \in Contract /\ contract'.offer = 0
    BY <1>1, DealAssumption, ContractAssumption DEF NewContract, Contract
<1>3. DeletionsHold'
    BY <1>1 DEF ContractInv, DeletionsHold
<1> QED
    BY <1>1, <1>2, <1>3
       DEF ContractInv, ContractTypeOK, DealTypeOK, CallsHold, CallHolds, Admitted, MayEvaluate, JobsHold,
           WonDealIsSettled, ContractRestsOnAcceptedOffer, ContractHasHistory

(* A contract that is still the one its request has loaded is changed.     *)
LEMMA ChangeKeeps ==
    ASSUME ContractInv, NEW h \in Handler, Replace(h) \/ Archive(h)
    PROVE  ContractInv'
<1>1. /\ job[h].op \in {"replace", "archive"}
      /\ contract # NoContract /\ contract.version = job[h].expected /\ End(h)
      /\ UNCHANGED <<deal, offers, loss, call, history>>
    BY DEF Replace, Archive, ReplaceAllowed, IsCurrent
<1>2. contract \in Contract /\ contract.version < MaxContractVersion /\ job \in [Handler -> Job \cup {NoJob}]
    BY <1>1 DEF ContractInv, ContractTypeOK, JobsHold
<1>3. contract' \in Contract /\ contract'.offer = contract.offer
    <2> contract.version + 1 \in 1 .. MaxContractVersion
        BY <1>2, ContractAssumption DEF Contract
    <2>1. CASE Replace(h)
        <3>1. job[h].latest \in Nat
            BY <1>1, <1>2 DEF Job, NoJob
        <3>2. contract' = [contract EXCEPT !.version = @ + 1, !.latest = job[h].latest + 1]
            BY <2>1 DEF Replace
        <3> DEFINE v == contract.version + 1
                   l == job[h].latest + 1
        <3>3. contract' = [contract EXCEPT !.version = v, !.latest = l] /\ v \in 1 .. MaxContractVersion /\ l \in Nat
            BY <1>2, <3>1, <3>2 DEF Contract
        <3> HIDE DEF v, l
        <3> QED
            BY <1>2, <3>3 DEF Contract
    <2>2. CASE Archive(h)
        BY <1>2, <2>2 DEF Archive, Contract
    <2> QED
        BY <2>1, <2>2
<1>4. DeletionsHold'
    BY <1>1, EndLeaves DEF ContractInv, DeletionsHold, JobOp
<1>5. JobsHold'
    BY <1>1, EndLeaves DEF ContractInv, JobsHold, JobOp
<1> QED
    BY <1>1, <1>3, <1>4, <1>5, EndLeaves
       DEF ContractInv, ContractTypeOK, DealTypeOK, CallsHold, CallHolds, Admitted, MayEvaluate,
           WonDealIsSettled, ContractRestsOnAcceptedOffer, ContractHasHistory

LEMMA DeleteKeeps ==
    ASSUME ContractInv, NEW h \in Handler, Delete(h)
    PROVE  ContractInv'
<1>1. /\ job[h].op = "delete" /\ contract # NoContract /\ contract' = NoContract
      /\ job' = [g \in Handler |-> IF g = h THEN [job[g] EXCEPT !.op = "purge history"]
                                   ELSE IF job[g].op = "replace" THEN [job[g] EXCEPT !.latest = 0]
                                   ELSE job[g]]
      /\ UNCHANGED <<deal, offers, loss, call, history>>
    BY DEF Delete, IsCurrent
<1>2. /\ job \in [Handler -> Job \cup {NoJob}] /\ job[h] # NoJob /\ history
      /\ \A i \in Handler : job[i].op # "purge history"
    <2>1. job \in [Handler -> Job \cup {NoJob}] /\ history
        BY <1>1 DEF ContractInv, ContractTypeOK, ContractHasHistory
    <2>2. job[h] # NoJob
        <3>1. NoJob.op = "none" /\ job[h].op = "delete"
            BY <1>1 DEF NoJob
        <3> QED
            BY <3>1
    <2>3. \A i \in Handler : job[i].op # "purge history"
        BY <1>1 DEF ContractInv, DeletionsHold
    <2> QED
        BY <2>1, <2>2, <2>3
<1>3. job[h] \in Job
    BY <1>2
<1>4. job'[h] \in Job /\ job'[h].op = "purge history"
    BY <1>1, <1>3 DEF Job, JobOp
<1>5. ASSUME NEW i \in Handler, i # h
      PROVE  /\ job'[i] \in Job \cup {NoJob} /\ job'[i].op = job[i].op
             /\ job'[i] # NoJob => job[i] # NoJob
             /\ job[i].op # "none" => job'[i].expected = job[i].expected /\ job'[i].offer = job[i].offer
    <2>1. CASE job[i] = NoJob
        BY <1>1, <1>5, <2>1 DEF NoJob
    <2>2. CASE job[i] # NoJob
        <3>1. job[i] \in Job
            BY <1>2, <2>2
        <3>2. job'[i] \in {job[i], [job[i] EXCEPT !.latest = 0]}
            BY <1>1, <1>5
        <3> QED
            BY <2>2, <3>1, <3>2 DEF Job
    <2> QED
        BY <2>1, <2>2
<1>6. job' \in [Handler -> Job \cup {NoJob}]
    <2>1. \A i \in Handler : job'[i] \in Job \cup {NoJob}
        BY <1>4, <1>5
    <2> QED
        BY <1>1, <2>1
<1>7. JobsHold'
    BY <1>1, <1>2, <1>4, <1>5 DEF ContractInv, JobsHold
<1>8. DeletionsHold'
    BY <1>1, <1>2, <1>4, <1>5 DEF DeletionsHold
<1> QED
    BY <1>1, <1>6, <1>7, <1>8
       DEF ContractInv, ContractTypeOK, DealTypeOK, CallsHold, CallHolds, Admitted, MayEvaluate,
           WonDealIsSettled, ContractRestsOnAcceptedOffer, ContractHasHistory

(* The history goes last, or the request ends early.                       *)
LEMMA EndKeeps ==
    ASSUME ContractInv, NEW h \in Handler, PurgeHistory(h) \/ ContractRequestEnds(h)
    PROVE  ContractInv'
<1>1. End(h) /\ UNCHANGED <<deal, offers, loss, call, contract>> /\ history' \in BOOLEAN
    BY DEF PurgeHistory, ContractRequestEnds, ContractInv, ContractTypeOK
<1>2. history' = history \/ (job[h].op = "purge history" /\ contract = NoContract)
    BY DEF PurgeHistory, ContractRequestEnds, ContractInv, DeletionsHold
<1>3. JobsHold'
    BY <1>1, EndLeaves DEF ContractInv, JobsHold, JobOp
<1>4. DeletionsHold'
    <2> SUFFICES ASSUME NEW i \in Handler, job'[i].op = "purge history"
                 PROVE  /\ contract' = NoContract /\ history'
                        /\ \A k \in Handler : job'[k].op = "purge history" => k = i
        BY DEF DeletionsHold
    <2>1. i # h /\ job'[i] = job[i]
        BY <1>1, EndLeaves DEF JobOp
    <2>2. contract = NoContract /\ history /\ job[h].op # "purge history"
        BY <2>1 DEF ContractInv, DeletionsHold
    <2>3. \A k \in Handler : job'[k].op = "purge history" => k # h /\ job'[k] = job[k]
        BY <1>1, EndLeaves DEF JobOp
    <2> QED
        BY <1>1, <1>2, <2>1, <2>2, <2>3 DEF ContractInv, DeletionsHold
<1>5. ContractHasHistory'
    BY <1>1, <1>2 DEF ContractInv, ContractHasHistory
<1>6. ContractTypeOK'
    BY <1>1, EndLeaves DEF ContractInv, ContractTypeOK, DealTypeOK
<1> QED
    BY <1>1, <1>3, <1>4, <1>5, <1>6
       DEF ContractInv, CallsHold, CallHolds, Admitted, MayEvaluate, WonDealIsSettled,
           ContractRestsOnAcceptedOffer

-----------------------------------------------------------------------------
LEMMA ContractNextKeeps == ContractInv /\ [ContractNext]_contractVars => ContractInv'
<1> SUFFICES ASSUME ContractInv, [ContractNext]_contractVars PROVE ContractInv'
    OBVIOUS
<1>1. CASE UNCHANGED contractVars
    BY <1>1 DEF contractVars, ContractInv, ContractTypeOK, DealTypeOK, CallsHold, CallHolds, Admitted,
                MayEvaluate, JobsHold, DeletionsHold, WonDealIsSettled,
                ContractRestsOnAcceptedOffer, ContractHasHistory
<1>2. ASSUME NEW h \in Handler, DealSteps(h) \/ ContractStep(h) PROVE ContractInv'
    BY <1>2, DealStepsKeep, BeginKeeps, GenerateKeeps, EnterKeeps, ChangeKeeps, DeleteKeeps, EndKeeps
       DEF ContractStep
<1> QED
    BY <1>1, <1>2 DEF ContractNext

(* The invariant holds in every state.                                     *)
THEOREM ContractInvariant == ContractSpec => []ContractInv
BY ContractInitially, ContractNextKeeps, PTL DEF ContractSpec

(* Deals and contracts are type correct.                                   *)
THEOREM ContractTypeCorrect == ContractSpec => []ContractTypeOK
BY ContractInvariant, PTL DEF ContractInv

(* While a deal is won it has an accepted offer and none that could still  *)
(* be sent or accepted, however many offers and requests there are.        *)
THEOREM WonDealStaysSettled == ContractSpec => []WonDealIsSettled
BY ContractInvariant, PTL DEF ContractInv

(* The offer of a generated contract stays accepted.                       *)
THEOREM ContractKeepsItsOffer == ContractSpec => []ContractRestsOnAcceptedOffer
BY ContractInvariant, PTL DEF ContractInv

(* A contract always has its history, whatever deletions overlap or die.   *)
THEOREM ContractKeepsItsHistory == ContractSpec => []ContractHasHistory
BY ContractInvariant, PTL DEF ContractInv

-----------------------------------------------------------------------------
(* Of the requests, only those for a deal touch the loss.                  *)
LEMMA LossStep == ContractInv /\ [ContractNext]_contractVars
                    => [loss' # loss => loss' = deal.stage /\ deal.stage \notin ClosedStage]_dealVars
<1> SUFFICES ASSUME ContractInv, [ContractNext]_contractVars, loss' # loss
             PROVE  loss' = deal.stage /\ deal.stage \notin ClosedStage
    OBVIOUS
<1>1. PICK h \in Handler : Lose(h)
    BY DEF ContractNext, contractVars, DealSteps, DealStep, DealCommit, ContractStep, DealReceive,
           Claim, ReleaseCase, Assign, SubmitEvaluation, CreateOffer, CounterOffer, SendOffer, Win, Cancel,
           LoseAgain, DealConflict, GenerateReceive, ReplaceReceive, ArchiveReceive, DeleteReceive, Begin,
           Generate, Enter, Replace, Archive, Delete, PurgeHistory, ContractRequestEnds
<1>2. call[h] # NoCall /\ call[h].op = "lost" /\ loss' = call[h].seen.stage /\ call[h].expected = deal.version
    BY <1>1 DEF Lose, UpdateIfCurrent, NoCall
<1>3. call[h].seen = deal /\ Admitted(call[h])
    BY <1>2, CommitDecides
<1> QED
    BY <1>2, <1>3 DEF Admitted

(* The stage that a structured loss reports is the stage the deal was in.  *)
THEOREM LossReportsWhatItLeft == ContractSpec => LossReportsStageLeft
BY ContractInvariant, LossStep, PTL DEF ContractSpec, LossReportsStageLeft

(* The evaluator changes only by a claim, a release, an assignment or a    *)
(* submitted evaluation, each under the checks of its handler.             *)
LEMMA EvaluatorStep == ContractInv /\ [ContractNext]_contractVars
    => [\A p \in Staff : deal.evaluator = p /\ deal'.evaluator \notin {p, Nobody} =>
            \E h \in Handler : call[h] # NoCall /\ call[h].by \in Admin /\ call'[h] = NoCall]_dealVars
<1> SUFFICES ASSUME ContractInv, [ContractNext]_contractVars, NEW p \in Staff,
                    deal.evaluator = p, deal'.evaluator \notin {p, Nobody}
             PROVE  \E h \in Handler : call[h] # NoCall /\ call[h].by \in Admin /\ call'[h] = NoCall
    OBVIOUS
<1>1. p # Nobody
    BY DealAssumption
<1>2. PICK h \in Handler : DealCommit(h) \/ Generate(h)
    BY DEF ContractNext, contractVars, DealSteps, DealStep, ContractStep, DealReceive,
           LoseAgain, DealConflict, GenerateReceive, ReplaceReceive, ArchiveReceive, DeleteReceive, Begin,
           Enter, Replace, Archive, Delete, PurgeHistory, ContractRequestEnds
<1>3. ~Generate(h)
    <2> SUFFICES ASSUME Generate(h) PROVE FALSE
        OBVIOUS
    <2>1. deal \in Deal /\ deal' = [deal EXCEPT !.version = @ + 1]
        BY DEF Generate, ContractInv, ContractTypeOK, DealTypeOK
    <2> QED
        BY <2>1 DEF Deal
<1>4. PICK s \in Stage, e \in Evaluator : UpdateIfCurrent(h, s, e)
    BY <1>2, <1>3, CommitUpdates DEF Updates
<1>5. call[h] # NoCall
    BY <1>2, <1>3, CommitUpdates DEF Updates
<1>6. deal'.evaluator = e /\ call' = [call EXCEPT ![h] = NoCall] /\ call[h].expected = deal.version
    BY <1>4, <1>5, UpdateRow
<1>7. call[h].seen = deal /\ Admitted(call[h]) /\ call'[h] = NoCall
    BY <1>5, <1>6, CommitDecides DEF ContractInv, ContractTypeOK, DealTypeOK
<1>8. \A t, x : UpdateIfCurrent(h, t, x) => deal'.evaluator = x
    BY DEF UpdateIfCurrent
<1>9. call[h].by \in Admin
    <2>1. CASE Claim(h)
        <3>1. deal'.evaluator = call[h].by /\ call[h].op = "claim"
            BY <1>8, <2>1 DEF Claim
        <3> QED
            BY <1>1, <1>7, <3>1 DEF Admitted, MayEvaluate
    <2>2. CASE Assign(h)
        BY <1>7, <2>2 DEF Assign, Admitted
    <2>3. CASE SubmitEvaluation(h)
        BY <1>1, <1>7, <1>8, <2>3 DEF SubmitEvaluation
    <2>4. CASE ReleaseCase(h)
        BY <1>8, <2>4 DEF ReleaseCase
    <2>5. CASE CreateOffer(h) \/ CounterOffer(h) \/ SendOffer(h) \/ Win(h) \/ Lose(h) \/ Cancel(h)
        BY <1>8, <2>5 DEF CreateOffer, CounterOffer, SendOffer, Win, Lose, Cancel
    <2> QED
        BY <1>2, <1>3, <2>1, <2>2, <2>3, <2>4, <2>5 DEF DealCommit
<1> QED
    BY <1>5, <1>7, <1>9

(* An evaluator loses a case only to an administrator.                     *)
THEOREM OnlyAdminTakesCase == ContractSpec => CaseTakenOnlyByAdmin
BY ContractInvariant, EvaluatorStep, PTL DEF ContractSpec, CaseTakenOnlyByAdmin

-----------------------------------------------------------------------------
(* The refinement: a request for the deal, or for the generation of its    *)
(* contract, is a writer of the versioned record.                          *)
BasisOf(h) == IF call[h] # NoCall THEN call[h].seen.version
              ELSE IF job[h].op = "generate" THEN job[h].expected ELSE 0
DealBasis   == [h \in Handler |-> BasisOf(h)]
DealContent == <<deal.stage, deal.evaluator, offers, loss>>

(* A step of h, by what it does to the record and to the basis of h.       *)
LEMMA StepOfHandler ==
    ASSUME NEW h \in Handler, \A i \in Handler \ {h} : call'[i] = call[i] /\ job'[i] = job[i]
    PROVE  DealBasis' = [DealBasis EXCEPT ![h] = BasisOf(h)']
BY DEF DealBasis, BasisOf

LEMMA RecordReads ==
    ASSUME NEW h \in Handler, BasisOf(h) = 0, BasisOf(h)' = deal.version,
           DealBasis' = [DealBasis EXCEPT ![h] = BasisOf(h)'],
           UNCHANGED <<deal, offers, loss>>
    PROVE  DealRecord!Next
<1>1. UNCHANGED <<deal.version, DealContent>> /\ DealBasis[h] = 0 /\ DealBasis' = [DealBasis EXCEPT ![h] = deal.version]
    BY DEF DealBasis, DealContent
<1>2. DealRecord!Read(h)
    BY <1>1 DEF DealRecord!Read, DealRecord!Free, DealBasis, DealContent, BasisOf
<1> QED
    BY <1>2 DEF DealRecord!Next

LEMMA RecordOverwrites ==
    ASSUME NEW h \in Handler, BasisOf(h) = deal.version, BasisOf(h)' = 0,
           DealBasis' = [DealBasis EXCEPT ![h] = BasisOf(h)'],
           deal'.version = deal.version + 1
    PROVE  DealRecord!Next
<1>1. DealBasis[h] = deal.version /\ DealBasis' = [DealBasis EXCEPT ![h] = 0]
    BY DEF DealBasis
<1>2. DealRecord!Overwrite(h)
    BY <1>1 DEF DealRecord!Overwrite, DealRecord!Free, DealBasis, BasisOf
<1> QED
    BY <1>2 DEF DealRecord!Next

LEMMA RecordRefuses ==
    ASSUME NEW h \in Handler, BasisOf(h) # 0, BasisOf(h)' = 0,
           DealBasis' = [DealBasis EXCEPT ![h] = BasisOf(h)'],
           UNCHANGED <<deal, offers, loss>>
    PROVE  DealRecord!Next
<1>1. UNCHANGED <<deal.version, DealContent>> /\ DealBasis[h] # 0 /\ DealBasis' = [DealBasis EXCEPT ![h] = 0]
    BY DEF DealBasis, DealContent
<1>2. DealRecord!Refuse(h)
    BY <1>1 DEF DealRecord!Refuse, DealRecord!Free, DealBasis, DealContent, BasisOf
<1> QED
    BY <1>2 DEF DealRecord!Next

(* What the abstract record does in each kind of step.                     *)
RecordStep == DealRecord!Next \/ UNCHANGED <<deal.version, DealContent, DealBasis>>

LEMMA DealStepsAbstract ==
    ASSUME ContractInv, NEW h \in Handler, DealSteps(h)
    PROVE  RecordStep
<1>1. job[h] = NoJob /\ job' = job /\ NoJob.op = "none"
    BY DEF DealSteps, NoJob
<1>2. call \in [Handler -> DealCall \cup {NoCall}] /\ deal \in Deal
    BY DEF ContractInv, ContractTypeOK, DealTypeOK
<1>3. BasisOf(h) = IF call[h] # NoCall THEN call[h].seen.version ELSE 0
    BY <1>1 DEF BasisOf
<1>4. BasisOf(h)' = IF call'[h] # NoCall THEN call'[h].seen.version ELSE 0
    BY <1>1 DEF BasisOf
<1>5. CASE DealReceive(h)
    <2>1. PICK op \in DealOp, p \in Evaluator, o \in Revision, e \in Evaluator, v \in 1 .. MaxVersion - 1 :
            LET c == [op |-> op, by |-> p, offer |-> o, person |-> e, expected |-> v, seen |-> deal]
            IN  /\ v <= deal.version
                /\ v < deal.version => op = "cancel"
                /\ op \notin {"send", "won"} => o = 1
                /\ op # "assign" => e = Nobody
                /\ op \in ByEvaluator <=> p # Nobody
                /\ op \in {"offer", "counter"} => offers[MaxOffers] = "NONE"
                /\ Admitted(c)
                /\ call' = [call EXCEPT ![h] = c]
        BY <1>5, Zenon DEF DealReceive
    <2>2. call[h] = NoCall /\ UNCHANGED <<deal, offers, loss>>
        BY <1>5 DEF DealReceive
    <2>3. call'[h].seen = deal /\ call'[h] # NoCall /\ \A i \in Handler \ {h} : call'[i] = call[i]
        BY <1>2, <2>1 DEF NoCall
    <2>4. BasisOf(h) = 0 /\ BasisOf(h)' = deal.version
        BY <1>3, <1>4, <2>2, <2>3
    <2>5. DealBasis' = [DealBasis EXCEPT ![h] = BasisOf(h)']
        BY <1>1, <2>3, StepOfHandler
    <2> QED
        BY <2>2, <2>4, <2>5, RecordReads DEF RecordStep
<1>6. CASE DealCommit(h)
    <2>1. PICK s \in Stage, e \in Evaluator : UpdateIfCurrent(h, s, e)
        BY <1>6, CommitUpdates DEF Updates
    <2>2. call[h] # NoCall
        BY <1>6, CommitUpdates DEF Updates
    <2>3. /\ call[h].expected = deal.version /\ deal'.version = deal.version + 1
          /\ call' = [call EXCEPT ![h] = NoCall]
        BY <2>1, <2>2, UpdateRow
    <2>4. call[h].seen = deal /\ call'[h] = NoCall /\ \A i \in Handler \ {h} : call'[i] = call[i]
        BY <1>2, <2>2, <2>3, CommitDecides
    <2>5. BasisOf(h) = deal.version /\ BasisOf(h)' = 0
        BY <1>3, <1>4, <2>2, <2>4
    <2>6. DealBasis' = [DealBasis EXCEPT ![h] = BasisOf(h)']
        BY <1>1, <2>4, StepOfHandler
    <2> QED
        BY <2>3, <2>5, <2>6, RecordOverwrites DEF RecordStep
<1>7. CASE DealConflict(h) \/ LoseAgain(h)
    <2>1. call[h] # NoCall /\ call' = [call EXCEPT ![h] = NoCall] /\ UNCHANGED <<deal, offers, loss>>
        BY <1>7 DEF DealConflict, LoseAgain
    <2>2. call'[h] = NoCall /\ \A i \in Handler \ {h} : call'[i] = call[i]
        BY <1>2, <2>1
    <2>3. call[h].seen.version # 0
        BY <1>2, <2>1, DealAssumption DEF DealCall, Deal
    <2>4. BasisOf(h) # 0 /\ BasisOf(h)' = 0
        BY <1>3, <1>4, <2>1, <2>2, <2>3
    <2>5. DealBasis' = [DealBasis EXCEPT ![h] = BasisOf(h)']
        BY <1>1, <2>2, StepOfHandler
    <2> QED
        BY <2>1, <2>4, <2>5, RecordRefuses DEF RecordStep
<1> QED
    BY <1>5, <1>6, <1>7 DEF DealSteps, DealStep

(* Of the contract requests, the generation reads, overwrites or gives up, *)
(* and the others are no writers of the deal.                              *)
LEMMA ContractStepsAbstract ==
    ASSUME ContractInv, NEW h \in Handler, ContractStep(h)
    PROVE  RecordStep
<1>1. job \in [Handler -> Job \cup {NoJob}] /\ NoJob.op = "none" /\ deal \in Deal
    BY DEF ContractInv, ContractTypeOK, DealTypeOK, NoJob
<1>2. call' = call
    BY DEF ContractStep, GenerateReceive, ReplaceReceive, ArchiveReceive, DeleteReceive, Begin,
           Generate, Enter, Replace, Archive, Delete, PurgeHistory, ContractRequestEnds
<1>3. ASSUME UNCHANGED <<deal, offers, loss>>, \A i \in Handler \ {h} : job'[i] = job[i],
             BasisOf(h)' = BasisOf(h)
      PROVE  RecordStep
    <2>1. \A i \in Handler : BasisOf(i)' = BasisOf(i)
        BY <1>2, <1>3 DEF BasisOf
    <2> QED
        BY <1>3, <2>1 DEF RecordStep, DealContent, DealBasis
<1>4. CASE GenerateReceive(h)
    <2>1. PICK r \in Revision : Begin(h, "generate", deal.version, r, 0)
        BY <1>4 DEF GenerateReceive
    <2>2. /\ call[h] = NoCall /\ job[h] = NoJob /\ UNCHANGED <<deal, offers, loss>>
          /\ job'[h].op = "generate" /\ job'[h].expected = deal.version
          /\ \A i \in Handler \ {h} : job'[i] = job[i]
        BY <1>1, <2>1 DEF Begin
    <2>3. BasisOf(h) = 0 /\ BasisOf(h)' = deal.version
        BY <1>1, <1>2, <2>2 DEF BasisOf
    <2>4. DealBasis' = [DealBasis EXCEPT ![h] = BasisOf(h)']
        BY <1>2, <2>2, StepOfHandler
    <2> QED
        BY <2>2, <2>3, <2>4, RecordReads DEF RecordStep
<1>5. CASE Generate(h)
    <2>1. /\ job[h].op = "generate" /\ job[h].expected = deal.version /\ End(h)
          /\ deal' = [deal EXCEPT !.version = @ + 1]
        BY <1>5 DEF Generate, GenerateAllowed
    <2>2. /\ job'[h] = NoJob /\ call[h] = NoCall /\ deal'.version = deal.version + 1
          /\ \A i \in Handler \ {h} : job'[i] = job[i]
        BY <1>1, <2>1, EndLeaves DEF ContractInv, JobsHold, Deal
    <2>3. BasisOf(h) = deal.version /\ BasisOf(h)' = 0
        BY <1>1, <1>2, <2>1, <2>2 DEF BasisOf
    <2>4. DealBasis' = [DealBasis EXCEPT ![h] = BasisOf(h)']
        BY <1>2, <2>2, StepOfHandler
    <2> QED
        BY <2>2, <2>3, <2>4, RecordOverwrites DEF RecordStep
<1>6. CASE ReplaceReceive(h) \/ ArchiveReceive(h) \/ DeleteReceive(h)
    <2>1. /\ call[h] = NoCall /\ job[h] = NoJob /\ UNCHANGED <<deal, offers, loss>>
          /\ job'[h].op # "generate" /\ \A i \in Handler \ {h} : job'[i] = job[i]
        BY <1>1, <1>6 DEF ReplaceReceive, ArchiveReceive, DeleteReceive, Begin
    <2>2. BasisOf(h)' = BasisOf(h)
        BY <1>1, <1>2, <2>1 DEF BasisOf
    <2> QED
        BY <1>3, <2>1, <2>2
<1>7. CASE Enter(h)
    <2>1. UNCHANGED <<deal, offers, loss, job>>
        BY <1>7 DEF Enter
    <2> QED
        BY <1>2, <1>3, <2>1 DEF BasisOf
<1>8. CASE Delete(h)
    <2>1. /\ job[h].op = "delete" /\ job[h] \in Job /\ UNCHANGED <<deal, offers, loss>>
          /\ job' = [g \in Handler |-> IF g = h THEN [job[g] EXCEPT !.op = "purge history"]
                                       ELSE IF job[g].op = "replace" THEN [job[g] EXCEPT !.latest = 0]
                                       ELSE job[g]]
        BY <1>1, <1>8 DEF Delete
    <2>2. job'[h].op = "purge history"
        BY <2>1 DEF Job
    <2>3. ASSUME NEW i \in Handler PROVE BasisOf(i)' = BasisOf(i)
        <3>1. CASE i = h
            BY <1>2, <2>1, <2>2, <3>1 DEF BasisOf
        <3>2. CASE i # h /\ job[i].op = "replace"
            <4>1. job[i] \in Job /\ job'[i] = [job[i] EXCEPT !.latest = 0]
                BY <1>1, <2>1, <3>2
            <4>2. job'[i].op = "replace"
                BY <3>2, <4>1 DEF Job
            <4> QED
                BY <1>2, <3>2, <4>2 DEF BasisOf
        <3>3. CASE i # h /\ job[i].op # "replace"
            <4>1. job'[i] = job[i]
                BY <2>1, <3>3
            <4> QED
                BY <1>2, <4>1 DEF BasisOf
        <3> QED
            BY <3>1, <3>2, <3>3
    <2> QED
        BY <1>2, <2>1, <2>3 DEF RecordStep, DealContent, DealBasis
<1>9. CASE Replace(h) \/ Archive(h) \/ PurgeHistory(h) \/ ContractRequestEnds(h)
    <2>1. job[h] # NoJob /\ End(h) /\ UNCHANGED <<deal, offers, loss>>
        BY <1>1, <1>9 DEF Replace, Archive, PurgeHistory, ContractRequestEnds
    <2>2. job'[h] = NoJob /\ call[h] = NoCall /\ \A i \in Handler \ {h} : job'[i] = job[i]
        BY <2>1, EndLeaves DEF ContractInv, JobsHold
    <2>3. BasisOf(h)' = 0
        BY <1>1, <1>2, <2>2 DEF BasisOf
    <2>4. CASE job[h].op = "generate"
        <3>1. BasisOf(h) # 0
            BY <2>2, <2>4 DEF BasisOf, ContractInv, JobsHold
        <3>2. DealBasis' = [DealBasis EXCEPT ![h] = BasisOf(h)']
            BY <1>2, <2>2, StepOfHandler
        <3> QED
            BY <2>1, <2>3, <3>1, <3>2, RecordRefuses DEF RecordStep
    <2>5. CASE job[h].op # "generate"
        BY <1>3, <2>1, <2>2, <2>3, <2>5 DEF BasisOf
    <2> QED
        BY <2>4, <2>5
<1> QED
    BY <1>4, <1>5, <1>6, <1>7, <1>8, <1>9 DEF ContractStep

LEMMA ContractNextAbstract ==
    ContractInv /\ [ContractNext]_contractVars
        => [DealRecord!Next]_<<deal.version, DealContent, DealBasis>>
<1> SUFFICES ASSUME ContractInv, [ContractNext]_contractVars PROVE RecordStep
    BY DEF RecordStep
<1>1. CASE UNCHANGED contractVars
    BY <1>1 DEF contractVars, RecordStep, DealContent, DealBasis, BasisOf
<1>2. CASE ContractNext
    BY <1>2, DealStepsAbstract, ContractStepsAbstract DEF ContractNext
<1> QED
    BY <1>1, <1>2

(* The deal, its offers and its loss implement the versioned record that   *)
(* optimistic locking promises.                                            *)
THEOREM DealImplementsVersionedRecord == ContractSpec => DealIsVersionedRecord
<1>1. ContractInit => DealRecord!Init
    BY DEF ContractInit, DealInit, DealRecord!Init, DealRecord!Free, NoJob
<1> QED
    BY <1>1, ContractNextAbstract, ContractInvariant, PTL
       DEF ContractSpec, DealIsVersionedRecord, DealRecord!Spec, DealBasis, BasisOf, DealContent
=============================================================================
