------------------------------- MODULE Deals --------------------------------
(***************************************************************************)
(* One commercial deal, its offers and its structured loss (api/parity.py, *)
(* api/p1.py).  A request is two steps: DealReceive loads the deal and     *)
(* makes the checks of the handler on that copy, a commit action is the    *)
(* transaction that starts with _update_deal_or_conflict.  Between the two *)
(* every other request may run.                                            *)
(*                                                                         *)
(* Abstracted: prices, texts and dates; the log and audit rows; who may    *)
(* reach the deal (every member of Staff has access to it); the deletion   *)
(* of a user, which clears the evaluator without a new version.            *)
(***************************************************************************)
EXTENDS Naturals

CONSTANTS
    Handler,     \* server processes, each with at most one request
    Staff,       \* users with access to the deal
    Admin,       \* those of them with the ADMIN privilege
    Nobody,      \* Deal.evaluator is NULL
    MaxVersion,  \* bound: Deal.version
    MaxOffers    \* bound: offers of the deal

ASSUME DealAssumption ==
    /\ Admin \subseteq Staff
    /\ Nobody \notin Staff
    /\ MaxVersion \in Nat \ {0}
    /\ MaxOffers \in Nat \ {0}

VARIABLES
    deal,    \* the row: version, stage, evaluator
    offers,  \* DealOffer.status by revision ("NONE": no such offer)
    loss,    \* DealLossOutcome.previous_stage ("NONE": no outcome)
    call     \* the request of each handler, with what it loaded

dealVars == <<deal, offers, loss, call>>

ClosedStage == {"WON", "LOST", "CANCELLED"}
Stage       == {"QUALIFICATION", "EVALUATION", "NEGOTIATION"} \cup ClosedStage
OfferStatus == {"DRAFT", "SENT", "ACCEPTED", "REJECTED"}
OpenOffer   == {"DRAFT", "SENT"}
Revision    == 1 .. MaxOffers
Evaluator   == Staff \cup {Nobody}
DealOp      == {"claim", "release", "assign", "assess", "approve", "offer",
                "send", "counter", "won", "lost", "cancel"}
Deal        == [version : 1 .. MaxVersion, stage : Stage, evaluator : Evaluator]

(* Requests whose outcome depends on who makes them.                       *)
ByEvaluator == {"claim", "release", "assign", "assess", "approve"}

(* A request: what it asks for, the version the client sent, and the copy  *)
(* of the deal that the handler loaded.                                    *)
DealCall == [op : DealOp, by : Evaluator, offer : Revision, person : Evaluator,
             expected : 1 .. MaxVersion, seen : Deal]
NoCall   == [op |-> "none"]

DealTypeOK ==
    /\ deal \in Deal
    /\ offers \in [Revision -> OfferStatus \cup {"NONE"}]
    /\ loss \in Stage \cup {"NONE"}
    /\ call \in [Handler -> DealCall \cup {NoCall}]

(* deals_by_owner creates the deal with or without a requested evaluation. *)
DealInit ==
    /\ deal \in [version : {1}, stage : {"QUALIFICATION", "EVALUATION"}, evaluator : Evaluator]
    /\ offers = [r \in Revision |-> "NONE"]
    /\ loss = "NONE"
    /\ call = [h \in Handler |-> NoCall]

-----------------------------------------------------------------------------
(* deal_evaluation_claim and deal_evaluation_submit: the case of someone   *)
(* else is left to an administrator.                                       *)
MayEvaluate(p) == deal.evaluator \in {Nobody, p} \/ p \in Admin

(* The checks each handler makes on the deal and the offer it has loaded.  *)
Admitted(c) ==
    /\ c.op \in {"claim", "assess", "approve"} => MayEvaluate(c.by)
    /\ c.op = "release" => deal.evaluator = c.by \/ c.by \in Admin
    /\ c.op = "assign" => c.by \in Admin
    /\ c.op \in {"offer", "lost"} => deal.stage \notin ClosedStage
    /\ c.op = "send" => offers[c.offer] = "DRAFT"
    /\ c.op = "won" => offers[c.offer] # "NONE"

(* A request arrives, the handler loads the deal and checks it.  The       *)
(* client sends a version that it was shown; an old one ends in the        *)
(* conflict whatever is asked, so one kind of request stands for all.  A   *)
(* request that fails a check changes nothing.                             *)
DealReceive(h) ==
    /\ call[h] = NoCall
    /\ \E op \in DealOp, p \in Evaluator, o \in Revision, e \in Evaluator, v \in 1 .. MaxVersion - 1 :
        LET c == [op |-> op, by |-> p, offer |-> o, person |-> e, expected |-> v, seen |-> deal]
        IN  /\ v <= deal.version
            /\ v < deal.version => op = "cancel"
            /\ op \notin {"send", "won"} => o = 1
            /\ op # "assign" => e = Nobody
            /\ op \in ByEvaluator <=> p # Nobody
            /\ op \in {"offer", "counter"} => offers[MaxOffers] = "NONE"
            /\ Admitted(c)
            /\ call' = [call EXCEPT ![h] = c]
    /\ UNCHANGED <<deal, offers, loss>>

(* Mutant: the row is saved whatever version it has.                       *)
UpdateUnversioned(h, stage, evaluator) ==
    /\ deal.version < MaxVersion
    /\ deal' = [version |-> deal.version + 1, stage |-> stage, evaluator |-> evaluator]
    /\ call' = [call EXCEPT ![h] = NoCall]

(* update_if_current: one UPDATE on primary key and version.               *)
UpdateIfCurrent(h, stage, evaluator) ==
    /\ call[h].expected = deal.version
    /\ deal' = [version |-> deal.version + 1, stage |-> stage, evaluator |-> evaluator]
    /\ call' = [call EXCEPT ![h] = NoCall]

(* _new_offer: the next revision, as a draft.                              *)
NewOffer ==
    \E r \in Revision :
        /\ offers[r] = "NONE"
        /\ \A s \in 1 .. r - 1 : offers[s] # "NONE"
        /\ offers' = [offers EXCEPT ![r] = "DRAFT"]

(* The conditional update finds another version: 409 and no change.        *)
DealConflict(h) ==
    /\ call[h] # NoCall
    /\ call[h].expected # deal.version
    /\ call' = [call EXCEPT ![h] = NoCall]
    /\ UNCHANGED <<deal, offers, loss>>

Claim(h) ==
    /\ call[h].op = "claim"
    /\ UpdateIfCurrent(h, "EVALUATION", call[h].by)
    /\ UNCHANGED <<offers, loss>>

ReleaseCase(h) ==
    /\ call[h].op = "release"
    /\ UpdateIfCurrent(h, deal.stage, Nobody)
    /\ UNCHANGED <<offers, loss>>

Assign(h) ==
    /\ call[h].op = "assign"
    /\ UpdateIfCurrent(h, "EVALUATION", call[h].person)
    /\ UNCHANGED <<offers, loss>>

(* The evaluator that was loaded is written back, or the caller.           *)
SubmitEvaluation(h) ==
    /\ call[h].op \in {"assess", "approve"}
    /\ UpdateIfCurrent(h,
           IF call[h].op = "approve" THEN "NEGOTIATION" ELSE "EVALUATION",
           IF call[h].seen.evaluator = Nobody THEN call[h].by ELSE call[h].seen.evaluator)
    /\ UNCHANGED <<offers, loss>>

CreateOffer(h) ==
    /\ call[h].op = "offer"
    /\ UpdateIfCurrent(h, deal.stage, deal.evaluator)
    /\ NewOffer
    /\ UNCHANGED loss

CounterOffer(h) ==
    /\ call[h].op = "counter"
    /\ UpdateIfCurrent(h, "NEGOTIATION", deal.evaluator)
    /\ NewOffer
    /\ UNCHANGED loss

SendOffer(h) ==
    /\ call[h].op = "send"
    /\ UpdateIfCurrent(h, "NEGOTIATION", deal.evaluator)
    /\ offers' = [offers EXCEPT ![call[h].offer] = "SENT"]
    /\ UNCHANGED loss

(* Mutant: every other offer is rejected, an accepted one too.             *)
WinRejectsAll(h) ==
    /\ call[h].op = "won"
    /\ UpdateIfCurrent(h, "WON", deal.evaluator)
    /\ offers' = [r \in Revision |-> IF r = call[h].offer THEN "ACCEPTED"
                                     ELSE IF offers[r] = "NONE" THEN "NONE" ELSE "REJECTED"]
    /\ UNCHANGED loss

(* _close_deal with an accepted offer: the offers still open are rejected. *)
Win(h) ==
    /\ call[h].op = "won"
    /\ UpdateIfCurrent(h, "WON", deal.evaluator)
    /\ offers' = [r \in Revision |-> IF r = call[h].offer THEN "ACCEPTED"
                                     ELSE IF offers[r] \in OpenOffer THEN "REJECTED"
                                     ELSE offers[r]]
    /\ UNCHANGED loss

(* deal_lost_structured: one outcome per deal, with the stage it left.     *)
Lose(h) ==
    /\ call[h].op = "lost"
    /\ loss = "NONE"
    /\ UpdateIfCurrent(h, "LOST", deal.evaluator)
    /\ loss' = call[h].seen.stage
    /\ UNCHANGED offers

(* A reopened deal has its outcome already: the unique key rolls back.     *)
LoseAgain(h) ==
    /\ call[h] # NoCall
    /\ call[h].op = "lost"
    /\ call[h].expected = deal.version
    /\ loss # "NONE"
    /\ call' = [call EXCEPT ![h] = NoCall]
    /\ UNCHANGED <<deal, offers, loss>>

Cancel(h) ==
    /\ call[h].op = "cancel"
    /\ UpdateIfCurrent(h, "CANCELLED", deal.evaluator)
    /\ UNCHANGED <<offers, loss>>

DealCommit(h) ==
    \/ Claim(h) \/ ReleaseCase(h) \/ Assign(h) \/ SubmitEvaluation(h)
    \/ CreateOffer(h) \/ CounterOffer(h) \/ SendOffer(h)
    \/ Win(h) \/ Lose(h) \/ Cancel(h)

DealStep(h) == DealReceive(h) \/ DealCommit(h) \/ LoseAgain(h) \/ DealConflict(h)

-----------------------------------------------------------------------------
(* While a deal is won it has an accepted offer and none that could still  *)
(* be sent or accepted, whatever offer requests were under way when it was *)
(* won.                                                                    *)
WonDealIsSettled ==
    deal.stage = "WON" =>
        /\ \E r \in Revision : offers[r] = "ACCEPTED"
        /\ \A r \in Revision : offers[r] \notin OpenOffer

(* The stage that a structured loss reports is the stage that the deal was *)
(* in when it was lost, although the handler read it before.               *)
LossReportsStageLeft == [][loss' # loss => loss' = deal.stage /\ deal.stage \notin ClosedStage]_dealVars

(* An evaluator who has a case loses it only to an administrator: of two   *)
(* evaluators who claim at once one gets a conflict.                       *)
CaseTakenOnlyByAdmin ==
    [][\A p \in Staff : deal.evaluator = p /\ deal'.evaluator \notin {p, Nobody} =>
          \E h \in Handler : call[h] # NoCall /\ call[h].by \in Admin /\ call'[h] = NoCall]_dealVars
=============================================================================
