------------------------------- MODULE Reminders ------------------------------
(***************************************************************************)
(* The notices of one reminder (operations/notifications.py): sweeps, that *)
(* Beat starts and that may overlap, tell the creator of a due reminder    *)
(* and the assignee of its owner, each once, unless their preferences say  *)
(* otherwise.  Meanwhile the owner may get another assignee, preferences   *)
(* change and the reminder may be deleted.                                 *)
(***************************************************************************)
EXTENDS Naturals, FiniteSets

CONSTANTS
    Sweep,      \* worker processes, each with at most one sweep
    Person,     \* active users
    MaxChanges  \* bound: changes of assignee and of preferences

ASSUME ReminderAssumption == MaxChanges \in Nat /\ IsFiniteSet(Sweep)

VARIABLES
    phase,     \* the reminder: not due yet, in the window of the sweeps, past it, or deleted
    audience,  \* its creator and the assignee of its owner
    wants,     \* persons whose preferences allow the notice
    delivery,  \* ReminderNotificationDelivery.status of each person
    notices,   \* ApplicationMessage rows for the reminder, by person
    sweep,     \* what each sweep is doing
    changes

reminderVars == <<phase, audience, wants, delivery, notices, sweep, changes>>

Phase == {"ahead", "due", "past", "deleted"}
(* person: whose preference has been read; todo: those still to tell.      *)
Sweeping == [todo : SUBSET Person, person : SUBSET Person, send : BOOLEAN]
NoSweep  == [todo |-> "none"]

ReminderTypeOK ==
    /\ phase \in Phase
    /\ audience \subseteq Person /\ Cardinality(audience) \in 1 .. 2
    /\ wants \subseteq Person
    /\ delivery \in [Person -> {"NONE", "SENT", "SKIPPED"}]
    /\ notices \in [Person -> 0 .. Cardinality(Sweep)]
    /\ sweep \in [Sweep -> Sweeping \cup {NoSweep}]
    /\ changes \in 0 .. MaxChanges

ReminderInit ==
    /\ phase = "ahead"
    /\ \E p, q \in Person : audience = {p, q}
    /\ wants \in SUBSET Person
    /\ delivery = [p \in Person |-> "NONE"]
    /\ notices = [p \in Person |-> 0]
    /\ sweep = [s \in Sweep |-> NoSweep]
    /\ changes = 0

-----------------------------------------------------------------------------
(* The due time passes, and a day later the window.                        *)
TimePasses ==
    /\ \/ phase = "ahead" /\ phase' = "due"
       \/ phase = "due" /\ phase' = "past"
    /\ UNCHANGED <<audience, wants, delivery, notices, sweep, changes>>

(* reminder_detail: the deliveries go with the reminder, messages stay.    *)
DeleteReminder ==
    /\ phase # "deleted"
    /\ phase' = "deleted"
    /\ delivery' = [p \in Person |-> "NONE"]
    /\ UNCHANGED <<audience, wants, notices, sweep, changes>>

Reassign ==
    /\ changes < MaxChanges
    /\ changes' = changes + 1
    /\ \E p \in Person, q \in audience : audience' = {p, q} /\ audience' # audience
    /\ UNCHANGED <<phase, wants, delivery, notices, sweep>>

ChangePreference ==
    /\ changes < MaxChanges
    /\ changes' = changes + 1
    /\ \E p \in Person : wants' = IF p \in wants THEN wants \ {p} ELSE wants \cup {p}
    /\ UNCHANGED <<phase, audience, delivery, notices, sweep>>

(* deliver_due_reminders finds the reminder, with its people.              *)
SweepFinds(s) ==
    /\ sweep[s] = NoSweep
    /\ phase = "due"
    /\ sweep' = [sweep EXCEPT ![s] = [todo |-> audience, person |-> {}, send |-> FALSE]]
    /\ UNCHANGED <<phase, audience, wants, delivery, notices, changes>>

(* preference_for the next person.                                         *)
SweepAsks(s) ==
    /\ sweep[s] # NoSweep
    /\ sweep[s].person = {}
    /\ \E p \in sweep[s].todo :
        sweep' = [sweep EXCEPT ![s] = [todo |-> @.todo \ {p}, person |-> {p}, send |-> p \in wants]]
    /\ UNCHANGED <<phase, audience, wants, delivery, notices, changes>>

(* Mutant: a delivery that is there already does not stop the message.     *)
TellAgain(p) ==
    /\ delivery' = [delivery EXCEPT ![p] = IF @ = "NONE" THEN "SENT" ELSE @]
    /\ notices' = [notices EXCEPT ![p] = @ + 1]

(* get_or_create of the delivery and the message are one transaction.      *)
Tell(p) ==
    IF delivery[p] = "NONE"
    THEN /\ delivery' = [delivery EXCEPT ![p] = "SENT"]
         /\ notices' = [notices EXCEPT ![p] = @ + 1]
    ELSE UNCHANGED <<delivery, notices>>

SweepTells(s) ==
    /\ sweep[s] # NoSweep
    /\ phase # "deleted"
    /\ \E p \in sweep[s].person :
        IF sweep[s].send THEN Tell(p)
        ELSE /\ delivery' = [delivery EXCEPT ![p] = IF @ = "NONE" THEN "SKIPPED" ELSE @]
             /\ UNCHANGED notices
    /\ sweep' = [sweep EXCEPT ![s].person = {}]
    /\ UNCHANGED <<phase, audience, wants, changes>>

(* A message for a reminder that is gone is left out ...                   *)
SweepPasses(s) ==
    /\ sweep[s] # NoSweep
    /\ sweep[s].person # {}
    /\ phase = "deleted"
    /\ sweep[s].send
    /\ sweep' = [sweep EXCEPT ![s].person = {}]
    /\ UNCHANGED <<phase, audience, wants, delivery, notices, changes>>

(* ... but a SKIPPED row for it is an error, which ends the sweep; so does *)
(* a kill, and having told everyone.                                       *)
SweepEnds(s) ==
    /\ sweep[s] # NoSweep
    /\ sweep' = [sweep EXCEPT ![s] = NoSweep]
    /\ UNCHANGED <<phase, audience, wants, delivery, notices, changes>>

SweepStep(s) == SweepFinds(s) \/ SweepAsks(s) \/ SweepTells(s) \/ SweepPasses(s) \/ SweepEnds(s)

ReminderNext ==
    \/ TimePasses \/ DeleteReminder \/ Reassign \/ ChangePreference
    \/ \E s \in Sweep : SweepStep(s)

ReminderSpec == ReminderInit /\ [][ReminderNext]_reminderVars
-----------------------------------------------------------------------------
(* Nobody is told twice, by however many sweeps, and a person has the      *)
(* message exactly when the delivery of the reminder says so.              *)
EveryoneIsToldOnce ==
    \A p \in Person :
        /\ notices[p] <= 1
        /\ phase # "deleted" => (notices[p] = 1 <=> delivery[p] = "SENT")
=============================================================================
