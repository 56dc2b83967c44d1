------------------------------- MODULE MCRecords ------------------------------
(***************************************************************************)
(* The records of an organization around the deals, and the feeds that     *)
(* fill them.  The parts share no state in these models, so a behaviour    *)
(* follows one of them and leaves the others as they begin.                *)
(***************************************************************************)
EXTENDS Ownership, WeaselFeed, DeltaCheck, LayerSync, Reminders, Inheritance, DataQuality,
        Tiles, Staff

VARIABLE focus   \* the part that this behaviour follows

recordVars == <<ownershipVars, feedVars, deltaVars, layerVars,
                reminderVars, caseVars, qualityVars, tileVars, staffVars, focus>>

RecordsTypeOK ==
    /\ OwnershipTypeOK /\ FeedTypeOK /\ DeltaTypeOK /\ LayerTypeOK
    /\ ReminderTypeOK /\ CaseTypeOK /\ QualityTypeOK /\ TileTypeOK /\ StaffTypeOK

Part == {"ownership", "feed", "delta", "layer", "reminder", "case", "quality", "tile", "staff"}

RecordsInit ==
    /\ focus \in Part
    /\ OwnershipInit /\ FeedInit /\ DeltaInit /\ LayerInit
    /\ ReminderInit /\ CaseInit /\ QualityInit /\ TileInit /\ StaffInit
    /\ focus # "ownership" => ~link
    /\ focus # "feed" => endCursor /\ known = {}
    /\ focus # "layer" => \A f \in Feature : lies[f] = Nowhere
    /\ focus # "reminder" => wants = {} /\ audience = {CHOOSE p \in Person : TRUE}
    /\ focus # "quality" => ~problem

(* A step of one part, and the others stay.                                *)
Follow(part, step, others) == focus = part /\ step /\ UNCHANGED <<others, focus>>

OwnershipPart == Follow("ownership", OwnershipNext,
    <<feedVars, deltaVars, layerVars, reminderVars, caseVars, qualityVars, tileVars, staffVars>>)
FeedPart(step) == Follow("feed", step,
    <<ownershipVars, deltaVars, layerVars, reminderVars, caseVars, qualityVars, tileVars, staffVars>>)
DeltaPart == Follow("delta", DeltaNext,
    <<ownershipVars, feedVars, layerVars, reminderVars, caseVars, qualityVars, tileVars, staffVars>>)
LayerPart == Follow("layer", LayerNext,
    <<ownershipVars, feedVars, deltaVars, reminderVars, caseVars, qualityVars, tileVars, staffVars>>)
ReminderPart == Follow("reminder", ReminderNext,
    <<ownershipVars, feedVars, deltaVars, layerVars, caseVars, qualityVars, tileVars, staffVars>>)
CasePart == Follow("case", CaseNext,
    <<ownershipVars, feedVars, deltaVars, layerVars, reminderVars, qualityVars, tileVars, staffVars>>)
QualityPart(step) == Follow("quality", step,
    <<ownershipVars, feedVars, deltaVars, layerVars, reminderVars, caseVars, tileVars, staffVars>>)
TilePart == Follow("tile", TileNext,
    <<ownershipVars, feedVars, deltaVars, layerVars, reminderVars, caseVars, qualityVars, staffVars>>)
StaffPart == Follow("staff", StaffNext,
    <<ownershipVars, feedVars, deltaVars, layerVars, reminderVars, caseVars, qualityVars, tileVars>>)

RecordsNext ==
    \/ OwnershipPart \/ FeedPart(FeedNext) \/ DeltaPart \/ LayerPart
    \/ ReminderPart \/ CasePart \/ QualityPart(QualityNext) \/ TilePart \/ StaffPart

(* Beat starts feed runs and scans again and again, and these and the      *)
(* requests of administrators take their steps.                            *)
RecordsSpec ==
    /\ RecordsInit /\ [][RecordsNext]_recordVars
    /\ WF_recordVars(FeedPart(FeedWork))
    /\ \A s \in Scanner : WF_recordVars(QualityPart(ScannerStep(s)))
    /\ \A o \in Overseer : WF_recordVars(QualityPart(ReviewSave(o)))
=============================================================================
