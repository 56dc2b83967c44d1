------------------------------- MODULE LayerSync ------------------------------
(***************************************************************************)
(* The registry features of the cadastres, and the import that replaces    *)
(* those of one cadastre and one layer (sync_metsaregister_wfs,            *)
(* sync_optional_soos_wfs) by the pages it reads (wfs_client.py).  A       *)
(* feature has one row, whatever cadastre it lies in.  The imports of      *)
(* different cadastres run next to each other (SingleFlight holds one lock *)
(* per cadastre); of one cadastre they do not.                             *)
(*                                                                         *)
(* The provider numbers its answer: features of the cadastre in order.  A  *)
(* broken answer is valid and without features (a wrong layer or filter).  *)
(* Retries of a request are not told apart: a page arrives or fails.       *)
(***************************************************************************)
EXTENDS Naturals, FiniteSets

CONSTANTS
    MaxFeature,    \* bound: features that ever exist
    Parcel,        \* cadastres
    Nowhere,       \* a feature that does not exist (provider) or has no row
    LayerPage,     \* FORESTIQ_WFS_PAGE_SIZE
    FeatureBudget, \* FORESTIQ_WFS_MAX_FEATURES
    MinPercent,    \* FORESTIQ_WFS_MIN_RETAINED_RATIO, in percent
    MaxMoves       \* bound: changes at the provider

ASSUME LayerAssumption ==
    /\ MaxFeature \in Nat
    /\ Nowhere \notin Parcel
    /\ FeatureBudget \in Nat
    /\ LayerPage \in 1 .. FeatureBudget
    /\ MinPercent \in 0 .. 100
    /\ MaxMoves \in Nat

VARIABLES
    lies,    \* the cadastre each feature lies in, at the provider
    holder,  \* ForestRegistryFeature.cadastre
    load,    \* the import of each cadastre
    moves    \* changes at the provider so far

layerVars == <<lies, holder, load, moves>>

Feature  == 1 .. MaxFeature
Place    == Parcel \cup {Nowhere}
(* previous: features held, as the import counted; answer: those read;     *)
(* todo: those not yet stored; broken: the answer is; quiet: history, the  *)
(* provider has not changed since any import in progress began.            *)
Load     == [state : {"read", "store"}, previous : 0 .. MaxFeature, answer : SUBSET Feature,
             todo : SUBSET Feature, next : 0 .. MaxFeature, broken : BOOLEAN, quiet : BOOLEAN]
NoLoad   == [state |-> "none"]

LayerTypeOK ==
    /\ lies \in [Feature -> Place]
    /\ holder \in [Feature -> Place]
    /\ load \in [Parcel -> Load \cup {NoLoad}]
    /\ moves \in 0 .. MaxMoves

LayerInit ==
    /\ lies \in [Feature -> Place]
    /\ holder = [f \in Feature |-> Nowhere]
    /\ load = [p \in Parcel |-> NoLoad]
    /\ moves = 0

In(where, p) == {f \in Feature : where[f] = p}

-----------------------------------------------------------------------------
(* A feature appears, disappears or moves to another cadastre.             *)
ProviderChanges ==
    /\ moves < MaxMoves
    /\ moves' = moves + 1
    /\ \E f \in Feature, to \in Place : to # lies[f] /\ lies' = [lies EXCEPT ![f] = to]
    /\ load' = [p \in Parcel |-> IF load[p] = NoLoad THEN NoLoad
                                 ELSE [load[p] EXCEPT !.quiet = FALSE]]
    /\ UNCHANGED holder

(* sync_metsaregister_wfs counts the features held before it asks the      *)
(* provider.  A new import is quiet once no import that has read before a  *)
(* change is left.                                                         *)
LoadStart(p) ==
    /\ load[p] = NoLoad
    /\ load' = [load EXCEPT ![p] =
          [state |-> "read", previous |-> Cardinality(In(holder, p)), answer |-> {}, todo |-> {},
           next |-> 0, broken |-> FALSE,
           quiet |-> \A q \in Parcel : load[q] # NoLoad => load[q].quiet]]
    /\ UNCHANGED <<lies, holder, moves>>

Position(f) == Cardinality({g \in In(lies, lies[f]) : g < f})

(* The page of features that follows the index.                            *)
PageAt(p, index, count) == {f \in In(lies, p) : index <= Position(f) /\ Position(f) < index + count}

(* Mutant: a page as large as asked for is the last one.                   *)
LastPageWhenFull(page, asked) == Cardinality(page) <= asked

(* iter_feature_pages: an empty or a short page is the last one.           *)
IsLastPage(page, asked) == Cardinality(page) < asked

(* sync_optional_soos_wfs counts the features held when it has read all.   *)
Counted(p) == {load[p].previous, Cardinality(In(holder, p))}

(* One page; an import that reaches its budget fails.                      *)
LoadPage(p) ==
    /\ load[p].state = "read"
    /\ LET left  == FeatureBudget - load[p].next
           asked == IF left < LayerPage THEN left ELSE LayerPage
           page  == PageAt(p, load[p].next, asked)
           read  == load[p].answer \cup page
           next  == load[p].next + Cardinality(page)
       IN  \E count \in IF IsLastPage(page, asked) THEN Counted(p) ELSE {load[p].previous} :
              load' = [load EXCEPT ![p] =
                 IF page # {} /\ next >= FeatureBudget THEN NoLoad
                 ELSE [@ EXCEPT !.state = IF IsLastPage(page, asked) THEN "store" ELSE "read",
                                !.previous = count,
                                !.answer = read, !.todo = read, !.next = next]]
    /\ UNCHANGED <<lies, holder, moves>>

LoadBroken(p) ==
    /\ load[p].state = "read"
    /\ load[p].next = 0
    /\ \E count \in Counted(p) :
          load' = [load EXCEPT ![p] = [@ EXCEPT !.state = "store", !.previous = count,
                                                !.broken = TRUE]]
    /\ UNCHANGED <<lies, holder, moves>>

(* update_or_create of one feature, which it may take from another         *)
(* cadastre.                                                               *)
LoadStore(p) ==
    /\ load[p].state = "store"
    /\ \E f \in load[p].todo :
        /\ \A g \in load[p].todo : f <= g
        /\ holder' = [holder EXCEPT ![f] = p]
        /\ load' = [load EXCEPT ![p].todo = @ \ {f}]
    /\ UNCHANGED <<lies, moves>>

(* Mutant: what has been observed is not compared with what was held.      *)
AnyReplacement(l) == TRUE

(* _assert_safe_replacement.                                               *)
SafeReplacement(l) ==
    l.previous > 0 =>
        /\ l.answer # {}
        /\ 100 * Cardinality(l.answer) >= MinPercent * l.previous

(* The features of the cadastre that are not in the answer are deleted.    *)
LoadReplace(p) ==
    /\ load[p].state = "store"
    /\ load[p].todo = {}
    /\ SafeReplacement(load[p])
    /\ holder' = [f \in Feature |-> IF holder[f] = p /\ f \notin load[p].answer THEN Nowhere
                                    ELSE holder[f]]
    /\ load' = [load EXCEPT ![p] = NoLoad]
    /\ UNCHANGED <<lies, moves>>

(* An error of the provider, of a feature or of the guard, or a kill: what *)
(* has been stored stays.                                                  *)
LoadFails(p) ==
    /\ load[p] # NoLoad
    /\ load' = [load EXCEPT ![p] = NoLoad]
    /\ UNCHANGED <<lies, holder, moves>>

LoadStep(p) ==
    \/ LoadStart(p) \/ LoadPage(p) \/ LoadBroken(p)
    \/ LoadStore(p) \/ LoadReplace(p) \/ LoadFails(p)

LayerNext == ProviderChanges \/ \E p \in Parcel : LoadStep(p)

LayerSpec == LayerInit /\ [][LayerNext]_layerVars
-----------------------------------------------------------------------------
(* When the import of a cadastre succeeds, the cadastre has exactly the    *)
(* features that lie in it, whatever the imports of other cadastres have   *)
(* stored meanwhile, if the provider has not changed under any of them and *)
(* its answer was not broken; and a broken answer deletes nothing.         *)
SuccessMirrorsLayer ==
    [][\A p \in Parcel :
          load[p] # NoLoad /\ load[p].state = "store" /\ LoadReplace(p) =>
              IF load[p].broken THEN holder' = holder
              ELSE load[p].quiet => In(holder', p) = In(lies, p)]_layerVars
=============================================================================
