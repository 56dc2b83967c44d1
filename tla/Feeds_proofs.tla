----------------------------- MODULE Feeds_proofs -----------------------------
(***************************************************************************)
(* Proofs about the feeds: the delta check loses no registration, the      *)
(* Weasel feed confirms nothing that is not stored, and the import of a    *)
(* layer mirrors it, for every length of the windows, pages and feeds.     *)
(***************************************************************************)
EXTENDS WeaselFeed, DeltaCheck, LayerSync, FiniteSetTheorems, TLAPS

-----------------------------------------------------------------------------
(* What is known while a check runs: it is within its time limit, it reads *)
(* since the end of the last success, and what it did not see when it      *)
(* began has been registered later.                                        *)
CheckInProgress ==
    check # NoCheck =>
        /\ check.started <= clock /\ clock <= check.started + TimeLimit
        /\ finished # Never => check.since = Since
        /\ \A a \in Registered : a \in check.visible \/ check.started <= stamp[a]

DeltaInv ==
    /\ DeltaTypeOK
    /\ \A a \in Registered : stamp[a] <= clock
    /\ finished # Never => finished <= clock /\ firstSince \in Time
    /\ CheckInProgress
    /\ NoRegistrationIsMissed

(* The window of a check opens before the time it is counted back from.    *)
LEMMA BeforeIsEarlier ==
    ASSUME NEW t \in Nat, NEW d \in Nat
    PROVE  Before(t, d) \in Nat /\ Before(t, d) <= t /\ (t <= Before(t, d) + d)
BY DEF Before

LEMMA DeltaInitially == DeltaInit => DeltaInv
BY DeltaAssumption
   DEF DeltaInit, DeltaInv, DeltaTypeOK, Time, Never, Registered, CheckInProgress, NoRegistrationIsMissed

LEMMA RegisterKeeps == DeltaInv /\ Register => DeltaInv'
<1> SUFFICES ASSUME DeltaInv, Register PROVE DeltaInv'
    OBVIOUS
<1> USE DeltaAssumption DEF DeltaInv, DeltaTypeOK, Time, Never
<1>1. PICK a \in Allocation : stamp[a] = Never /\ stamp' = [stamp EXCEPT ![a] = clock]
    BY DEF Register
<1>2. UNCHANGED <<clock, imported, finished, firstSince, check>>
    BY DEF Register
<1>3. stamp' \in [Allocation -> Time \cup {Never}] /\ stamp'[a] = clock
    BY <1>1
<1>4. Registered' = Registered \cup {a}
    BY <1>1, <1>3 DEF Registered
<1>5. \A b \in Registered : b # a /\ stamp'[b] = stamp[b]
    BY <1>1 DEF Registered
<1>6. DeltaTypeOK' /\ \A b \in Registered' : stamp'[b] <= clock'
    BY <1>2, <1>3, <1>4, <1>5
<1>7. finished # Never => Since <= clock /\ Since' = Since
    BY <1>2, BeforeIsEarlier DEF Since
<1>8. CheckInProgress'
    BY <1>2, <1>3, <1>4, <1>5, <1>7 DEF CheckInProgress, Check
<1>9. NoRegistrationIsMissed'
    BY <1>2, <1>3, <1>4, <1>5, <1>7 DEF NoRegistrationIsMissed
<1> QED
    BY <1>2, <1>6, <1>8, <1>9

LEMMA DeltaTickKeeps == DeltaInv /\ DeltaTick => DeltaInv'
<1> SUFFICES ASSUME DeltaInv, DeltaTick PROVE DeltaInv'
    OBVIOUS
<1> USE DeltaAssumption DEF DeltaInv, DeltaTypeOK, Time, Never, DeltaTick
<1>1. Registered' = Registered /\ clock' = clock + 1
    BY DEF Registered
<1>2. finished # Never => Since' = Since
    BY DEF Since
<1>3. CheckInProgress'
    BY <1>1, <1>2 DEF CheckInProgress, Check
<1>4. NoRegistrationIsMissed'
    BY <1>1, <1>2 DEF NoRegistrationIsMissed
<1>5. \A a \in Registered' : stamp'[a] <= clock'
    BY <1>1 DEF Registered
<1> QED
    BY <1>1, <1>3, <1>4, <1>5

LEMMA CheckStartKeeps == DeltaInv /\ CheckStart => DeltaInv'
<1> SUFFICES ASSUME DeltaInv, CheckStart PROVE DeltaInv'
    OBVIOUS
<1> USE DeltaAssumption DEF DeltaInv, DeltaTypeOK, Time, Never, CheckStart
<1>1. Registered' = Registered /\ Since' = Since
    BY DEF Registered, Since
<1>2. Since \in Time
    <2>1. \A t \in Time, d \in Nat : Before(t, d) \in Time
        BY DEF Before
    <2>2. CASE finished = Never
        BY <2>1, <2>2 DEF Since
    <2>3. CASE finished # Never
        BY <2>1, <2>3 DEF Since
    <2> QED
        BY <2>2, <2>3
<1>3. check' \in Check /\ check'.since = Since /\ check'.started = clock /\ check'.visible = Registered
    BY <1>2 DEF Check, Registered
<1>4. CheckInProgress'
    BY <1>1, <1>3 DEF CheckInProgress
<1>5. NoRegistrationIsMissed'
    BY <1>1 DEF NoRegistrationIsMissed
<1> QED
    BY <1>1, <1>3, <1>4, <1>5

LEMMA CheckStoresKeeps == DeltaInv /\ CheckStores => DeltaInv'
<1> SUFFICES ASSUME DeltaInv, CheckStores PROVE DeltaInv'
    OBVIOUS
<1> USE DEF DeltaInv, DeltaTypeOK, CheckStores
<1>1. imported \subseteq imported' /\ imported' \subseteq Allocation
    BY DEF Registered
<1>2. Registered' = Registered /\ Since' = Since
    BY DEF Registered, Since
<1>3. CheckInProgress' /\ NoRegistrationIsMissed'
    BY <1>1, <1>2 DEF CheckInProgress, NoRegistrationIsMissed
<1> QED
    BY <1>1, <1>2, <1>3

(* What was registered before the check began has been stored; the rest is *)
(* younger than the check, and so in the overlap of the next one.          *)
LEMMA CheckSucceedsKeeps == DeltaInv /\ CheckSucceeds => DeltaInv'
<1> SUFFICES ASSUME DeltaInv, CheckSucceeds PROVE DeltaInv'
    OBVIOUS
<1> USE DeltaAssumption DEF DeltaInv, DeltaTypeOK, Time, Never, CheckSucceeds
<1>1. check \in Check
    OBVIOUS
<1>2. Registered' = Registered
    BY DEF Registered
<1>3. Since' = Before(clock, Overlap) /\ Since' <= check.started
    BY <1>1, BeforeIsEarlier DEF Since, CheckInProgress, Check, Before
<1>4. ASSUME NEW a \in Registered, check.since <= stamp[a]
      PROVE  a \in imported \/ stamp[a] >= Since'
    <2>1. CASE a \in check.visible
        BY <1>1, <1>4, <2>1 DEF Check
    <2>2. CASE check.started <= stamp[a]
        <3>1. stamp[a] \in Nat /\ Since' \in Nat /\ check.started \in Nat
            BY <1>1, <1>3, BeforeIsEarlier DEF Check, Registered
        <3> QED
            BY <1>3, <2>2, <3>1
    <2> QED
        BY <2>1, <2>2 DEF CheckInProgress
<1>5. NoRegistrationIsMissed'
    <2>1. CASE finished = Never
        BY <1>1, <1>2, <1>4, <2>1 DEF NoRegistrationIsMissed
    <2>2. CASE finished # Never
        <3>1. check.since = Since
            BY <2>2 DEF CheckInProgress
        <3>2. ASSUME NEW a \in Registered, firstSince <= stamp[a]
              PROVE  a \in imported \/ stamp[a] >= Since'
            <4>1. a \in imported \/ stamp[a] >= Since
                BY <2>2, <3>2 DEF NoRegistrationIsMissed
            <4>2. stamp[a] \in Nat /\ check.since \in Nat
                BY <1>1 DEF Check, Registered
            <4> QED
                BY <1>4, <3>1, <4>1, <4>2
        <3> QED
            BY <1>2, <2>2, <3>2 DEF NoRegistrationIsMissed
    <2> QED
        BY <2>1, <2>2
<1>6. DeltaTypeOK' /\ firstSince' \in Time
    BY <1>1 DEF Check
<1>7. CheckInProgress'
    BY DEF CheckInProgress
<1>8. finished' <= clock' /\ \A a \in Registered' : stamp'[a] <= clock'
    BY <1>2
<1> QED
    BY <1>5, <1>6, <1>7, <1>8

LEMMA CheckFailsKeeps == DeltaInv /\ CheckFails => DeltaInv'
<1> SUFFICES ASSUME DeltaInv, CheckFails PROVE DeltaInv'
    OBVIOUS
<1> USE DEF DeltaInv, DeltaTypeOK, CheckFails
<1>1. Registered' = Registered /\ Since' = Since
    BY DEF Registered, Since
<1> QED
    BY <1>1 DEF CheckInProgress, NoRegistrationIsMissed

LEMMA DeltaNextKeeps == DeltaInv /\ [DeltaNext]_deltaVars => DeltaInv'
<1> SUFFICES ASSUME DeltaInv, [DeltaNext]_deltaVars PROVE DeltaInv'
    OBVIOUS
<1>1. CASE UNCHANGED deltaVars
    BY <1>1 DEF deltaVars, DeltaInv, DeltaTypeOK, CheckInProgress, NoRegistrationIsMissed,
                Registered, Since
<1> QED
    BY <1>1, RegisterKeeps, DeltaTickKeeps, CheckStartKeeps, CheckStoresKeeps,
       CheckSucceedsKeeps, CheckFailsKeeps DEF DeltaNext

(* The invariant holds in every state.                                     *)
THEOREM DeltaInvariant == DeltaSpec => []DeltaInv
BY DeltaInitially, DeltaNextKeeps, PTL DEF DeltaSpec

(* The delta check is type correct.                                        *)
THEOREM DeltaTypeCorrect == DeltaSpec => []DeltaTypeOK
BY DeltaInvariant, PTL DEF DeltaInv

(* No registration falls between two successful checks as long as the time *)
(* limit of a check is not longer than the overlap of the windows.         *)
THEOREM DeltaMissesNothing == DeltaSpec => []NoRegistrationIsMissed
BY DeltaInvariant, PTL DEF DeltaInv

-----------------------------------------------------------------------------
(* Events up to a cursor have been stored or ignored.                      *)
Taken(c) == 1 .. c \subseteq stored \cup ignored

(* A run in progress has taken everything up to its cursor, and at its end *)
(* everything up to the cursor it will confirm.                            *)
RunInProgress ==
    feedRun # NoFeedRun =>
        /\ feedRun.cursor <= published /\ feedRun.upto <= published /\ feedRun.next <= published
        /\ Taken(feedRun.cursor)
        /\ feedRun.state \in {"fetch", "store"} => feedRun.pages < MaxPages
        /\ feedRun.state = "store" => feedRun.cursor <= feedRun.upto /\ feedRun.next \in {0, feedRun.upto}
        /\ feedRun.state = "end" => Taken(feedRun.next)

FeedInv == FeedTypeOK /\ RunInProgress /\ ConfirmedIsStored /\ confirmed <= published

LEMMA FeedInitially == FeedInit => FeedInv
BY FeedAssumption
   DEF FeedInit, FeedInv, FeedTypeOK, Cursor, Event, RunInProgress, NoFeedRun, ConfirmedIsStored

LEMMA StartKeeps == FeedInv /\ FeedStart => FeedInv'
<1> SUFFICES ASSUME FeedInv, FeedStart PROVE FeedInv'
    OBVIOUS
<1> USE FeedAssumption DEF FeedInv, FeedTypeOK, FeedStart, Cursor
<1>1. feedRun' \in FeedRun
    BY DEF FeedRun
<1>2. RunInProgress'
    BY DEF RunInProgress, Taken, ConfirmedIsStored, NoFeedRun
<1> QED
    BY <1>1, <1>2 DEF ConfirmedIsStored

(* What is known of the run in progress.                                   *)
LEMMA RunFacts ==
    ASSUME FeedInv, feedRun # NoFeedRun
    PROVE  /\ feedRun \in FeedRun
           /\ feedRun.cursor \in Cursor /\ feedRun.upto \in Cursor /\ feedRun.next \in Cursor
           /\ feedRun.pages \in Nat /\ published \in Cursor /\ RunInProgress
BY FeedAssumption DEF FeedInv, FeedTypeOK, FeedRun, Cursor

LEMMA FetchKeeps == FeedInv /\ FeedFetch => FeedInv'
<1> SUFFICES ASSUME FeedInv, FeedFetch PROVE FeedInv'
    OBVIOUS
<1> DEFINE last == feedRun.cursor + PageSize
           upto == IF last < published THEN last ELSE published
           next == IF upto < published \/ endCursor THEN upto ELSE 0
<1>1. feedRun.state = "fetch" /\ feedRun # NoFeedRun
    BY DEF FeedFetch, NoFeedRun
<1>2. feedRun' = [feedRun EXCEPT !.state = "store", !.upto = upto, !.next = next]
    BY DEF FeedFetch
<1>3. UNCHANGED <<published, endCursor, known, stored, ignored, confirmed, failures>>
    BY DEF FeedFetch
<1>4. /\ feedRun.cursor <= published /\ Taken(feedRun.cursor) /\ feedRun.pages < MaxPages
      /\ feedRun \in FeedRun
    BY <1>1, RunFacts DEF RunInProgress
<1>5. upto \in Cursor /\ upto <= published /\ feedRun.cursor <= upto /\ next \in {0, upto}
    BY <1>1, <1>4, RunFacts, FeedAssumption DEF Cursor
<1>6. next \in Cursor /\ next <= published
    BY <1>1, <1>5, RunFacts, FeedAssumption DEF Cursor
<1> HIDE DEF last, upto, next
<1>7. feedRun' \in FeedRun
    BY <1>2, <1>4, <1>5, <1>6 DEF FeedRun
<1>8. /\ feedRun'.state = "store" /\ feedRun'.cursor = feedRun.cursor
      /\ feedRun'.upto = upto /\ feedRun'.next = next /\ feedRun'.pages = feedRun.pages
    BY <1>2, <1>4 DEF FeedRun
<1>9. RunInProgress'
    BY <1>3, <1>4, <1>5, <1>6, <1>8 DEF RunInProgress, Taken
<1> QED
    BY <1>3, <1>7, <1>9 DEF FeedInv, FeedTypeOK, ConfirmedIsStored

(* The page is stored or ignored whole, and next is its end or no cursor.  *)
LEMMA StoreKeeps == FeedInv /\ FeedStore => FeedInv'
<1> SUFFICES ASSUME FeedInv, FeedStore PROVE FeedInv'
    OBVIOUS
<1> DEFINE page == feedRun.cursor + 1 .. feedRun.upto
<1>1. feedRun.state = "store" /\ feedRun # NoFeedRun
    BY DEF FeedStore, NoFeedRun
<1>2. /\ stored' = stored \cup (page \cap known)
      /\ ignored' = ignored \cup (page \ known)
      /\ feedRun' = AfterPage(feedRun)
      /\ UNCHANGED <<published, endCursor, known, confirmed, failures>>
    BY DEF FeedStore
<1>3. /\ feedRun \in FeedRun /\ feedRun.next \in {0, feedRun.upto}
      /\ feedRun.cursor <= published /\ feedRun.upto <= published /\ feedRun.next <= published
      /\ feedRun.cursor <= feedRun.upto /\ feedRun.pages < MaxPages /\ Taken(feedRun.cursor)
    BY <1>1, RunFacts DEF RunInProgress
<1>4. page \subseteq Event
    BY <1>1, RunFacts, FeedAssumption DEF Event, Cursor
<1>5. 1 .. feedRun.upto \subseteq (1 .. feedRun.cursor) \cup page
    BY <1>1, RunFacts, FeedAssumption DEF Cursor
<1> HIDE DEF page
<1>6. stored' \subseteq Event /\ ignored' \subseteq Event
    BY <1>2, <1>4 DEF FeedInv, FeedTypeOK
<1>7. /\ stored \cup ignored \subseteq stored' \cup ignored'
      /\ page \subseteq stored' \cup ignored'
    BY <1>2
<1>8. \A c \in {0, feedRun.cursor, feedRun.upto} : 1 .. c \subseteq stored' \cup ignored'
    <2>1. 1 .. feedRun.cursor \subseteq stored' \cup ignored'
        BY <1>3, <1>7 DEF Taken
    <2>2. 1 .. feedRun.upto \subseteq stored' \cup ignored'
        BY <1>5, <1>7, <2>1
    <2> QED
        BY <2>1, <2>2
<1>9. CASE feedRun.next \in {0, feedRun.cursor} \/ feedRun.pages + 1 = MaxPages
    <2>1. feedRun' = [feedRun EXCEPT !.state = "end", !.pages = feedRun.pages + 1]
        BY <1>2, <1>9 DEF AfterPage
    <2>2. feedRun.pages + 1 \in 0 .. MaxPages
        BY <1>1, <1>3, RunFacts, FeedAssumption
    <2>3. feedRun' \in FeedRun
        BY <1>3, <2>1, <2>2 DEF FeedRun
    <2>4. /\ feedRun'.state = "end" /\ feedRun'.cursor = feedRun.cursor
          /\ feedRun'.upto = feedRun.upto /\ feedRun'.next = feedRun.next
        BY <1>3, <2>1 DEF FeedRun
    <2>5. RunInProgress'
        BY <1>2, <1>3, <1>8, <2>4 DEF RunInProgress, Taken
    <2>6. ConfirmedIsStored'
        BY <1>2, <1>7 DEF FeedInv, ConfirmedIsStored
    <2> QED
        BY <1>2, <1>6, <2>3, <2>5, <2>6 DEF FeedInv, FeedTypeOK
<1>10. CASE ~(feedRun.next \in {0, feedRun.cursor} \/ feedRun.pages + 1 = MaxPages)
    <2>1. feedRun' = [feedRun EXCEPT !.state = "fetch", !.pages = feedRun.pages + 1, !.cursor = feedRun.next]
        BY <1>2, <1>10 DEF AfterPage
    <2>2. feedRun.pages + 1 \in 0 .. MaxPages /\ feedRun.pages + 1 < MaxPages /\ feedRun.next \in Cursor
        BY <1>1, <1>3, <1>10, RunFacts, FeedAssumption
    <2>3. feedRun' \in FeedRun
        BY <1>3, <2>1, <2>2 DEF FeedRun
    <2>4. /\ feedRun'.state = "fetch" /\ feedRun'.cursor = feedRun.next
          /\ feedRun'.upto = feedRun.upto /\ feedRun'.next = feedRun.next
          /\ feedRun'.pages = feedRun.pages + 1
        BY <1>3, <2>1 DEF FeedRun
    <2>5. RunInProgress'
        BY <1>2, <1>3, <1>8, <2>2, <2>4 DEF RunInProgress, Taken
    <2>6. ConfirmedIsStored'
        BY <1>2, <1>7 DEF FeedInv, ConfirmedIsStored
    <2> QED
        BY <1>2, <1>6, <2>3, <2>5, <2>6 DEF FeedInv, FeedTypeOK
<1> QED
    BY <1>9, <1>10

(* A page without a next cursor confirms none, and none is the beginning.  *)
LEMMA SucceedKeeps == FeedInv /\ FeedSucceed => FeedInv'
<1> SUFFICES ASSUME FeedInv, FeedSucceed PROVE FeedInv'
    OBVIOUS
<1>1. feedRun.state = "end" /\ feedRun # NoFeedRun
    BY DEF FeedSucceed, NoFeedRun
<1>2. feedRun.next \in Cursor /\ feedRun.next <= published /\ Taken(feedRun.next)
    BY <1>1, RunFacts DEF RunInProgress
<1>3. ConfirmedIsStored'
    BY <1>2 DEF FeedSucceed, ConfirmedIsStored, Taken
<1> QED
    BY <1>2, <1>3 DEF FeedSucceed, FeedInv, FeedTypeOK, RunInProgress

LEMMA FeedEnvironmentKeeps == FeedInv /\ (FeedFail \/ Publish \/ OwnerArrives) => FeedInv'
<1> SUFFICES ASSUME FeedInv PROVE (FeedFail \/ Publish \/ OwnerArrives) => FeedInv'
    OBVIOUS
<1> USE FeedAssumption DEF FeedInv, FeedTypeOK, Cursor
<1>1. ASSUME FeedFail PROVE FeedInv'
    BY <1>1 DEF FeedFail, RunInProgress, ConfirmedIsStored
<1>2. ASSUME Publish PROVE FeedInv'
    <2>1. /\ published \in Nat /\ published' = published + 1 /\ published' \in Cursor
          /\ UNCHANGED <<endCursor, known, stored, ignored, confirmed, feedRun, failures>>
        BY <1>2 DEF Publish
    <2>2. CASE feedRun = NoFeedRun
        BY <2>1, <2>2 DEF RunInProgress, ConfirmedIsStored
    <2>3. CASE feedRun # NoFeedRun
        <3>1. /\ feedRun.cursor \in Nat /\ feedRun.upto \in Nat /\ feedRun.next \in Nat
            BY <2>3, RunFacts
        <3>2. RunInProgress'
            BY <2>1, <3>1 DEF RunInProgress, Taken
        <3> QED
            BY <2>1, <3>2 DEF ConfirmedIsStored
    <2> QED
        BY <2>2, <2>3
<1>3. ASSUME OwnerArrives PROVE FeedInv'
    BY <1>3 DEF OwnerArrives, RunInProgress, ConfirmedIsStored, Taken
<1> QED
    BY <1>1, <1>2, <1>3

LEMMA FeedNextKeeps == FeedInv /\ [FeedNext]_feedVars => FeedInv'
<1> SUFFICES ASSUME FeedInv, [FeedNext]_feedVars PROVE FeedInv'
    OBVIOUS
<1>1. CASE UNCHANGED feedVars
    BY <1>1 DEF feedVars, FeedInv, FeedTypeOK, RunInProgress, ConfirmedIsStored, Taken
<1> QED
    BY <1>1, StartKeeps, FetchKeeps, StoreKeeps, SucceedKeeps, FeedEnvironmentKeeps
       DEF FeedNext, FeedWork

(* The invariant holds in every state.                                     *)
THEOREM FeedInvariant == FeedSpec => []FeedInv
BY FeedInitially, FeedNextKeeps, PTL DEF FeedSpec

(* The feed is type correct.                                               *)
THEOREM FeedTypeCorrect == FeedSpec => []FeedTypeOK
BY FeedInvariant, PTL DEF FeedInv

(* The confirmed cursor never runs ahead of what has been stored, for any  *)
(* page size, any number of pages of a run and any failures.               *)
THEOREM FeedConfirmsStored == FeedSpec => []ConfirmedIsStored
BY FeedInvariant, PTL DEF FeedInv

-----------------------------------------------------------------------------
(* Positions.  The features of a cadastre before a given one are finitely  *)
(* many, and the position of a feature is below the number of features.    *)
Lower(f) == {g \in In(lies, lies[f]) : g < f}

LEMMA PositionType ==
    ASSUME NEW f \in Feature
    PROVE  IsFiniteSet(Lower(f)) /\ Position(f) = Cardinality(Lower(f))
           /\ Position(f) \in Nat /\ Position(f) < MaxFeature
<1>1. MaxFeature \in Nat /\ f \in 1 .. MaxFeature
  BY LayerAssumption DEF Feature
<1>2. IsFiniteSet(1 .. f - 1) /\ Cardinality(1 .. f - 1) = f - 1
  BY <1>1, FS_Interval
<1>3. Lower(f) \in SUBSET (1 .. f - 1)
  BY <1>1 DEF Lower, In, Feature
<1>4. /\ IsFiniteSet(Lower(f)) /\ Cardinality(Lower(f)) <= f - 1
      /\ Cardinality(Lower(f)) \in Nat
  BY <1>2, <1>3, FS_Subset, FS_CardinalityType
<1>5. Position(f) = Cardinality(Lower(f))
  BY DEF Position, Lower
<1> QED
  BY <1>1, <1>4, <1>5

(* Of two features of a cadastre the later one has the larger position, so *)
(* no two of them have the same.                                           *)
LEMMA PositionGrows ==
    ASSUME NEW f \in Feature, NEW g \in Feature, lies[f] = lies[g], f < g
    PROVE  Position(f) < Position(g)
<1>1. f \in Nat /\ g \in Nat
  BY LayerAssumption DEF Feature
<1>2. f \notin Lower(f) /\ Lower(f) \cup {f} \subseteq Lower(g)
  BY <1>1, LayerAssumption DEF Lower, In, Feature
<1>3. /\ IsFiniteSet(Lower(f)) /\ Position(f) = Cardinality(Lower(f)) /\ Position(f) \in Nat
      /\ IsFiniteSet(Lower(g)) /\ Position(g) = Cardinality(Lower(g)) /\ Position(g) \in Nat
  BY PositionType
<1>4. Cardinality(Lower(f) \cup {f}) = Cardinality(Lower(f)) + 1
  BY <1>2, <1>3, FS_AddElement
<1>5. Cardinality(Lower(f) \cup {f}) <= Cardinality(Lower(g))
  BY <1>2, <1>3, FS_Subset
<1> QED
  BY <1>3, <1>4, <1>5

LEMMA PositionInjective ==
    ASSUME NEW p, NEW S \in SUBSET In(lies, p), NEW T,
           \A f \in S : Position(f) \in T
    PROVE  [f \in S |-> Position(f)] \in Injection(S, T)
<1>1. \A f, g \in S : f # g => Position(f) # Position(g)
  <2> SUFFICES ASSUME NEW f \in S, NEW g \in S, f # g PROVE Position(f) # Position(g)
    OBVIOUS
  <2>1. f \in Feature /\ g \in Feature /\ lies[f] = lies[g]
    BY DEF In
  <2>2. f < g \/ g < f
    BY <2>1, LayerAssumption DEF Feature
  <2> QED
    BY <2>1, <2>2, PositionGrows, PositionType
<1> QED
  BY <1>1 DEF Injection, IsInjective

(* A page has at most as many features as were asked for, and the index    *)
(* after it is no larger than the number of features.                      *)
LEMMA PageIsBounded ==
    ASSUME NEW p, NEW index \in 0 .. MaxFeature, NEW count \in Nat
    PROVE  /\ IsFiniteSet(PageAt(p, index, count))
           /\ Cardinality(PageAt(p, index, count)) \in Nat
           /\ Cardinality(PageAt(p, index, count)) <= count
           /\ index + Cardinality(PageAt(p, index, count)) \in 0 .. MaxFeature
<1> DEFINE page == PageAt(p, index, count)
<1>m. MaxFeature \in Nat
  BY LayerAssumption
<1>1. page \in SUBSET In(lies, p) /\ page \in SUBSET Feature
  BY DEF PageAt, In
<1>2. \A f \in page : /\ Position(f) \in index .. (index + count - 1)
                      /\ Position(f) \in index .. (MaxFeature - 1)
  BY <1>1, <1>m, PositionType DEF PageAt
<1>3. /\ [f \in page |-> Position(f)] \in Injection(page, index .. (index + count - 1))
      /\ [f \in page |-> Position(f)] \in Injection(page, index .. (MaxFeature - 1))
  BY <1>1, <1>2, PositionInjective
<1>4. /\ IsFiniteSet(index .. (index + count - 1)) /\ IsFiniteSet(index .. (MaxFeature - 1))
      /\ Cardinality(index .. (index + count - 1)) = count
      /\ Cardinality(index .. (MaxFeature - 1)) = MaxFeature - index
  <2>1. index \in Int /\ index + count - 1 \in Int /\ MaxFeature - 1 \in Int
    BY <1>m
  <2>2. \A a, b \in Int : /\ IsFiniteSet(a .. b)
                          /\ Cardinality(a .. b) = IF a > b THEN 0 ELSE b - a + 1
    BY FS_Interval
  <2>3. /\ index > index + count - 1 => count = 0
        /\ index > MaxFeature - 1 => MaxFeature - index = 0
        /\ (index + count - 1) - index + 1 = count
        /\ (MaxFeature - 1) - index + 1 = MaxFeature - index
    BY <1>m
  <2> QED
    BY <2>1, <2>2, <2>3
<1>5. /\ IsFiniteSet(page)
      /\ Cardinality(page) <= Cardinality(index .. (index + count - 1))
      /\ Cardinality(page) <= Cardinality(index .. (MaxFeature - 1))
  BY <1>3, <1>4, FS_Injection
<1>6. Cardinality(page) \in Nat
  BY <1>5, FS_CardinalityType
<1> QED
  BY <1>4, <1>5, <1>6, <1>m

(* A page with fewer features than asked for is the last: every position   *)
(* below that of a feature is taken, so that a feature behind the page     *)
(* would mean a full one.                                                  *)
LEMMA ShortPageIsLast ==
    ASSUME NEW p, NEW index \in 0 .. MaxFeature, NEW count \in Nat,
           Cardinality(PageAt(p, index, count)) < count,
           NEW f \in In(lies, p)
    PROVE  Position(f) < index + count
<1> SUFFICES ASSUME index + count <= Position(f) PROVE FALSE
  BY PositionType DEF In
<1> DEFINE page == PageAt(p, index, count)
           m    == Position(f)
           rank == [g \in Lower(f) |-> Position(g)]
<1>1. f \in Feature /\ lies[f] = p /\ m \in Nat /\ IsFiniteSet(Lower(f)) /\ Cardinality(Lower(f)) = m
  BY PositionType DEF In
<1>2. Lower(f) \in SUBSET In(lies, p)
  BY <1>1 DEF Lower
<1>3. \A g \in Lower(f) : Position(g) \in 0 .. (m - 1)
  <2> SUFFICES ASSUME NEW g \in Lower(f) PROVE Position(g) \in 0 .. (m - 1)
    OBVIOUS
  <2>1. g \in Feature /\ lies[g] = lies[f] /\ g < f
    BY <1>1 DEF Lower, In
  <2>2. Position(g) < Position(f) /\ Position(g) \in Nat
    BY <1>1, <2>1, PositionGrows, PositionType
  <2> QED
    BY <1>1, <2>2
<1>4. rank \in Injection(Lower(f), 0 .. (m - 1))
  BY <1>2, <1>3, PositionInjective
<1>5. IsFiniteSet(0 .. (m - 1)) /\ Cardinality(0 .. (m - 1)) = m
  <2>1. 0 \in Int /\ m - 1 \in Int
    BY <1>1
  <2>2. /\ IsFiniteSet(0 .. (m - 1))
        /\ Cardinality(0 .. (m - 1)) = IF 0 > m - 1 THEN 0 ELSE (m - 1) - 0 + 1
    BY <2>1, FS_Interval
  <2> QED
    BY <1>1, <2>2
<1>6. rank \in Surjection(Lower(f), 0 .. (m - 1))
  BY <1>1, <1>4, <1>5, FS_Injection
<1>7. \A k \in index .. (index + count - 1) : \E g \in page : Position(g) = k
  <2> SUFFICES ASSUME NEW k \in index .. (index + count - 1)
               PROVE  \E g \in page : Position(g) = k
    OBVIOUS
  <2>1. k \in 0 .. (m - 1)
    BY <1>1
  <2>2. PICK g \in Lower(f) : rank[g] = k
    BY <1>6, <2>1 DEF Surjection
  <2>3. Position(g) = k /\ g \in In(lies, p)
    BY <1>2, <2>2
  <2> QED
    BY <2>3 DEF PageAt
<1>8. \A g \in page : Position(g) \in index .. (index + count - 1)
  <2>1. page \subseteq Feature
    BY DEF PageAt, In
  <2> QED
    BY <2>1, PositionType DEF PageAt
<1>9. [g \in page |-> Position(g)] \in Surjection(page, index .. (index + count - 1))
  BY <1>7, <1>8 DEF Surjection
<1>10. IsFiniteSet(page)
  BY PageIsBounded
<1>11. Cardinality(index .. (index + count - 1)) <= Cardinality(page)
  BY <1>9, <1>10, FS_Surjection
<1>12. Cardinality(index .. (index + count - 1)) = count
  BY FS_Interval
<1>13. Cardinality(page) \in Nat
  BY PageIsBounded
<1> QED
  BY <1>11, <1>12, <1>13

(* What has been read after a page: everything, when the page was short,   *)
(* and everything before the new index otherwise.                          *)
LEMMA PageFollows ==
    ASSUME NEW p, NEW index \in 0 .. MaxFeature, NEW count \in Nat
    PROVE  LET page == PageAt(p, index, count)
               read == {f \in In(lies, p) : Position(f) < index} \cup page
           IN  IF IsLastPage(page, count) THEN read = In(lies, p)
               ELSE read = {f \in In(lies, p) : Position(f) < index + Cardinality(page)}
<1> DEFINE page == PageAt(p, index, count)
           read == {f \in In(lies, p) : Position(f) < index} \cup page
<1>1. \A f \in In(lies, p) : Position(f) \in Nat
  BY PositionType DEF In
<1>2. Cardinality(page) \in Nat /\ Cardinality(page) <= count
  BY PageIsBounded
<1>3. CASE IsLastPage(page, count)
  <2>1. \A f \in In(lies, p) : Position(f) < index + count
    BY <1>3, ShortPageIsLast DEF IsLastPage
  <2>2. read = In(lies, p)
    BY <1>1, <2>1 DEF PageAt
  <2> QED
    BY <1>3, <2>2
<1>4. CASE ~IsLastPage(page, count)
  <2>1. Cardinality(page) = count
    BY <1>2, <1>4 DEF IsLastPage
  <2>2. read = {f \in In(lies, p) : Position(f) < index + count}
    BY <1>1 DEF PageAt
  <2> QED
    BY <1>4, <2>1, <2>2
<1> QED
  BY <1>3, <1>4

-----------------------------------------------------------------------------
(* What an import knows.  While it reads, it has exactly the features      *)
(* before its index; when it stores, it has all of them and those it is    *)
(* through with lie in its cadastre, since no quiet import takes a feature *)
(* of another cadastre; what held nothing still does until it stores.      *)
LoadInv(p) ==
    /\ load[p].todo \subseteq load[p].answer
    /\ load[p].state = "read" =>
         /\ load[p].next < FeatureBudget
         /\ ~load[p].broken
         /\ load[p].todo = load[p].answer
         /\ load[p].next = 0 => load[p].answer = {}
    /\ load[p].broken => load[p].answer = {} /\ load[p].todo = {}
    /\ load[p].previous = 0 /\ (load[p].state = "read" \/ load[p].broken) => In(holder, p) = {}
    /\ load[p].quiet =>
         /\ \A q \in Parcel : load[q] # NoLoad => load[q].quiet
         /\ load[p].answer \subseteq In(lies, p)
         /\ load[p].state = "read" =>
              load[p].answer = {f \in In(lies, p) : Position(f) < load[p].next}
         /\ load[p].state = "store" /\ ~load[p].broken =>
              /\ load[p].answer = In(lies, p)
              /\ \A f \in load[p].answer \ load[p].todo : holder[f] = p

LayerInv == LayerTypeOK /\ \A p \in Parcel : load[p] # NoLoad => LoadInv(p)

LEMMA NoLoadIsNone == NoLoad \notin Load /\ NoLoad.state = "none"
<1>1. \A l \in Load : l.state # "none"
  BY DEF Load
<1> QED
  BY <1>1 DEF NoLoad

LEMMA HeldCount ==
    ASSUME NEW p, NEW where \in [Feature -> Place]
    PROVE  /\ Cardinality(In(where, p)) \in 0 .. MaxFeature
           /\ Cardinality(In(where, p)) = 0 => In(where, p) = {}
<1>1. /\ IsFiniteSet(Feature) /\ Cardinality(Feature) = MaxFeature
  BY LayerAssumption, FS_Interval DEF Feature
<1>2. In(where, p) \in SUBSET Feature
  BY DEF In
<1>3. /\ IsFiniteSet(In(where, p)) /\ Cardinality(In(where, p)) <= MaxFeature
      /\ Cardinality(In(where, p)) \in Nat
  BY <1>1, <1>2, FS_Subset, FS_CardinalityType
<1> QED
  BY <1>3, FS_EmptySet, LayerAssumption

LEMMA LayerInitially == LayerInit => LayerInv
BY LayerAssumption DEF LayerInit, LayerInv, LayerTypeOK, Place

LEMMA ProviderChangesKeeps == LayerInv /\ ProviderChanges => LayerInv'
<1> SUFFICES ASSUME LayerInv, ProviderChanges PROVE LayerInv'
  OBVIOUS
<1>1. PICK f \in Feature, to \in Place : lies' = [lies EXCEPT ![f] = to]
  BY DEF ProviderChanges
<1>2. /\ load' = [p \in Parcel |-> IF load[p] = NoLoad THEN NoLoad
                                   ELSE [load[p] EXCEPT !.quiet = FALSE]]
      /\ holder' = holder /\ moves < MaxMoves /\ moves' = moves + 1
  BY DEF ProviderChanges
<1>3. ASSUME NEW p \in Parcel
      PROVE  /\ load'[p] \in Load \cup {NoLoad}
             /\ load'[p] # NoLoad => LoadInv(p)'
  <2>1. CASE load[p] = NoLoad
    BY <1>2, <2>1
  <2>2. CASE load[p] # NoLoad
    <3>1. load[p] \in Load /\ LoadInv(p)
      BY <2>2 DEF LayerInv, LayerTypeOK
    <3>2. load'[p] = [load[p] EXCEPT !.quiet = FALSE]
      BY <1>2, <2>2
    <3>3. /\ load'[p] \in Load /\ ~load'[p].quiet
          /\ load'[p].state = load[p].state /\ load'[p].previous = load[p].previous
          /\ load'[p].answer = load[p].answer /\ load'[p].todo = load[p].todo
          /\ load'[p].next = load[p].next /\ load'[p].broken = load[p].broken
      BY <3>1, <3>2 DEF Load
    <3>4. In(holder, p)' = In(holder, p)
      BY <1>2 DEF In
    <3> QED
      BY <3>1, <3>3, <3>4 DEF LoadInv
  <2> QED
    BY <2>1, <2>2
<1>4. LayerTypeOK'
  <2>1. lies' \in [Feature -> Place]
    BY <1>1 DEF LayerInv, LayerTypeOK
  <2>2. \E f2 \in [Parcel -> Load \cup {NoLoad}] : load' = f2
    BY <1>2, <1>3
  <2>3. moves' \in 0 .. MaxMoves
    BY <1>2, LayerAssumption DEF LayerInv, LayerTypeOK
  <2> QED
    BY <1>2, <2>1, <2>2, <2>3 DEF LayerInv, LayerTypeOK
<1> QED
  BY <1>3, <1>4 DEF LayerInv

(* A step of one import leaves what the others know, as long as it takes   *)
(* no feature a quiet import has stored and is itself no less quiet.       *)
LEMMA OtherLoads ==
    ASSUME LayerInv, NEW p \in Parcel, NEW l \in Load \cup {NoLoad},
           load' = [load EXCEPT ![p] = l], lies' = lies,
           \A q \in Parcel \ {p} : In(holder', q) \subseteq In(holder, q),
           \A q \in Parcel \ {p} : load[q] # NoLoad /\ load[q].quiet =>
             /\ l # NoLoad => l.quiet
             /\ \A f \in In(lies, q) : holder[f] = q => holder'[f] = q
    PROVE  \A q \in Parcel \ {p} : load'[q] = load[q] /\ (load'[q] # NoLoad => LoadInv(q)')
<1> SUFFICES ASSUME NEW q \in Parcel \ {p}, load[q] # NoLoad PROVE load'[q] = load[q] /\ LoadInv(q)'
  BY DEF LayerInv, LayerTypeOK
<1>1. load'[q] = load[q] /\ load[q] \in Load /\ LoadInv(q)
  BY DEF LayerInv, LayerTypeOK
<1>2. /\ In(lies, q)' = In(lies, q)
      /\ {f \in In(lies, q) : Position(f) < load[q].next}'
           = {f \in In(lies, q) : Position(f) < load[q].next}
  BY <1>1 DEF Position, In
<1>3. In(holder, q)' \subseteq In(holder, q)
  BY DEF In
<1>4. load[q].quiet => \A r \in Parcel : load'[r] # NoLoad => load'[r].quiet
  <2> SUFFICES ASSUME load[q].quiet, NEW r \in Parcel, load'[r] # NoLoad PROVE load'[r].quiet
    OBVIOUS
  <2>1. CASE r = p
    BY <2>1 DEF LayerInv, LayerTypeOK
  <2>2. CASE r # p
    BY <1>1, <2>2 DEF LoadInv, LayerInv, LayerTypeOK
  <2> QED
    BY <2>1, <2>2
<1>5. load[q].quiet /\ load[q].state = "store" /\ ~load[q].broken =>
        \A f \in load[q].answer \ load[q].todo : holder'[f] = q
  BY <1>1 DEF LoadInv
<1> QED
  BY <1>1, <1>2, <1>3, <1>4, <1>5 DEF LoadInv

(* The common part of the steps: the import itself, and what it holds.     *)
LEMMA LoadSteps ==
    ASSUME LayerInv, NEW p \in Parcel, NEW l \in Load \cup {NoLoad},
           load' = [load EXCEPT ![p] = l], UNCHANGED <<lies, moves>>,
           holder' \in [Feature -> Place],
           \A q \in Parcel \ {p} : In(holder', q) \subseteq In(holder, q),
           \A q \in Parcel \ {p} : load[q] # NoLoad /\ load[q].quiet =>
             /\ l # NoLoad => l.quiet
             /\ \A f \in In(lies, q) : holder[f] = q => holder'[f] = q,
           l # NoLoad => LoadInv(p)'
    PROVE  LayerInv'
<1>1. LayerTypeOK'
  BY DEF LayerInv, LayerTypeOK
<1>2. \A q \in Parcel \ {p} : load'[q] # NoLoad => LoadInv(q)'
  BY OtherLoads
<1>3. load'[p] = l
  BY DEF LayerInv, LayerTypeOK
<1> QED
  BY <1>1, <1>2, <1>3 DEF LayerInv

LEMMA LoadStartKeeps == ASSUME NEW p \in Parcel PROVE LayerInv /\ LoadStart(p) => LayerInv'
<1> SUFFICES ASSUME LayerInv, LoadStart(p) PROVE LayerInv'
  OBVIOUS
<1>t. load \in [Parcel -> Load \cup {NoLoad}] /\ holder \in [Feature -> Place]
  BY DEF LayerInv, LayerTypeOK
<1> DEFINE still == \A q \in Parcel : load[q] # NoLoad => load[q].quiet
           l == [state |-> "read", previous |-> Cardinality(In(holder, p)), answer |-> {},
                 todo |-> {}, next |-> 0, broken |-> FALSE, quiet |-> still]
<1>1. load' = [load EXCEPT ![p] = l] /\ UNCHANGED <<lies, holder, moves>> /\ load[p] = NoLoad
  BY DEF LoadStart
<1>2. l \in Load
  BY <1>t, HeldCount, LayerAssumption DEF Load, Feature
<1>3. \A q \in Parcel \ {p} : load[q] # NoLoad /\ load[q].quiet => l.quiet
  <2> SUFFICES ASSUME NEW q \in Parcel, load[q] # NoLoad, load[q].quiet PROVE still
    OBVIOUS
  <2> QED
    BY DEF LayerInv, LoadInv
<1>4. LoadInv(p)'
  <2>1. load'[p] = l
    BY <1>t, <1>1
  <2>2. \A f \in In(lies, p) : Position(f) \in Nat
    BY PositionType DEF In
  <2>3. l.answer = {f \in In(lies, p) : Position(f) < 0}
    BY <2>2
  <2>4. In(lies, p)' = In(lies, p) /\ In(holder, p)' = In(holder, p)
        /\ {f \in In(lies, p) : Position(f) < 0}' = {f \in In(lies, p) : Position(f) < 0}
    BY <1>1 DEF Position, In
  <2>5. l.previous = 0 => In(holder, p) = {}
    BY <1>t, HeldCount
  <2>6. l.quiet => \A q \in Parcel : load'[q] # NoLoad => load'[q].quiet
    BY <1>t, <1>1
  <2> HIDE DEF still
  <2> QED
    BY <2>1, <2>3, <2>4, <2>5, <2>6, LayerAssumption DEF LoadInv
<1> HIDE DEF l
<1> QED
  BY <1>1, <1>2, <1>3, <1>4, <1>t, LoadSteps

LEMMA LoadPageKeeps == ASSUME NEW p \in Parcel PROVE LayerInv /\ LoadPage(p) => LayerInv'
<1> SUFFICES ASSUME LayerInv, LoadPage(p) PROVE LayerInv'
  OBVIOUS
<1>t. load \in [Parcel -> Load \cup {NoLoad}] /\ holder \in [Feature -> Place]
  BY DEF LayerInv, LayerTypeOK
<1>1. load[p].state = "read" /\ load[p] \in Load /\ LoadInv(p)
  BY NoLoadIsNone DEF LoadPage, LayerInv, LayerTypeOK
<1> DEFINE left  == FeatureBudget - load[p].next
           asked == IF left < LayerPage THEN left ELSE LayerPage
           page  == PageAt(p, load[p].next, asked)
           read  == load[p].answer \cup page
           next  == load[p].next + Cardinality(page)
           s     == IF IsLastPage(page, asked) THEN "store" ELSE "read"
<1>3. load[p].next \in 0 .. MaxFeature /\ asked \in Nat /\ asked > 0
  BY <1>1, LayerAssumption DEF Load, LoadInv
<1>4. /\ IsFiniteSet(page) /\ Cardinality(page) \in Nat /\ next \in 0 .. MaxFeature
  BY <1>3, PageIsBounded
<1>5. page = {} <=> Cardinality(page) = 0
  BY <1>4, FS_EmptySet
<1>6. page \subseteq In(lies, p) /\ page \subseteq Feature
  BY DEF PageAt, In
<1>8. IF IsLastPage(page, asked)
        THEN {f \in In(lies, p) : Position(f) < load[p].next} \cup page = In(lies, p)
        ELSE {f \in In(lies, p) : Position(f) < load[p].next} \cup page
               = {f \in In(lies, p) : Position(f) < next}
  BY <1>3, PageFollows
<1>c. PICK count \in IF IsLastPage(page, asked) THEN Counted(p) ELSE {load[p].previous} :
        /\ load' = [load EXCEPT ![p] =
              IF page # {} /\ next >= FeatureBudget THEN NoLoad
              ELSE [@ EXCEPT !.state = s, !.previous = count, !.answer = read, !.todo = read,
                             !.next = next]]
        /\ UNCHANGED <<lies, holder, moves>>
  BY DEF LoadPage
<1> DEFINE r     == [load[p] EXCEPT !.state = s, !.previous = count, !.answer = read, !.todo = read,
                                    !.next = next]
           l     == IF page # {} /\ next >= FeatureBudget THEN NoLoad ELSE r
<1>2. load' = [load EXCEPT ![p] = l] /\ UNCHANGED <<lies, holder, moves>>
  BY <1>c, <1>t
<1>d. count \in 0 .. MaxFeature /\ (s = "read" => count = load[p].previous)
  BY <1>c, <1>t, <1>1, HeldCount DEF Counted, Load
<1>7. /\ r \in Load /\ r.state = s /\ r.answer = read /\ r.todo = read /\ r.next = next
      /\ r.previous = count /\ r.broken = load[p].broken /\ r.quiet = load[p].quiet
  BY <1>1, <1>4, <1>6, <1>d DEF Load
<1>9. /\ s \in {"read", "store"}
      /\ s = "read" => page # {}
      /\ s = "read" /\ l # NoLoad => next < FeatureBudget
  <2>1. s = "read" => page # {}
    BY <1>3, <1>5 DEF IsLastPage
  <2> QED
    BY <2>1, <1>4, <1>7, NoLoadIsNone, LayerAssumption
<1>10. l \in Load \cup {NoLoad} /\ (l # NoLoad => l = r)
  BY <1>7
<1>11. ASSUME load[p].quiet
       PROVE  /\ read \subseteq In(lies, p)
              /\ s = "read" => read = {f \in In(lies, p) : Position(f) < next}
              /\ s = "store" => read = In(lies, p)
  <2>1. load[p].answer = {f \in In(lies, p) : Position(f) < load[p].next}
    BY <1>1, <1>11 DEF LoadInv
  <2> QED
    BY <1>6, <1>8, <2>1
<1>12. next = 0 => read = {}
  BY <1>1, <1>3, <1>4, <1>5 DEF LoadInv
<1>13. ASSUME l # NoLoad PROVE LoadInv(p)'
  <2> HIDE DEF page, read, next, s, r, l
  <2>1. load'[p] = r
    BY <1>t, <1>2, <1>10, <1>13
  <2>2. /\ In(lies, p)' = In(lies, p) /\ In(holder, p)' = In(holder, p)
        /\ \A f : Position(f)' = Position(f)
    BY <1>2 DEF Position, In
  <2>3. r.quiet => \A q \in Parcel : load'[q] # NoLoad => load'[q].quiet
    BY <1>t, <1>1, <1>2, <1>7, <1>10 DEF LoadInv
  <2>4. s = "read" /\ count = 0 => In(holder, p) = {}
    BY <1>1, <1>d DEF LoadInv
  <2>5. ~r.broken /\ r.todo = r.answer
    BY <1>1, <1>7 DEF LoadInv
  <2> QED
    BY <1>7, <1>9, <1>11, <1>12, <1>13, <2>1, <2>2, <2>3, <2>4, <2>5 DEF LoadInv
<1>14. \A q \in Parcel \ {p} : load[q] # NoLoad /\ load[q].quiet => (l # NoLoad => l.quiet)
  BY <1>1, <1>7, <1>10, NoLoadIsNone DEF LayerInv, LoadInv
<1> HIDE DEF l
<1> QED
  BY <1>2, <1>10, <1>13, <1>14, <1>t, LoadSteps

LEMMA LoadBrokenKeeps == ASSUME NEW p \in Parcel PROVE LayerInv /\ LoadBroken(p) => LayerInv'
<1> SUFFICES ASSUME LayerInv, LoadBroken(p) PROVE LayerInv'
  OBVIOUS
<1>t. load \in [Parcel -> Load \cup {NoLoad}] /\ holder \in [Feature -> Place]
  BY DEF LayerInv, LayerTypeOK
<1>1. load[p] \in Load /\ LoadInv(p) /\ load[p].state = "read" /\ load[p].next = 0
  BY NoLoadIsNone DEF LoadBroken, LayerInv, LayerTypeOK
<1>c. PICK count \in Counted(p) :
        load' = [load EXCEPT ![p] = [@ EXCEPT !.state = "store", !.previous = count,
                                              !.broken = TRUE]]
  BY DEF LoadBroken
<1>2. PICK l : l = [load[p] EXCEPT !.state = "store", !.previous = count, !.broken = TRUE]
  OBVIOUS
<1>3. load' = [load EXCEPT ![p] = l] /\ UNCHANGED <<lies, holder, moves>>
  BY <1>1, <1>2, <1>c, <1>t DEF LoadBroken
<1>d. count \in 0 .. MaxFeature /\ (count = 0 => In(holder, p) = {})
  BY <1>t, <1>1, HeldCount DEF Counted, Load, LoadInv
<1>4. /\ l \in Load /\ l.state = "store" /\ l.broken /\ l.answer = load[p].answer
      /\ l.todo = load[p].todo /\ l.previous = count /\ l.quiet = load[p].quiet
      /\ l.next = load[p].next
  BY <1>1, <1>2, <1>d DEF Load
<1>5. load'[p] = l
  BY <1>t, <1>3
<1>6. In(lies, p)' = In(lies, p) /\ In(holder, p)' = In(holder, p)
  BY <1>3 DEF In
<1>7. l.quiet => \A q \in Parcel : load'[q] # NoLoad => load'[q].quiet
  BY <1>t, <1>1, <1>3, <1>4 DEF LoadInv
<1>8. LoadInv(p)'
  BY <1>1, <1>4, <1>5, <1>6, <1>7, <1>d DEF LoadInv
<1>9. \A q \in Parcel \ {p} : load[q] # NoLoad /\ load[q].quiet => l.quiet
  BY <1>1, <1>4, NoLoadIsNone DEF LayerInv, LoadInv
<1> QED
  BY <1>3, <1>4, <1>8, <1>9, <1>t, LoadSteps

LEMMA LoadStoreKeeps == ASSUME NEW p \in Parcel PROVE LayerInv /\ LoadStore(p) => LayerInv'
<1> SUFFICES ASSUME LayerInv, LoadStore(p) PROVE LayerInv'
  OBVIOUS
<1>t. load \in [Parcel -> Load \cup {NoLoad}] /\ holder \in [Feature -> Place]
      /\ lies \in [Feature -> Place]
  BY DEF LayerInv, LayerTypeOK
<1>1. load[p] \in Load /\ LoadInv(p) /\ load[p].state = "store"
  BY NoLoadIsNone DEF LoadStore, LayerInv, LayerTypeOK
<1>2. PICK f \in load[p].todo : /\ holder' = [holder EXCEPT ![f] = p]
                                /\ load' = [load EXCEPT ![p].todo = @ \ {f}]
  BY DEF LoadStore
<1>3. PICK l : l = [load[p] EXCEPT !.todo = @ \ {f}]
  OBVIOUS
<1>4. load' = [load EXCEPT ![p] = l] /\ UNCHANGED <<lies, moves>>
  BY <1>2, <1>3, <1>t DEF LoadStore
<1>5. /\ l \in Load /\ l.state = "store" /\ l.broken = load[p].broken
      /\ l.answer = load[p].answer /\ l.todo = load[p].todo \ {f}
      /\ l.previous = load[p].previous /\ l.quiet = load[p].quiet /\ l.next = load[p].next
  BY <1>1, <1>3 DEF Load
<1>6. f \in Feature /\ ~load[p].broken
  BY <1>1 DEF Load, LoadInv
<1>7. /\ load'[p] = l /\ holder'[f] = p /\ \A g \in Feature \ {f} : holder'[g] = holder[g]
      /\ holder' \in [Feature -> Place]
  BY <1>t, <1>2, <1>4, <1>6 DEF Place
<1>8. \A q \in Parcel \ {p} : In(holder', q) \subseteq In(holder, q)
  BY <1>7 DEF In
<1>9. ASSUME NEW q \in Parcel \ {p}, load[q] # NoLoad, load[q].quiet
      PROVE  l.quiet /\ \A g \in In(lies, q) : holder[g] = q => holder'[g] = q
  <2>1. load[p].quiet
    BY <1>1, <1>9, NoLoadIsNone DEF LayerInv, LoadInv
  <2>2. f \in In(lies, p)
    BY <1>1, <1>6, <2>1 DEF LoadInv
  <2> QED
    BY <1>5, <1>7, <2>1, <2>2 DEF In
<1>10. LoadInv(p)'
  <2>1. In(lies, p)' = In(lies, p)
    BY <1>4 DEF In
  <2>2. l.quiet => \A q \in Parcel : load'[q] # NoLoad => load'[q].quiet
    BY <1>t, <1>1, <1>4, <1>5 DEF LoadInv
  <2>3. \A g \in l.answer \ l.todo : g = f \/ g \in load[p].answer \ load[p].todo
    BY <1>5
  <2>4. l.quiet => \A g \in l.answer \ l.todo : holder'[g] = p
    <3> SUFFICES ASSUME l.quiet, NEW g \in l.answer \ l.todo PROVE holder'[g] = p
      OBVIOUS
    <3>1. CASE g = f
      BY <1>7, <3>1
    <3>2. CASE g # f
      <4>1. holder[g] = p /\ g \in Feature
        BY <1>1, <1>5, <1>6, <2>3, <3>2 DEF LoadInv, Load
      <4> QED
        BY <1>7, <3>2, <4>1
    <3> QED
      BY <3>1, <3>2
  <2> QED
    BY <1>1, <1>5, <1>6, <1>7, <2>1, <2>2, <2>4 DEF LoadInv
<1>11. \A q \in Parcel \ {p} : load[q] # NoLoad /\ load[q].quiet =>
         /\ l # NoLoad => l.quiet
         /\ \A g \in In(lies, q) : holder[g] = q => holder'[g] = q
  BY <1>9
<1>12. l \in Load \cup {NoLoad} /\ holder' \in [Feature -> Place]
  BY <1>5, <1>7
<1> QED
  BY <1>4, <1>8, <1>10, <1>11, <1>12, LoadSteps

LEMMA LoadReplaceKeeps == ASSUME NEW p \in Parcel PROVE LayerInv /\ LoadReplace(p) => LayerInv'
<1> SUFFICES ASSUME LayerInv, LoadReplace(p) PROVE LayerInv'
  OBVIOUS
<1>t. load \in [Parcel -> Load \cup {NoLoad}] /\ holder \in [Feature -> Place]
  BY DEF LayerInv, LayerTypeOK
<1>1. /\ load' = [load EXCEPT ![p] = NoLoad] /\ UNCHANGED <<lies, moves>>
      /\ holder' = [f \in Feature |-> IF holder[f] = p /\ f \notin load[p].answer THEN Nowhere
                                      ELSE holder[f]]
  BY DEF LoadReplace
<1>2. holder' \in [Feature -> Place]
  BY <1>t, <1>1 DEF Place
<1>3. \A q \in Parcel \ {p} : In(holder', q) = In(holder, q)
  BY <1>1, LayerAssumption DEF In
<1>4. \A q \in Parcel \ {p} : \A f \in In(lies, q) : holder[f] = q => holder'[f] = q
  BY <1>1 DEF In
<1> QED
  BY <1>1, <1>2, <1>3, <1>4, LoadSteps

LEMMA LoadFailsKeeps == ASSUME NEW p \in Parcel PROVE LayerInv /\ LoadFails(p) => LayerInv'
<1> SUFFICES ASSUME LayerInv, LoadFails(p) PROVE LayerInv'
  OBVIOUS
<1>1. /\ load' = [load EXCEPT ![p] = NoLoad] /\ UNCHANGED <<lies, holder, moves>>
      /\ holder \in [Feature -> Place]
  BY DEF LoadFails, LayerInv, LayerTypeOK
<1> QED
  BY <1>1, LoadSteps

LEMMA LayerNextKeeps == LayerInv /\ [LayerNext]_layerVars => LayerInv'
<1>1. LayerInv /\ UNCHANGED layerVars => LayerInv'
  BY DEF layerVars, LayerInv, LayerTypeOK, LoadInv, Position, In
<1> QED
  BY <1>1, ProviderChangesKeeps, LoadStartKeeps, LoadPageKeeps, LoadBrokenKeeps, LoadStoreKeeps,
     LoadReplaceKeeps, LoadFailsKeeps DEF LayerNext, LoadStep

(* The import knows what it has read and stored, for every number of       *)
(* features, cadastres and changes and all page sizes and budgets.         *)
THEOREM LayerInvariant == LayerSpec => []LayerInv
<1> QED
  BY LayerInitially, LayerNextKeeps, PTL DEF LayerSpec

(* The values of the layer imports keep their types; the index of an       *)
(* import never exceeds the number of features, whatever changes while it  *)
(* is reading.                                                             *)
THEOREM LayerTypeCorrect == LayerSpec => []LayerTypeOK
<1>1. LayerInv => LayerTypeOK
  BY DEF LayerInv
<1> QED
  BY <1>1, LayerInvariant, PTL

LEMMA ReplaceMirrors ==
    ASSUME NEW p \in Parcel, LayerInv, load[p] # NoLoad, load[p].state = "store", LoadReplace(p)
    PROVE  IF load[p].broken THEN holder' = holder
           ELSE load[p].quiet => In(holder', p) = In(lies, p)
<1>t. load[p] \in Load /\ LoadInv(p) /\ holder \in [Feature -> Place]
  BY DEF LayerInv, LayerTypeOK
<1>1. /\ holder' = [f \in Feature |-> IF holder[f] = p /\ f \notin load[p].answer THEN Nowhere
                                      ELSE holder[f]]
      /\ load[p].todo = {} /\ SafeReplacement(load[p])
  BY DEF LoadReplace
<1>2. CASE load[p].broken
  <2>1. load[p].answer = {} /\ load[p].previous \in Nat
    BY <1>t, <1>2, LayerAssumption DEF LoadInv, Load
  <2>2. load[p].previous = 0
    BY <1>1, <2>1 DEF SafeReplacement
  <2>3. \A f \in Feature : holder[f] # p
    BY <1>t, <1>2, <2>2 DEF LoadInv, In
  <2> QED
    BY <1>t, <1>1, <1>2, <2>3
<1>3. CASE ~load[p].broken /\ load[p].quiet
  <2>1. load[p].answer = In(lies, p) /\ \A f \in load[p].answer : holder[f] = p
    BY <1>t, <1>1, <1>3 DEF LoadInv
  <2> QED
    BY <1>1, <1>3, <2>1, LayerAssumption DEF In
<1> QED
  BY <1>2, <1>3

LEMMA MirroringStep == LayerInv /\ [LayerNext]_layerVars =>
    [\A p \in Parcel :
        load[p] # NoLoad /\ load[p].state = "store" /\ LoadReplace(p) =>
          IF load[p].broken THEN holder' = holder
          ELSE load[p].quiet => In(holder', p) = In(lies, p)]_layerVars
BY ReplaceMirrors

(* A successful import of a cadastre leaves it exactly the features that   *)
(* lie in it, whatever other imports store at the same time, and a broken  *)
(* answer deletes nothing.                                                 *)
THEOREM ReplacementMirrorsLayer == LayerSpec => SuccessMirrorsLayer
BY MirroringStep, LayerInvariant, PTL DEF LayerSpec, SuccessMirrorsLayer
=============================================================================
