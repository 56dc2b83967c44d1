------------------------------ MODULE WeaselFeed ------------------------------
(***************************************************************************)
(* The ownership-change feed of one organization (tasks.py,                *)
(* weasel_ownership_sync.py, weasel_client.py): a run reads the feed page  *)
(* by page from the cursor of the last successful run, stores the events   *)
(* of each page in a transaction of its own and confirms the cursor it     *)
(* has reached when it succeeds.                                           *)
(*                                                                         *)
(* One run at a time: the lock outlives the hard time limit of a task (see *)
(* SingleFlight).  An event is its position in the feed, a cursor the      *)
(* position it follows; no cursor at all (NULL) is 0, the beginning.       *)
(***************************************************************************)
EXTENDS Naturals

CONSTANTS
    MaxEvents,   \* bound: events the provider ever publishes
    PageSize,    \* FORESTIQ_WEASEL_PAGE_SIZE
    MaxPages,    \* pages of a run: MAX_EVENTS / PAGE_SIZE, rounded up
    MaxFailures  \* bound: runs that fail or are killed

ASSUME FeedAssumption ==
    /\ MaxEvents \in Nat
    /\ PageSize \in Nat \ {0}
    /\ MaxPages \in Nat \ {0}
    /\ MaxFailures \in Nat

VARIABLES
    published,   \* events in the feed
    endCursor,   \* TRUE: the provider has a cursor at the end of the feed too
    known,       \* events whose owner or cadastre the organization has
    stored,      \* OwnershipTransitionEvent rows
    ignored,     \* events that were read while their owner was not known
    confirmed,   \* cursor of the last successful run
    feedRun,     \* the run in progress
    failures

feedVars == <<published, endCursor, known, stored, ignored, confirmed, feedRun, failures>>

Event   == 1 .. MaxEvents
Cursor  == 0 .. MaxEvents
FeedRun == [state : {"fetch", "store", "end"}, cursor : Cursor, upto : Cursor,
            next : Cursor, pages : 0 .. MaxPages]
NoFeedRun == [state |-> "none"]

FeedTypeOK ==
    /\ published \in Cursor
    /\ endCursor \in BOOLEAN
    /\ known \subseteq Event /\ stored \subseteq Event /\ ignored \subseteq Event
    /\ confirmed \in Cursor
    /\ feedRun \in FeedRun \cup {NoFeedRun}
    /\ failures \in 0 .. MaxFailures

FeedInit ==
    /\ published = 0
    /\ endCursor \in BOOLEAN
    /\ known \in SUBSET Event
    /\ stored = {} /\ ignored = {}
    /\ confirmed = 0
    /\ feedRun = NoFeedRun
    /\ failures = 0

-----------------------------------------------------------------------------
Publish ==
    /\ published < MaxEvents
    /\ published' = published + 1
    /\ UNCHANGED <<endCursor, known, stored, ignored, confirmed, feedRun, failures>>

(* Another import brings the owner of an event.                            *)
OwnerArrives ==
    /\ \E e \in Event \ known : known' = known \cup {e}
    /\ UNCHANGED <<published, endCursor, stored, ignored, confirmed, feedRun, failures>>

(* run_weasel_ownership_delta resumes at the last success.                 *)
FeedStart ==
    /\ feedRun = NoFeedRun
    /\ feedRun' = [state |-> "fetch", cursor |-> confirmed, upto |-> confirmed,
                   next |-> confirmed, pages |-> 0]
    /\ UNCHANGED <<published, endCursor, known, stored, ignored, confirmed, failures>>

(* ownership_change_page: the events after the cursor and the next cursor, *)
(* which some providers leave out at the end of the feed.                  *)
FeedFetch ==
    /\ feedRun.state = "fetch"
    /\ LET last == feedRun.cursor + PageSize
           upto == IF last < published THEN last ELSE published
       IN  feedRun' = [feedRun EXCEPT !.state = "store", !.upto = upto,
                                      !.next = IF upto < published \/ endCursor THEN upto ELSE 0]
    /\ UNCHANGED <<published, endCursor, known, stored, ignored, confirmed, failures>>

(* Mutant: a run that has used up its pages confirms where it began.       *)
AfterPageRestarting(r) ==
    LET p == r.pages + 1
    IN  IF r.next \in {0, r.cursor} THEN [r EXCEPT !.state = "end", !.pages = p]
        ELSE IF p = MaxPages THEN [r EXCEPT !.state = "end", !.pages = p, !.next = confirmed]
        ELSE [r EXCEPT !.state = "fetch", !.pages = p, !.cursor = r.next]

(* The loop ends without a new cursor, or when the pages are used up.      *)
AfterPage(r) ==
    LET p == r.pages + 1
    IN  IF r.next \in {0, r.cursor} \/ p = MaxPages THEN [r EXCEPT !.state = "end", !.pages = p]
        ELSE [r EXCEPT !.state = "fetch", !.pages = p, !.cursor = r.next]

(* The transaction of a page: get_or_create of the events with an owner or *)
(* cadastre, the others are only counted.                                  *)
FeedStore ==
    /\ feedRun.state = "store"
    /\ LET page == feedRun.cursor + 1 .. feedRun.upto
       IN  /\ stored' = stored \cup (page \cap known)
           /\ ignored' = ignored \cup (page \ known)
    /\ feedRun' = AfterPage(feedRun)
    /\ UNCHANGED <<published, endCursor, known, confirmed, failures>>

FeedSucceed ==
    /\ feedRun.state = "end"
    /\ confirmed' = feedRun.next
    /\ feedRun' = NoFeedRun
    /\ UNCHANGED <<published, endCursor, known, stored, ignored, failures>>

(* Mutant: a failed run keeps the cursor it has asked for.                 *)
FeedFailConfirming ==
    /\ feedRun # NoFeedRun
    /\ failures < MaxFailures
    /\ failures' = failures + 1
    /\ confirmed' = feedRun.next
    /\ feedRun' = NoFeedRun
    /\ UNCHANGED <<published, endCursor, known, stored, ignored>>

(* An error of the provider or of the database, or a kill: the pages that  *)
(* are committed stay, and no cursor of the failed row is ever read.       *)
FeedFail ==
    /\ feedRun # NoFeedRun
    /\ failures < MaxFailures
    /\ failures' = failures + 1
    /\ feedRun' = NoFeedRun
    /\ UNCHANGED <<published, endCursor, known, stored, ignored, confirmed>>

FeedWork == FeedStart \/ FeedFetch \/ FeedStore \/ FeedSucceed

FeedNext == FeedWork \/ FeedFail \/ Publish \/ OwnerArrives

FeedSpec == FeedInit /\ [][FeedNext]_feedVars
-----------------------------------------------------------------------------
(* The confirmed cursor never runs ahead of the database: every event up   *)
(* to it has been stored or was read while its owner was not known.        *)
ConfirmedIsStored == \A e \in 1 .. confirmed : e \in stored \cup ignored

(* However large the backlog, and although each run reads a few pages      *)
(* only, every published event is read in the end.                         *)
EventsAreTaken == \A e \in Event : e <= published ~> e \in stored \cup ignored
=============================================================================
