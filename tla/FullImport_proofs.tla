-------------------------- MODULE FullImport_proofs --------------------------
(***************************************************************************)
(* Proofs about FullImport for every number of workers, operators, rows    *)
(* and checkpoints, every layer, page size and budget.                     *)
(***************************************************************************)
EXTENDS FullImport, SingleFlight_proofs, FiniteSetTheorems

-----------------------------------------------------------------------------
Pc == {"idle", "scan", "create", "start", "open", "begin", "fetch", "store", "complete",
       "succeed", "report", "publish", "release"}
LocalState ==
    [pc : Pc, message : RunId \cup {NoRun}, run : RunId \cup {NoRun},
     import : ImportId \cup {0}, cursor : 0 .. MaxLayer,
     page : 0 .. MaxLayer, done : 0 .. MaxLayer, spent : 0 .. Budget,
     age : 0 .. TimeLimit]

Reading(p) == process[p].pc \in {"fetch", "store", "complete"}

(* Where a process in the middle of a chunk stands in the layer: its page  *)
(* fits into the budget and the layer, and reading ends at the layer's end. *)
Position(p) ==
    /\ Reading(p) => process[p].import \in ImportId /\ process[p].cursor <= layer
    /\ process[p].pc = "fetch" => process[p].done = 0 /\ process[p].spent < Budget
    /\ process[p].pc = "store" =>
         /\ process[p].done <= process[p].page
         /\ process[p].spent < Budget
         /\ process[p].page = Lesser(Requested(p), Remaining(p))
    /\ process[p].pc = "complete" => process[p].cursor = layer /\ process[p].done = 0

TypeInv ==
    /\ ImportTypeOK
    /\ \A p \in Process : Position(p)
    /\ \A c \in ImportId : cursor[c] <= layer

LEMMA IdleType == Idle \in LocalState
BY SizeAssumption, RunAssumption, LimitAssumption DEF Idle, LocalState, Pc, RunId, NoRun

LEMMA TypeInvInit == ImportInit => TypeInv
<1> SUFFICES ASSUME ImportInit PROVE TypeInv
  OBVIOUS
<1>1. FreeLock \in LockState
  BY LockTtlAssumption DEF FreeLock, LockState, LockValue, NoValue
<1>2. Idle \in LocalState /\ Idle.pc = "idle"
  BY IdleType DEF Idle
<1> QED
  BY <1>1, <1>2, SizeAssumption, RunAssumption, LimitAssumption
     DEF ImportInit, TypeInv, ImportTypeOK, LocalState, Pc, Position, Reading

(* Reading a chunk keeps the process inside its page, budget and layer.    *)
LEMMA TypeInvChunk ==
    ASSUME TypeInv, NEW p \in Process, ChunkStep(p)
    PROVE  TypeInv'
<1> USE SizeAssumption, RunAssumption, LimitAssumption DEF TypeInv, Position, Reading
<1>t. /\ process \in [Process -> LocalState] /\ layer \in 0 .. MaxLayer
      /\ cursor \in [ImportId -> 0 .. MaxLayer] /\ created \subseteq ImportId
      /\ older \in [ImportId -> SUBSET ImportId]
  BY DEF ImportTypeOK, LocalState, Pc
<1>c. ASSUME NEW c \in ImportId, Touch(c)
      PROVE  created' \subseteq ImportId /\ older' \in [ImportId -> SUBSET ImportId]
  BY <1>t, <1>c DEF Touch
<1>1. ASSUME NEW c \in ImportId, Open(p, c) PROVE TypeInv'
  <2>p. PICK q : q = [process[p] EXCEPT !.pc = "fetch", !.import = c, !.cursor = cursor[c],
                                     !.page = 0, !.done = 0, !.spent = 0]
    OBVIOUS
  <2>l. process[p] \in LocalState
    BY <1>t
  <2>z. 0 \in 0 .. MaxLayer /\ 0 \in 0 .. Budget
    OBVIOUS
  <2>r. q = [pc |-> "fetch", message |-> process[p].message, run |-> process[p].run,
             import |-> c, cursor |-> cursor[c],
             page |-> 0, done |-> 0, spent |-> 0, age |-> process[p].age]
    BY <2>l, <2>p DEF LocalState
  <2>1. q \in LocalState /\ q.pc = "fetch" /\ q.import = c /\ q.cursor = cursor[c]
        /\ q.done = 0 /\ q.spent = 0
    BY <1>t, <2>l, <2>r, <2>z DEF LocalState, Pc
  <2>2. process' = [process EXCEPT ![p] = q]
    BY <2>p, <1>1 DEF Open
  <2>3. process' \in [Process -> LocalState]
    BY <1>t, <2>1, <2>2
  <2>4. layer' = layer /\ cursor' = cursor
    BY <1>1 DEF Open
  <2>5. \A r \in Process \ {p} : Position(r)'
    BY <1>t, <2>2, <2>4 DEF Lesser, Requested, Remaining
  <2>6. Position(p)'
    BY <1>t, <2>1, <2>2, <2>4
  <2> QED
    BY <1>1, <1>c, <2>3, <2>4, <2>5, <2>6 DEF Open, ImportTypeOK, LocalState, Pc, rows
<1>2. CASE FetchEmpty(p)
  <2>1. process' \in [Process -> LocalState]
    BY <1>2, <1>t DEF FetchEmpty, Enter, LocalState, Pc
  <2>2. process[p].cursor = layer
    BY <1>2, <1>t DEF FetchEmpty, Remaining, LocalState
  <2>3. \A q \in Process : Position(q)'
    BY <1>2, <1>t, <2>2 DEF FetchEmpty, Enter, LocalState, Pc, Lesser, Requested, Remaining
  <2> QED
    BY <1>2, <2>1, <2>3 DEF FetchEmpty, ImportTypeOK, LocalState, Pc, checkpoints, rows
<1>3. CASE FetchPage(p)
  <2>1. PICK n \in 0 .. MaxLayer : n = Lesser(Requested(p), Remaining(p))
    BY <1>3, <1>t DEF FetchPage, Lesser, Requested, Remaining, LocalState
  <2>p. PICK q : q = [process[p] EXCEPT !.pc = "store", !.done = 0, !.page = n]
    OBVIOUS
  <2>l. process[p] \in LocalState
    BY <1>t
  <2>z. 0 \in 0 .. MaxLayer /\ 0 \in 0 .. Budget
    OBVIOUS
  <2>r. q = [pc |-> "store", message |-> process[p].message, run |-> process[p].run,
             import |-> process[p].import, cursor |-> process[p].cursor,
             page |-> n, done |-> 0, spent |-> process[p].spent, age |-> process[p].age]
    BY <2>l, <2>p DEF LocalState
  <2>2. q \in LocalState /\ q.pc = "store" /\ q.import = process[p].import
        /\ q.cursor = process[p].cursor /\ q.spent = process[p].spent
        /\ q.done = 0 /\ q.page = n
    BY <1>t, <2>l, <2>r, <2>z DEF LocalState, Pc
  <2>3. process' = [process EXCEPT ![p] = q] /\ layer' = layer /\ cursor' = cursor
    BY <2>p, <1>3, <2>1 DEF FetchPage, checkpoints
  <2>4. process' \in [Process -> LocalState]
    BY <1>t, <2>2, <2>3
  <2>5. \A r \in Process \ {p} : Position(r)'
    BY <1>t, <2>3 DEF Lesser, Requested, Remaining
  <2>6. Position(p)'
    BY <1>3, <1>t, <2>1, <2>2, <2>3 DEF FetchPage, Lesser, Requested, Remaining
  <2> QED
    BY <1>3, <2>3, <2>4, <2>5, <2>6 DEF FetchPage, ImportTypeOK, LocalState, Pc, checkpoints, rows
<1>4. CASE Store(p)
  <2>1. process[p].done + 1 \in 0 .. MaxLayer
        /\ process[p].cursor + process[p].done + 1 \in 1 .. MaxLayer
    BY <1>4, <1>t DEF Store, LocalState, Lesser, Requested, Remaining
  <2>2. process' \in [Process -> LocalState]
    BY <1>4, <1>t, <2>1 DEF Store, LocalState, Pc
  <2>3. \A q \in Process : Position(q)'
    <3>1. \A q \in Process \ {p} : process'[q] = process[q] /\ Position(q)'
      BY <1>4, <1>t DEF Store, Lesser, Requested, Remaining
    <3>2. /\ process'[p].pc = "store" /\ process'[p].import = process[p].import
          /\ process'[p].cursor = process[p].cursor /\ process'[p].page = process[p].page
          /\ process'[p].spent = process[p].spent
          /\ process'[p].done = process[p].done + 1
          /\ process[p].pc = "store" /\ process[p].done < process[p].page
          /\ layer' = layer
      BY <1>4, <1>t DEF Store, LocalState
    <3>3. process[p].page \in 0 .. MaxLayer /\ process[p].done \in 0 .. MaxLayer
      BY <1>t DEF LocalState
    <3>4. Position(p)'
      BY <3>2, <3>3 DEF Lesser, Requested, Remaining
    <3> QED
      BY <3>1, <3>4
  <2>4. stored' \in [ImportId -> SUBSET (1 .. MaxLayer)]
    BY <1>4, <2>1 DEF Store, ImportTypeOK
  <2> QED
    BY <1>4, <2>2, <2>3, <2>4 DEF Store, ImportTypeOK, LocalState, Pc, rows
<1>5. CASE Confirm(p)
  <2>1. PICK n \in 0 .. MaxLayer, e \in 0 .. MaxLayer, f \in 0 .. Budget :
           /\ n = process[p].page
           /\ e = process[p].cursor + n /\ e <= layer
           /\ f = process[p].spent + n
           /\ n < Requested(p) => e = layer
    <3>1. /\ process[p].page \in 0 .. MaxLayer /\ process[p].cursor \in 0 .. MaxLayer
          /\ process[p].spent \in 0 .. Budget /\ process[p].cursor <= layer
          /\ process[p].page = Lesser(Requested(p), Remaining(p))
          /\ process[p].spent < Budget
      BY <1>5, <1>t DEF Confirm, LocalState
    <3> QED
      BY <3>1, <1>t DEF Lesser, Requested, Remaining
  <2>2. PICK s \in {"complete", "fetch", "report", "open"} :
           /\ s = AfterPage(p)
           /\ s = "complete" => n < Requested(p)
           /\ s = "fetch" => f < Budget
    BY <2>1 DEF AfterPage
  <2>p. PICK q : q = [process[p] EXCEPT !.pc = s, !.done = 0, !.cursor = e, !.spent = f]
    OBVIOUS
  <2>l. process[p] \in LocalState
    BY <1>t
  <2>z. 0 \in 0 .. MaxLayer /\ 0 \in 0 .. Budget
    OBVIOUS
  <2>r. q = [pc |-> s, message |-> process[p].message, run |-> process[p].run,
             import |-> process[p].import, cursor |-> e,
             page |-> process[p].page, done |-> 0, spent |-> f, age |-> process[p].age]
    BY <2>l, <2>p DEF LocalState
  <2>3. q \in LocalState /\ q.pc = s /\ q.import = process[p].import
        /\ q.cursor = e /\ q.done = 0 /\ q.spent = f
    BY <1>t, <2>l, <2>r, <2>z DEF LocalState, Pc
  <2>4. process' = [process EXCEPT ![p] = q] /\ process[p].import \in ImportId
        /\ cursor' = [cursor EXCEPT ![process[p].import] = e] /\ layer' = layer
    BY <2>p, <1>5, <2>1, <2>2 DEF Confirm
  <2>5. process' \in [Process -> LocalState]
    BY <1>t, <2>3, <2>4
  <2>6. \A r \in Process \ {p} : Position(r)'
    BY <1>t, <2>4 DEF Lesser, Requested, Remaining
  <2>7. Position(p)'
    BY <1>5, <1>t, <2>1, <2>2, <2>3, <2>4
       DEF Confirm
  <2>8. cursor' \in [ImportId -> 0 .. MaxLayer] /\ \A c \in ImportId : cursor'[c] <= layer'
    BY <1>t, <2>1, <2>4
  <2> QED
    BY <1>5, <1>c, <2>4, <2>5, <2>6, <2>7, <2>8 DEF Confirm, ImportTypeOK, LocalState, Pc, rows
<1>6. CASE Complete(p)
  <2>1. process' \in [Process -> LocalState]
    BY <1>6, <1>t DEF Complete, Enter, LocalState, Pc
  <2>2. \A q \in Process : Position(q)'
    BY <1>6, <1>t DEF Complete, Enter, LocalState, Pc, Lesser, Requested, Remaining
  <2>3. process[p].import \in ImportId
    BY <1>6 DEF Complete
  <2> QED
    BY <1>6, <1>c, <2>1, <2>2, <2>3 DEF Complete, ImportTypeOK, LocalState, Pc, rows
<1>7. CASE Succeed(p)
  <2>1. process' \in [Process -> LocalState]
    BY <1>7, <1>t, IdleType DEF Succeed, Enter, Leave, LocalState, Pc
  <2>2. \A q \in Process : Position(q)'
    BY <1>7, <1>t DEF Succeed, Enter, Leave, Idle, LocalState, Pc, Lesser, Requested, Remaining
  <2> QED
    BY <1>7, <2>1, <2>2 DEF Succeed, ImportTypeOK, LocalState, Pc, checkpoints
<1>8. CASE ImportFails(p)
  <2>1. process' \in [Process -> LocalState]
    BY <1>8, <1>t, IdleType DEF ImportFails, Enter, Leave, LocalState, Pc
  <2>2. \A q \in Process : Position(q)'
    BY <1>8, <1>t DEF ImportFails, Enter, Leave, Idle, LocalState, Pc, Lesser, Requested, Remaining
  <2>3. created' \subseteq ImportId /\ older' \in [ImportId -> SUBSET ImportId]
        /\ completed' \in [ImportId -> BOOLEAN]
    <3>1. CASE process[p].pc \in {"open", "begin"}
      BY <1>8, <1>t, <3>1 DEF ImportFails, ImportTypeOK
    <3>2. CASE process[p].pc \notin {"open", "begin"}
      <4>1. process[p].import \in ImportId
        BY <1>8, <3>2 DEF ImportFails
      <4> QED
        BY <1>8, <1>c, <3>2, <4>1 DEF ImportFails, ImportTypeOK
    <3> QED
      BY <3>1, <3>2
  <2>4. importFaults' \in 0 .. MaxImportFaults
    BY <1>8 DEF ImportFails, ImportFault, ImportTypeOK
  <2> QED
    BY <1>8, <2>1, <2>2, <2>3, <2>4 DEF ImportFails, ImportTypeOK, LocalState, Pc
<1>9. CASE FindNone(p)
  <2>1. process' \in [Process -> LocalState]
    BY <1>9, <1>t DEF FindNone, Enter, LocalState, Pc
  <2>2. \A q \in Process : Position(q)'
    BY <1>9, <1>t DEF FindNone, Enter, LocalState, Pc, Lesser, Requested, Remaining
  <2> QED
    BY <1>9, <2>1, <2>2 DEF FindNone, ImportTypeOK, LocalState, Pc, checkpoints, rows
<1> QED
  BY <1>1, <1>2, <1>3, <1>4, <1>5, <1>6, <1>7, <1>8, <1>9 DEF ChunkStep, Resume, Begin

(* A process that takes another pc outside the chunk, or leaves, keeps the *)
(* type invariant of the local states.                                     *)
LEMMA TypeInvMove ==
    ASSUME TypeInv, NEW p \in Process, NEW r \in RunId \cup {NoRun},
           UNCHANGED <<layer, cursor>>,
           \/ process' = process
           \/ Leave(p)
           \/ \E pc \in Pc \ {"fetch", "store", "complete"} : Enter(p, pc)
           \/ process' = [process EXCEPT ![p] = [Idle EXCEPT !.pc = "scan", !.message = r,
                                                             !.run = r]]
           \/ process' = [process EXCEPT ![p].pc = "start", ![p].run = r]
           \/ process' = [process EXCEPT ![p] = [Idle EXCEPT !.pc = "open", !.run = r]]
    PROVE  /\ process' \in [Process -> LocalState]
           /\ \A q \in Process : Position(q)'
           /\ \A c \in ImportId : cursor'[c] <= layer'
<1> USE SizeAssumption, RunAssumption, LimitAssumption DEF TypeInv, Position, Reading, Requested, Remaining, Lesser
<1>t. process \in [Process -> LocalState]
  BY DEF ImportTypeOK, LocalState, Pc
<1>1. CASE process' = process
  BY <1>1, <1>t
<1>2. ASSUME NEW l \in LocalState, l.pc \notin {"fetch", "store", "complete"},
             process' = [process EXCEPT ![p] = l]
      PROVE  /\ process' \in [Process -> LocalState]
             /\ \A q \in Process : Position(q)'
  BY <1>2, <1>t
<1>3. CASE Leave(p)
  BY <1>2, <1>3, IdleType DEF Leave, Idle
<1>4. ASSUME NEW pc \in Pc \ {"fetch", "store", "complete"}, Enter(p, pc)
      PROVE  /\ process' \in [Process -> LocalState]
             /\ \A q \in Process : Position(q)'
  <2>1. /\ [process[p] EXCEPT !.pc = pc] \in LocalState
        /\ [process[p] EXCEPT !.pc = pc].pc = pc
    BY <1>t DEF LocalState
  <2>2. process' = [process EXCEPT ![p] = [process[p] EXCEPT !.pc = pc]]
    BY <1>4 DEF Enter
  <2> QED
    BY <1>2, <2>1, <2>2
<1>5. CASE process' = [process EXCEPT ![p] = [Idle EXCEPT !.pc = "scan", !.message = r,
                                                          !.run = r]]
  <2>1. PICK l : l = [Idle EXCEPT !.pc = "scan", !.message = r, !.run = r]
    OBVIOUS
  <2>2. l = [pc |-> "scan", message |-> r, run |-> r, import |-> 0, cursor |-> 0,
             page |-> 0, done |-> 0, spent |-> 0, age |-> 0]
    BY <2>1 DEF Idle
  <2>3. l \in LocalState /\ l.pc = "scan"
    BY <2>2 DEF LocalState, Pc
  <2> QED
    BY <1>2, <1>5, <2>1, <2>3
<1>6. CASE process' = [process EXCEPT ![p].pc = "start", ![p].run = r]
  <2>1. PICK l : l = [process[p] EXCEPT !.pc = "start", !.run = r]
    OBVIOUS
  <2>2. process[p] \in LocalState
    BY <1>t
  <2>3. l \in LocalState /\ l.pc = "start"
    BY <2>1, <2>2 DEF LocalState, Pc
  <2>4. process' = [process EXCEPT ![p] = l]
    BY <1>6, <2>1
  <2> QED
    BY <1>2, <2>3, <2>4
<1>7. CASE process' = [process EXCEPT ![p] = [Idle EXCEPT !.pc = "open", !.run = r]]
  <2>1. PICK l : l = [Idle EXCEPT !.pc = "open", !.run = r]
    OBVIOUS
  <2>2. l = [pc |-> "open", message |-> NoRun, run |-> r, import |-> 0, cursor |-> 0,
             page |-> 0, done |-> 0, spent |-> 0, age |-> 0]
    BY <2>1 DEF Idle
  <2>3. l \in LocalState /\ l.pc = "open"
    BY <2>2 DEF LocalState, Pc, NoRun
  <2> QED
    BY <1>2, <1>7, <2>1, <2>3
<1> QED
  BY <1>1, <1>3, <1>4, <1>5, <1>6, <1>7

LEMMA TypeInvTask ==
    ASSUME TypeInv, NEW w \in Worker,
           \/ TaskStep(w) \/ ReleaseImportUnavailable(w) \/ RedeliverImport(w)
           \/ \E m \in importQueue : ReceiveUnavailable(w, m)
    PROVE  TypeInv'
<1> USE SizeAssumption, RunAssumption, LimitAssumption DEF TypeInv
<1>w. w \in Process /\ w \in Token /\ NoRun \in RunId \cup {NoRun}
  BY ProcessAssumption DEF Process
<1>t. /\ process \in [Process -> LocalState] /\ importQueue \subseteq RunId \cup {NoRun}
      /\ importLock \in LockState
  BY DEF ImportTypeOK, LocalState, Pc
<1>r. process[w].run \in RunId \cup {NoRun} /\ process[w].message \in RunId \cup {NoRun}
  BY <1>t, <1>w DEF LocalState
<1>n. \A pc \in {"scan", "create", "start", "open", "report", "publish", "release"} :
        pc \in Pc \ {"fetch", "store", "complete"}
  BY DEF Pc
<1>h. \A r : [importHeartbeat EXCEPT ![r] = 0] \in [RunId -> 0 .. StaleAfter + 1]
  <2>1. importHeartbeat \in [RunId -> 0 .. StaleAfter + 1] /\ 0 \in 0 .. StaleAfter + 1
    BY DEF ImportTypeOK
  <2> QED
    BY <2>1
<1> USE DEF ImportTypeOK, LocalState, Pc, checkpoints, rows
<1>1. ASSUME NEW m \in importQueue, ReceiveRefused(w, m) PROVE TypeInv'
  <2>1. process' = process /\ UNCHANGED <<layer, cursor>>
    BY <1>1 DEF ReceiveRefused
  <2> QED
    BY <1>1, <1>w, <2>1, TypeInvMove DEF ReceiveRefused
<1>2. ASSUME NEW m \in importQueue, ReceiveUnavailable(w, m) PROVE TypeInv'
  <2>1. process' = process /\ UNCHANGED <<layer, cursor>>
    BY <1>2 DEF ReceiveUnavailable
  <2> QED
    BY <1>2, <1>w, <2>1, TypeInvMove DEF ReceiveUnavailable, ImportFault
<1>3. ASSUME NEW m \in importQueue, ReceiveImport(w, m) PROVE TypeInv'
  <2>1. UNCHANGED <<layer, cursor>>
        /\ process' = [process EXCEPT ![w] = [Idle EXCEPT !.pc = "scan", !.message = m,
                                                          !.run = m]]
    BY <1>3 DEF ReceiveImport
  <2>2. m \in RunId \cup {NoRun}
    BY <1>t
  <2>3. importLock' \in LockState
    BY <1>3, <1>t, <1>w, LockTypes DEF ReceiveImport
  <2> QED
    BY <1>3, <1>w, <2>1, <2>2, <2>3, TypeInvMove DEF ReceiveImport
<1>4. CASE ScanStops(w)
  <2>1. UNCHANGED <<layer, cursor>> /\ Enter(w, "release")
    BY <1>4 DEF ScanStops
  <2> QED
    BY <1>4, <1>n, <1>w, <2>1, TypeInvMove DEF ScanStops
<1>5. CASE ScanPasses(w)
  <2>1. UNCHANGED <<layer, cursor>> /\ Enter(w, "create")
    BY <1>5 DEF ScanPasses
  <2>2. importStatus' \in [RunId -> {"NONE", "QUEUED", "RUNNING", "SUCCESS", "FAILED"}]
    BY <1>5 DEF ScanPasses
  <2> QED
    BY <1>5, <1>n, <1>w, <2>1, <2>2, TypeInvMove DEF ScanPasses
<1>6. CASE ScanContinues(w)
  <2>1. UNCHANGED <<layer, cursor>> /\ Enter(w, "start")
    BY <1>6 DEF ScanContinues
  <2> QED
    BY <1>6, <1>n, <1>w, <2>1, TypeInvMove DEF ScanContinues
<1>7. ASSUME NEW r \in RunId, CreateRow(w, r) PROVE TypeInv'
  <2>1. UNCHANGED <<layer, cursor>>
        /\ process' = [process EXCEPT ![w].pc = "start", ![w].run = r]
    BY <1>7 DEF CreateRow
  <2> QED
    BY <1>7, <1>w, <2>1, TypeInvMove DEF CreateRow
<1>8. CASE StartImport(w)
  <2>1. UNCHANGED <<layer, cursor>> /\ Enter(w, "open")
    BY <1>8 DEF StartImport
  <2>2. importHeartbeat' \in [RunId -> 0 .. StaleAfter + 1]
    BY <1>8, <1>h DEF StartImport
  <2>3. importStatus' \in [RunId -> {"NONE", "QUEUED", "RUNNING", "SUCCESS", "FAILED"}]
    BY <1>8 DEF StartImport
  <2> QED
    BY <1>8, <1>n, <1>w, <2>1, <2>2, <2>3, TypeInvMove DEF StartImport
<1>9. CASE Report(w)
  <2>1. UNCHANGED <<layer, cursor>> /\ Enter(w, "publish")
    BY <1>9 DEF Report
  <2>2. importHeartbeat' \in [RunId -> 0 .. StaleAfter + 1]
    BY <1>9, <1>h DEF Report
  <2> QED
    BY <1>9, <1>n, <1>w, <2>1, <2>2, TypeInvMove DEF Report
<1>10. CASE Publish(w)
  <2>1. UNCHANGED <<layer, cursor>> /\ Enter(w, "release")
    BY <1>10 DEF Publish
  <2> QED
    BY <1>10, <1>n, <1>r, <1>w, <2>1, TypeInvMove DEF Publish
<1>11. CASE ReleaseImport(w)
  <2>1. UNCHANGED <<layer, cursor>> /\ Leave(w)
    BY <1>11 DEF ReleaseImport
  <2>2. importLock' \in LockState
    BY <1>11, <1>t, <1>w, LockTypes DEF ReleaseImport
  <2> QED
    BY <1>11, <1>w, <2>1, <2>2, TypeInvMove DEF ReleaseImport
<1>12. CASE AbortImport(w)
  <2>1. UNCHANGED <<layer, cursor>> /\ Enter(w, "release")
    BY <1>12 DEF AbortImport
  <2>2. importFaults' \in 0 .. MaxImportFaults
    BY <1>12 DEF AbortImport, ImportFault
  <2> QED
    BY <1>12, <1>n, <1>w, <2>1, <2>2, TypeInvMove DEF AbortImport
<1>13. CASE ReleaseImportUnavailable(w)
  <2>1. UNCHANGED <<layer, cursor>> /\ Leave(w)
    BY <1>13 DEF ReleaseImportUnavailable
  <2>2. importFaults' \in 0 .. MaxImportFaults
    BY <1>13 DEF ReleaseImportUnavailable, ImportFault
  <2> QED
    BY <1>13, <1>w, <2>1, <2>2, TypeInvMove DEF ReleaseImportUnavailable
<1>14. CASE RedeliverImport(w)
  <2>1. process' = process /\ UNCHANGED <<layer, cursor>>
    BY <1>14 DEF RedeliverImport
  <2> QED
    BY <1>14, <1>r, <1>w, <2>1, TypeInvMove DEF RedeliverImport, ImportFault
<1> QED
  BY <1>1, <1>2, <1>3, <1>4, <1>5, <1>6, <1>7, <1>8, <1>9, <1>10, <1>11, <1>12, <1>13, <1>14
     DEF TaskStep

LEMMA TypeInvNext == TypeInv /\ [ImportNext]_importVars => TypeInv'
<1> SUFFICES ASSUME TypeInv, [ImportNext]_importVars PROVE TypeInv'
  OBVIOUS
<1> USE SizeAssumption, RunAssumption, LimitAssumption DEF TypeInv
<1>t. process \in [Process -> LocalState] /\ importLock \in LockState
  BY DEF ImportTypeOK, LocalState, Pc
<1>1. CASE UNCHANGED importVars
  BY <1>1 DEF importVars, ImportTypeOK, Position, Reading, Requested, Remaining, Lesser
<1>2. CASE Request
  BY <1>2 DEF Request, ImportTypeOK, Position, Reading, Requested, Remaining, Lesser, rows, checkpoints
<1>3. ASSUME NEW o \in Operator, NEW r \in RunId, Command(o, r) PROVE TypeInv'
  <2>1. /\ o \in Process /\ UNCHANGED <<layer, cursor>> /\ r \in RunId \cup {NoRun}
        /\ process' = [process EXCEPT ![o] = [Idle EXCEPT !.pc = "open", !.run = r]]
    BY <1>3 DEF Command, Process, checkpoints
  <2> QED
    BY <1>3, <2>1, TypeInvMove DEF Command, ImportTypeOK, LocalState, Pc, checkpoints
<1>4. ASSUME NEW p \in Process, ChunkStep(p) PROVE TypeInv'
  BY <1>4, TypeInvChunk
<1>5. ASSUME NEW w \in Worker,
             \/ TaskStep(w) \/ ReleaseImportUnavailable(w) \/ RedeliverImport(w)
             \/ \E m \in importQueue : ReceiveUnavailable(w, m)
      PROVE  TypeInv'
  BY <1>5, TypeInvTask
<1>6. CASE ImportWatchdogStep
  <2>1. process' = process /\ UNCHANGED <<layer, cursor>>
    BY <1>6 DEF ImportWatchdogStep, ReadStaleImports, FailStaleImport, checkpoints
  <2> QED
    BY <1>6, <2>1 DEF ImportWatchdogStep, ReadStaleImports, FailStaleImport, ImportTypeOK, Position, Reading,
       Requested, Remaining, Lesser, checkpoints, rows
<1>7. ASSUME NEW p \in Process, KillImport(p) PROVE TypeInv'
  <2>1. UNCHANGED <<layer, cursor>> /\ Leave(p) /\ NoRun \in RunId \cup {NoRun}
    BY <1>7 DEF KillImport, checkpoints
  <2>2. process[p].message \in RunId \cup {NoRun}
    BY <1>t DEF LocalState
  <2>3. importFaults' \in 0 .. MaxImportFaults /\ importQueue' \subseteq RunId \cup {NoRun}
    BY <1>7, <2>2 DEF KillImport, ImportFault, ImportTypeOK
  <2>4. /\ process' \in [Process -> LocalState]
        /\ \A q \in Process : Position(q)'
        /\ \A c \in ImportId : cursor'[c] <= layer'
    BY <2>1, TypeInvMove
  <2> QED
    BY <1>7, <2>3, <2>4 DEF KillImport, ImportTypeOK, LocalState, Pc, checkpoints, rows
<1>8. CASE ImportTick
  <2>1. importLock' \in LockState
    <3>1. FreeLock \in LockState
      BY LockTtlAssumption DEF FreeLock, LockState, LockValue, NoValue
    <3>2. importLock.ttl > 1 => [importLock EXCEPT !.ttl = @ - 1] \in LockState
      BY <1>t, LockTtlAssumption DEF LockState
    <3> QED
      BY <1>8, <1>t, <3>1, <3>2, LockTtlAssumption DEF ImportTick, AfterTick, LockState
  <2>2. importHeartbeat' \in [RunId -> 0 .. StaleAfter + 1]
    BY <1>8 DEF ImportTick, ImportTypeOK
  <2>3. \A p \in Process : process'[p] = process[p]
                           \/ /\ process[p].age < TimeLimit
                              /\ process'[p] = [process[p] EXCEPT !.age = @ + 1]
    BY <1>8 DEF ImportTick
  <2>4. process' \in [Process -> LocalState]
    BY <1>8, <1>t DEF ImportTick, LocalState
  <2>5. /\ UNCHANGED <<layer, cursor>>
        /\ \A p \in Process : /\ process'[p].pc = process[p].pc
                              /\ process'[p].import = process[p].import
                              /\ process'[p].cursor = process[p].cursor
                              /\ process'[p].page = process[p].page
                              /\ process'[p].done = process[p].done
                              /\ process'[p].spent = process[p].spent
    BY <1>8, <1>t, <2>3 DEF ImportTick, LocalState, checkpoints
  <2>6. \A p \in Process : Position(p)'
    BY <2>5 DEF Position, Reading, Requested, Remaining, Lesser
  <2> QED
    BY <1>8, <2>1, <2>2, <2>4, <2>5, <2>6 DEF ImportTick, ImportTypeOK, LocalState, Pc, checkpoints
<1> QED
  BY <1>1, <1>2, <1>3, <1>4, <1>5, <1>6, <1>7, <1>8 DEF ImportNext, ImportFaultStep

(* Type correctness of the whole component.                                *)
THEOREM TypeCorrect == ImportSpec => []ImportTypeOK
<1>1. TypeInv => ImportTypeOK
  BY DEF TypeInv
<1> QED
  BY <1>1, TypeInvInit, TypeInvNext, PTL DEF ImportSpec

-----------------------------------------------------------------------------
(* What a process has read, its confirmed pages and the features of the    *)
(* page it is storing, is stored under its checkpoint.  CheckpointIsSound  *)
(* is not inductive without it: the cursor is confirmed from the process's *)
(* own copy.                                                               *)
ReadIsStored(p) ==
    Reading(p) => 1 .. process[p].cursor + process[p].done \subseteq stored[process[p].import]

StoredInv == CheckpointIsSound /\ \A p \in Process : ReadIsStored(p)

(* A process that is not in a chunk step stays where it is in the layer.   *)
LEMMA OtherSteps ==
    ASSUME TypeInv, [ImportNext]_importVars, ~ \E p \in Process : ChunkStep(p)
    PROVE  /\ UNCHANGED <<layer, cursor, completed, stored>>
           /\ \A p \in Process : Reading(p)' =>
                /\ Reading(p)
                /\ process'[p].import = process[p].import
                /\ process'[p].cursor = process[p].cursor
                /\ process'[p].done = process[p].done
<1> DEFINE Rests == /\ UNCHANGED <<layer, cursor, completed, stored>>
                    /\ \A p \in Process : Reading(p)' =>
                         /\ Reading(p)
                         /\ process'[p].import = process[p].import
                         /\ process'[p].cursor = process[p].cursor
                         /\ process'[p].done = process[p].done
<1>t. process \in [Process -> LocalState]
  BY DEF TypeInv, ImportTypeOK, LocalState, Pc
<1> USE DEF Reading
<1>1. CASE UNCHANGED importVars
  BY <1>1 DEF importVars
<1>2. CASE Request
  BY <1>2 DEF Request, checkpoints
<1>3. ASSUME NEW o \in Operator, NEW r \in RunId, Command(o, r) PROVE Rests
  BY <1>3, <1>t DEF Command, checkpoints, LocalState, Idle
<1>4. ASSUME NEW w \in Worker,
             \/ TaskStep(w) \/ ReleaseImportUnavailable(w) \/ RedeliverImport(w)
             \/ \E m \in importQueue : ReceiveUnavailable(w, m)
      PROVE  Rests
  <2> USE <1>t DEF checkpoints, LocalState
  <2>1. ASSUME NEW m \in importQueue, ReceiveRefused(w, m) \/ ReceiveUnavailable(w, m)
        PROVE  Rests
    BY <2>1 DEF ReceiveRefused, ReceiveUnavailable
  <2>2. ASSUME NEW m \in importQueue, ReceiveImport(w, m) PROVE Rests
    BY <2>2 DEF ReceiveImport, Idle
  <2>3. CASE ScanStops(w)
    BY <2>3 DEF ScanStops, Enter
  <2>4. CASE ScanPasses(w)
    BY <2>4 DEF ScanPasses, Enter
  <2>5. CASE ScanContinues(w)
    BY <2>5 DEF ScanContinues, Enter
  <2>6. ASSUME NEW r \in RunId, CreateRow(w, r) PROVE Rests
    BY <2>6 DEF CreateRow
  <2>7. CASE StartImport(w)
    BY <2>7 DEF StartImport, Enter
  <2>8. CASE Report(w)
    BY <2>8 DEF Report, Enter
  <2>9. CASE Publish(w)
    BY <2>9 DEF Publish, Enter
  <2>10. CASE ReleaseImport(w) \/ ReleaseImportUnavailable(w)
    BY <2>10 DEF ReleaseImport, ReleaseImportUnavailable, Leave, Idle
  <2>11. CASE AbortImport(w)
    BY <2>11 DEF AbortImport, Enter
  <2>12. CASE RedeliverImport(w)
    BY <2>12 DEF RedeliverImport
  <2> QED
    BY <1>4, <2>1, <2>2, <2>3, <2>4, <2>5, <2>6, <2>7, <2>8, <2>9, <2>10, <2>11, <2>12
       DEF TaskStep
<1>5. CASE ImportWatchdogStep
  BY <1>5 DEF ImportWatchdogStep, ReadStaleImports, FailStaleImport, checkpoints
<1>6. ASSUME NEW p \in Process, KillImport(p) PROVE Rests
  BY <1>6, <1>t DEF KillImport, Leave, Idle, checkpoints
<1>7. CASE ImportTick
  BY <1>7, <1>t DEF ImportTick, LocalState, checkpoints
<1> QED
  BY <1>1, <1>2, <1>3, <1>4, <1>5, <1>6, <1>7 DEF ImportNext, ImportFaultStep

LEMMA StoredInvInit == ImportInit => StoredInv
<1> SUFFICES ASSUME ImportInit PROVE StoredInv
  OBVIOUS
<1>1. \A p \in Process : process[p].pc = "idle"
  BY DEF ImportInit, Idle
<1>2. \A c \in ImportId : cursor[c] = 0 /\ completed[c] = FALSE
  BY DEF ImportInit
<1>3. 1 .. 0 = {}
  OBVIOUS
<1> QED
  BY <1>1, <1>2, <1>3 DEF StoredInv, CheckpointIsSound, ReadIsStored, Reading

LEMMA StoredInvChunk ==
    ASSUME TypeInv, StoredInv, NEW p \in Process, ChunkStep(p)
    PROVE  StoredInv'
<1> USE DEF StoredInv, CheckpointIsSound, ReadIsStored, Reading, Feature
<1>t. /\ process \in [Process -> LocalState] /\ layer \in 0 .. MaxLayer
      /\ cursor \in [ImportId -> 0 .. MaxLayer] /\ completed \in [ImportId -> BOOLEAN]
      /\ stored \in [ImportId -> SUBSET (1 .. MaxLayer)]
      /\ \A q \in Process : Position(q)
  BY DEF TypeInv, ImportTypeOK, LocalState, Pc
<1>1. ASSUME NEW c \in ImportId, Open(p, c) PROVE StoredInv'
  <2>1. /\ UNCHANGED <<layer, cursor, completed, stored>>
        /\ \A q \in Process \ {p} : process'[q] = process[q]
    BY <1>1, <1>t DEF Open
  <2>2. process'[p].import = c /\ process'[p].cursor = cursor[c] /\ process'[p].done = 0
    BY <1>1, <1>t DEF Open, LocalState
  <2>3. cursor[c] + 0 = cursor[c]
    BY <1>t
  <2> QED
    BY <1>t, <2>1, <2>2, <2>3
<1>2. CASE FetchEmpty(p)
  <2>1. /\ UNCHANGED <<layer, cursor, completed, stored>>
        /\ \A q \in Process \ {p} : process'[q] = process[q]
    BY <1>2, <1>t DEF FetchEmpty, Enter, checkpoints
  <2>2. /\ Reading(p) /\ process'[p].import = process[p].import
        /\ process'[p].cursor = process[p].cursor /\ process'[p].done = process[p].done
    BY <1>2, <1>t DEF FetchEmpty, Enter, LocalState
  <2> QED
    BY <1>t, <2>1, <2>2
<1>3. CASE FetchPage(p)
  <2>1. /\ UNCHANGED <<layer, cursor, completed, stored>>
        /\ \A q \in Process \ {p} : process'[q] = process[q]
    BY <1>3, <1>t DEF FetchPage, checkpoints
  <2>2. /\ Reading(p) /\ process[p].done = 0
        /\ process'[p].import = process[p].import
        /\ process'[p].cursor = process[p].cursor /\ process'[p].done = 0
    BY <1>3, <1>t DEF FetchPage, LocalState, Position
  <2> QED
    BY <1>t, <2>1, <2>2
<1>4. CASE Store(p)
  <2> DEFINE f == process[p].cursor + process[p].done + 1
             i == process[p].import
  <2>1. /\ UNCHANGED <<layer, cursor, completed>>
        /\ \A q \in Process \ {p} : process'[q] = process[q]
        /\ stored' = [stored EXCEPT ![i] = @ \cup {f}]
    BY <1>4, <1>t DEF Store
  <2>2. i \in ImportId /\ Reading(p)
    BY <1>4, <1>t DEF Store, Position
  <2>3. process'[p].import = i /\ process'[p].cursor = process[p].cursor
        /\ process'[p].done = process[p].done + 1
    BY <1>4, <1>t DEF Store, LocalState
  <2>4. \A c \in ImportId : stored[c] \subseteq stored'[c]
    BY <1>t, <2>1
  <2>5. 1 .. f \subseteq stored'[i]
    <3>1. 1 .. f \subseteq (1 .. process[p].cursor + process[p].done) \cup {f}
      BY <1>t DEF LocalState
    <3> QED
      BY <1>t, <2>1, <2>2, <3>1
  <2>6. process'[p].cursor + process'[p].done = f
    BY <1>t, <2>3 DEF LocalState
  <2>7. \A q \in Process \ {p} : ReadIsStored(q)'
    BY <1>t, <2>1, <2>4 DEF Position
  <2>8. ReadIsStored(p)'
    BY <2>3, <2>5, <2>6
  <2>9. CheckpointIsSound'
    BY <2>1, <2>4
  <2> QED
    BY <2>7, <2>8, <2>9
<1>5. CASE Confirm(p)
  <2> DEFINE e == process[p].cursor + process[p].page
             i == process[p].import
  <2>1. /\ UNCHANGED <<layer, completed, stored>>
        /\ \A q \in Process \ {p} : process'[q] = process[q]
        /\ cursor' = [cursor EXCEPT ![i] = e]
    BY <1>5, <1>t DEF Confirm
  <2>2. 1 .. e \subseteq stored[i]
    BY <1>5, <1>t DEF Confirm
  <2>3. process'[p].import = i /\ process'[p].cursor = e /\ process'[p].done = 0 /\ e + 0 = e
    BY <1>5, <1>t DEF Confirm, LocalState
  <2> QED
    BY <1>t, <2>1, <2>2, <2>3
<1>6. CASE Complete(p)
  <2>1. /\ UNCHANGED <<layer, cursor, stored>>
        /\ \A q \in Process \ {p} : process'[q] = process[q]
        /\ completed' = [completed EXCEPT ![process[p].import] = TRUE]
    BY <1>6, <1>t DEF Complete, Enter
  <2>2. 1 .. layer \subseteq stored[process[p].import]
    <3>1. process[p].cursor + process[p].done = layer
      BY <1>6, <1>t DEF Complete, Position, LocalState
    <3> QED
      BY <1>6, <3>1 DEF Complete
  <2>3. ~Reading(p)'
    BY <1>6, <1>t DEF Complete, Enter, LocalState
  <2> QED
    BY <1>t, <2>1, <2>2, <2>3
<1>7. CASE Succeed(p)
  <2>1. /\ UNCHANGED <<layer, cursor, completed, stored>>
        /\ \A q \in Process \ {p} : process'[q] = process[q]
    BY <1>7, <1>t DEF Succeed, Enter, Leave, checkpoints
  <2>2. ~Reading(p)'
    BY <1>7, <1>t DEF Succeed, Enter, Leave, Idle, LocalState
  <2> QED
    BY <1>t, <2>1, <2>2
<1>8. CASE ImportFails(p)
  <2>1. /\ UNCHANGED <<layer, cursor, stored>>
        /\ \A q \in Process \ {p} : process'[q] = process[q]
        /\ \A c \in ImportId : completed'[c] => completed[c]
    BY <1>8, <1>t DEF ImportFails, Enter, Leave
  <2>2. ~Reading(p)'
    BY <1>8, <1>t DEF ImportFails, Enter, Leave, Idle, LocalState
  <2> QED
    BY <1>t, <2>1, <2>2
<1>9. CASE FindNone(p)
  <2>1. /\ UNCHANGED <<layer, cursor, completed, stored>>
        /\ \A q \in Process \ {p} : process'[q] = process[q]
        /\ ~Reading(p)'
    BY <1>9, <1>t DEF FindNone, Enter, checkpoints, LocalState
  <2> QED
    BY <1>t, <2>1
<1> QED
  BY <1>1, <1>2, <1>3, <1>4, <1>5, <1>6, <1>7, <1>8, <1>9 DEF ChunkStep, Resume, Begin

LEMMA StoredInvNext == TypeInv /\ StoredInv /\ [ImportNext]_importVars => StoredInv'
<1> SUFFICES ASSUME TypeInv, StoredInv, [ImportNext]_importVars PROVE StoredInv'
  OBVIOUS
<1>1. CASE \E p \in Process : ChunkStep(p)
  BY <1>1, StoredInvChunk
<1>2. CASE ~ \E p \in Process : ChunkStep(p)
  BY <1>2, OtherSteps DEF StoredInv, CheckpointIsSound, ReadIsStored, Feature
<1> QED
  BY <1>1, <1>2

(* No confirmed cursor skips a feature and no completed checkpoint misses  *)
(* one, with any number of tasks and commands on the same checkpoint.      *)
THEOREM CheckpointIsSoundHolds == ImportSpec => []CheckpointIsSound
<1>1. StoredInv => CheckpointIsSound
  BY DEF StoredInv
<1> QED
  BY <1>1, TypeInvInit, TypeInvNext, StoredInvInit, StoredInvNext, PTL DEF ImportSpec

-----------------------------------------------------------------------------
(* One task at a time.  A task owns the key from its first step on, and    *)
(* the key's remaining life and the task's age together never fall below   *)
(* LockTtl: the task reaches TimeLimit before its key expires.             *)
LockInv ==
    \A w \in Worker : process[w].pc # "idle" =>
        /\ importLock.value = Queued(w)
        /\ importLock.ttl + process[w].age >= LockTtl

LEMMA LockInvGivesOne == LockInv => OneImporter
<1> SUFFICES ASSUME LockInv, NEW v \in Worker, NEW w \in Worker,
                    process[v].pc # "idle", process[w].pc # "idle"
             PROVE  v = w
  BY DEF OneImporter
<1>1. Queued(v) = Queued(w) /\ v \in Token /\ w \in Token
  BY ProcessAssumption DEF LockInv
<1> QED
  BY <1>1, LockValues

(* How a step changes a task's local state and the key.                    *)
LEMMA LockSteps ==
    ASSUME TypeInv, LockInv, [ImportNext]_importVars
    PROVE  LockInv'
<1>t. /\ process \in [Process -> LocalState] /\ importLock \in LockState
      /\ \A w \in Worker : w \in Process /\ w \in Token
      /\ \A w \in Worker : w \notin Operator
  BY ProcessAssumption DEF TypeInv, ImportTypeOK, LocalState, Pc, Process
<1>k. ASSUME importLock' = importLock,
             \A w \in Worker : process'[w].pc # "idle" =>
               process[w].pc # "idle" /\ process'[w].age = process[w].age
      PROVE  LockInv'
  BY <1>k DEF LockInv
<1>e. ASSUME NEW p \in Process, NEW pc, Enter(p, pc), process[p].pc # "idle", importLock' = importLock
      PROVE  LockInv'
  BY <1>e, <1>k, <1>t DEF Enter, LocalState
<1>l. ASSUME NEW p \in Process, Leave(p), importLock' = importLock
      PROVE  LockInv'
  BY <1>l, <1>k, <1>t DEF Leave, Idle
<1>1. CASE UNCHANGED importVars
  BY <1>1, <1>k DEF importVars
<1>2. CASE Request
  BY <1>2, <1>k DEF Request
<1>3. ASSUME NEW o \in Operator, NEW r \in RunId, Command(o, r) PROVE LockInv'
  BY <1>3, <1>k, <1>t DEF Command
<1>4. ASSUME NEW p \in Process, ChunkStep(p) PROVE LockInv'
  <2>1. importLock' = importLock
    BY <1>4 DEF ChunkStep, Resume, Begin, FindNone, Open, FetchEmpty, FetchPage, Store,
                Confirm, Complete, Succeed, ImportFails
  <2>2. process[p].pc # "idle"
    BY <1>4 DEF ChunkStep, Resume, Begin, FindNone, Open, FetchEmpty, FetchPage, Store,
                Confirm, Complete, Succeed, ImportFails
  <2>3. ASSUME NEW l, l.age = process[p].age, process' = [process EXCEPT ![p] = l]
        PROVE  LockInv'
    BY <2>1, <2>2, <2>3, <1>k, <1>t
  <2>4. ASSUME NEW c \in ImportId, Open(p, c) PROVE LockInv'
    <3>1. PICK l : l = [process[p] EXCEPT !.pc = "fetch", !.import = c, !.cursor = cursor[c],
                                          !.page = 0, !.done = 0, !.spent = 0]
      OBVIOUS
    <3>2. l.age = process[p].age
      BY <3>1, <1>t DEF LocalState
    <3>3. process' = [process EXCEPT ![p] = l]
      BY <2>4, <3>1 DEF Open
    <3> QED
      BY <2>3, <3>2, <3>3
  <2>5. CASE FetchEmpty(p)
    BY <2>1, <2>2, <2>5, <1>e DEF FetchEmpty
  <2>6. CASE FetchPage(p)
    <3>1. PICK l : l = [process[p] EXCEPT !.pc = "store", !.done = 0,
                                          !.page = Lesser(Requested(p), Remaining(p))]
      OBVIOUS
    <3>2. l.age = process[p].age
      BY <3>1, <1>t DEF LocalState
    <3>3. process' = [process EXCEPT ![p] = l]
      BY <2>6, <3>1 DEF FetchPage
    <3> QED
      BY <2>3, <3>2, <3>3
  <2>7. CASE Store(p)
    BY <2>1, <2>2, <2>7, <1>k, <1>t DEF Store, LocalState
  <2>8. CASE Confirm(p)
    <3>1. PICK l : l = [process[p] EXCEPT !.pc = AfterPage(p), !.done = 0,
                                          !.cursor = process[p].cursor + process[p].page,
                                          !.spent = process[p].spent + process[p].page]
      OBVIOUS
    <3>2. l.age = process[p].age
      BY <3>1, <1>t DEF LocalState
    <3>3. process' = [process EXCEPT ![p] = l]
      BY <2>8, <3>1 DEF Confirm
    <3> QED
      BY <2>3, <3>2, <3>3
  <2>9. CASE Complete(p)
    BY <2>1, <2>2, <2>9, <1>e DEF Complete
  <2>10. CASE Succeed(p) \/ ImportFails(p) \/ FindNone(p)
    BY <2>1, <2>2, <2>10, <1>e, <1>l DEF Succeed, ImportFails, FindNone
  <2> QED
    BY <1>4, <2>4, <2>5, <2>6, <2>7, <2>8, <2>9, <2>10 DEF ChunkStep, Resume, Begin
<1>5. ASSUME NEW w \in Worker,
             \/ TaskStep(w) \/ ReleaseImportUnavailable(w) \/ RedeliverImport(w)
             \/ \E m \in importQueue : ReceiveUnavailable(w, m)
      PROVE  LockInv'
  <2>1. ASSUME NEW m \in importQueue, ReceiveRefused(w, m) \/ ReceiveUnavailable(w, m)
        PROVE  LockInv'
    BY <2>1, <1>k DEF ReceiveRefused, ReceiveUnavailable
  <2>2. ASSUME NEW m \in importQueue, ReceiveImport(w, m) PROVE LockInv'
    <3>1. importLock.value = NoValue /\ importLock' = Held(Queued(w))
      BY <2>2 DEF ReceiveImport, CanAcquire, AfterAcquire
    <3>2. \A v \in Worker : process[v].pc = "idle"
      BY <3>1, <1>t, LockValues DEF LockInv
    <3>3. /\ \A v \in Worker \ {w} : process'[v] = process[v]
          /\ process'[w].age = 0
      BY <2>2, <1>t DEF ReceiveImport, Idle
    <3> QED
      BY <3>1, <3>2, <3>3, LockTtlAssumption DEF LockInv, Held
  <2>3. CASE ScanStops(w) \/ ScanPasses(w) \/ ScanContinues(w)
    BY <2>3, <1>e, <1>t DEF ScanStops, ScanPasses, ScanContinues
  <2>4. ASSUME NEW r \in RunId, CreateRow(w, r) PROVE LockInv'
    BY <2>4, <1>k, <1>t DEF CreateRow, LocalState
  <2>5. CASE StartImport(w) \/ Report(w) \/ Publish(w) \/ AbortImport(w)
    BY <2>5, <1>e, <1>t DEF StartImport, Report, Publish, AbortImport
  <2>6. CASE ReleaseImport(w)
    <3>1. process[w].pc # "idle" /\ Leave(w)
      BY <2>6 DEF ReleaseImport
    <3>2. \A v \in Worker : process'[v].pc # "idle" => v # w /\ process'[v] = process[v]
      BY <3>1, <1>t DEF Leave, Idle
    <3>3. \A v \in Worker : process'[v].pc # "idle" => FALSE
      BY <3>1, <3>2, LockInvGivesOne DEF OneImporter
    <3> QED
      BY <3>3 DEF LockInv
  <2>7. CASE ReleaseImportUnavailable(w)
    BY <2>7, <1>l, <1>t DEF ReleaseImportUnavailable
  <2>8. CASE RedeliverImport(w)
    BY <2>8, <1>k DEF RedeliverImport
  <2> QED
    BY <1>5, <2>1, <2>2, <2>3, <2>4, <2>5, <2>6, <2>7, <2>8 DEF TaskStep
<1>6. CASE ImportWatchdogStep
  BY <1>6, <1>k DEF ImportWatchdogStep, ReadStaleImports, FailStaleImport
<1>7. ASSUME NEW p \in Process, KillImport(p) PROVE LockInv'
  BY <1>7, <1>l DEF KillImport
<1>8. CASE ImportTick
  <2>1. SUFFICES ASSUME NEW w \in Worker, process'[w].pc # "idle"
                 PROVE  /\ importLock'.value = Queued(w)
                        /\ importLock'.ttl + process'[w].age >= LockTtl
    BY DEF LockInv
  <2>2. /\ process[w].pc # "idle" /\ process[w].age \in 0 .. TimeLimit
        /\ process'[w].age = process[w].age + 1
    BY <1>8, <1>t, <2>1 DEF ImportTick, LocalState
  <2>3. process[w].age < TimeLimit
    BY <1>8, <2>2 DEF ImportTick
  <2>4. importLock.value = Queued(w) /\ importLock.ttl + process[w].age >= LockTtl
    BY <2>2 DEF LockInv
  <2>5. importLock.ttl \in 0 .. LockTtl
    BY <1>t DEF LockState
  <2>6. importLock.ttl > 1
    BY <2>2, <2>3, <2>4, <2>5, LimitAssumption, LockTtlAssumption
  <2>7. importLock' = [importLock EXCEPT !.ttl = @ - 1]
    BY <1>8, <2>5, <2>6, LockTtlAssumption DEF ImportTick, AfterTick
  <2>8. importLock'.value = importLock.value /\ importLock'.ttl = importLock.ttl - 1
    BY <1>t, <2>7 DEF LockState
  <2> QED
    BY <2>2, <2>4, <2>5, <2>8, LockTtlAssumption, LimitAssumption
<1> QED
  BY <1>1, <1>2, <1>3, <1>4, <1>5, <1>6, <1>7, <1>8 DEF ImportNext, ImportFaultStep

(* The lock lets one task at a time in, for any number of workers, faults  *)
(* and redeliveries and all limits with TimeLimit < LockTtl.               *)
THEOREM OneImporterHolds == ImportSpec => []OneImporter
<1>1. ImportInit => LockInv
  BY ProcessAssumption DEF ImportInit, LockInv, Idle, Process
<1>2. TypeInv /\ LockInv /\ [ImportNext]_importVars => LockInv'
  BY LockSteps
<1> QED
  BY <1>1, <1>2, LockInvGivesOne, TypeInvInit, TypeInvNext, PTL DEF ImportSpec

-----------------------------------------------------------------------------
(* As long as nobody has run the command, every operator is idle.          *)
CommandInv == cli = {} => \A o \in Operator : process[o].pc = "idle"

LEMMA CommandInvInit == ImportInit => CommandInv
BY DEF ImportInit, CommandInv, Idle, Process

LEMMA CommandSteps ==
    ASSUME TypeInv, CommandInv, [ImportNext]_importVars
    PROVE  CommandInv' /\ cli \subseteq cli'
<1> DEFINE Keeps == cli' = cli /\ \A o \in Operator : process[o].pc = "idle" => process'[o].pc = "idle"
<1>t. /\ process \in [Process -> LocalState] /\ Operator \subseteq Process
      /\ \A w \in Worker : w \in Process /\ w \notin Operator
  BY ProcessAssumption DEF TypeInv, ImportTypeOK, LocalState, Pc, Process
<1>k. Keeps => CommandInv' /\ cli \subseteq cli'
  BY DEF CommandInv
<1> USE DEF rows
<1>e. ASSUME NEW p \in Process, NEW pc, Enter(p, pc), process[p].pc # "idle", cli' = cli
      PROVE  Keeps
  BY <1>e, <1>t DEF Enter
<1>l. ASSUME NEW p \in Process, Leave(p), cli' = cli
      PROVE  Keeps
  BY <1>l, <1>t DEF Leave, Idle
<1>1. CASE UNCHANGED importVars
  BY <1>1, <1>k DEF importVars
<1>2. CASE Request
  BY <1>2, <1>k DEF Request
<1>3. ASSUME NEW o \in Operator, NEW r \in RunId, Command(o, r)
      PROVE  CommandInv' /\ cli \subseteq cli'
  BY <1>3 DEF Command, CommandInv
<1>4. ASSUME NEW p \in Process, ChunkStep(p) PROVE Keeps
  <2>1. cli' = cli /\ process[p].pc # "idle"
    BY <1>4 DEF ChunkStep, Resume, Begin, FindNone, Open, FetchEmpty, FetchPage, Store,
                Confirm, Complete, Succeed, ImportFails
  <2>2. \A q \in Process \ {p} : process'[q] = process[q]
    BY <1>4, <1>t DEF ChunkStep, Resume, Begin, FindNone, Open, FetchEmpty, FetchPage, Store,
                Confirm, Complete, Succeed, ImportFails, Enter, Leave
  <2> QED
    BY <2>1, <2>2, <1>t
<1>5. ASSUME NEW w \in Worker,
             \/ TaskStep(w) \/ ReleaseImportUnavailable(w) \/ RedeliverImport(w)
             \/ \E m \in importQueue : ReceiveUnavailable(w, m)
      PROVE  Keeps
  <2>1. cli' = cli
    BY <1>5 DEF TaskStep, ReceiveRefused, ReceiveImport, ReceiveUnavailable, ScanStops,
                ScanPasses, ScanContinues, CreateRow, StartImport, Report, Publish,
                ReleaseImport, AbortImport, ReleaseImportUnavailable, RedeliverImport
  <2>2. \A q \in Process \ {w} : process'[q] = process[q]
    BY <1>5, <1>t DEF TaskStep, ReceiveRefused, ReceiveImport, ReceiveUnavailable, ScanStops,
                ScanPasses, ScanContinues, CreateRow, StartImport, Report, Publish,
                ReleaseImport, AbortImport, ReleaseImportUnavailable, RedeliverImport,
                Enter, Leave
  <2> QED
    BY <2>1, <2>2, <1>t
<1>6. CASE ImportWatchdogStep
  BY <1>6, <1>k DEF ImportWatchdogStep, ReadStaleImports, FailStaleImport
<1>7. ASSUME NEW p \in Process, KillImport(p) PROVE Keeps
  BY <1>7, <1>l DEF KillImport
<1>8. CASE ImportTick
  BY <1>8, <1>k, <1>t DEF ImportTick
<1> QED
  BY <1>k, <1>1, <1>2, <1>3, <1>4, <1>5, <1>6, <1>7, <1>8 DEF ImportNext, ImportFaultStep

(* Until the command is run, only the task that holds the lock is in a     *)
(* chunk.                                                                  *)
LEMMA OneInChunk ==
    ASSUME TypeInv, LockInv, CommandInv, cli = {}, NEW p \in Process, ChunkStep(p)
    PROVE  p \in Worker /\ \A w \in Worker \ {p} : process[w].pc = "idle"
<1>1. process[p].pc # "idle"
  BY DEF ChunkStep, Resume, Begin, FindNone, Open, FetchEmpty, FetchPage, Store, Confirm,
         Complete, Succeed, ImportFails
<1>2. p \in Worker
  BY <1>1 DEF CommandInv, Process
<1> QED
  BY <1>1, <1>2, LockInvGivesOne DEF OneImporter

(* Until then the task's own copy of the cursor is the saved one.          *)
OwnCopy ==
    \A w \in Worker : Reading(w) => cursor[process[w].import] = process[w].cursor

(* A request for a page moves its process only, and not in the layer.      *)
LEMMA FetchMoves ==
    ASSUME process \in [Process -> LocalState], NEW p \in Process, FetchEmpty(p) \/ FetchPage(p)
    PROVE  /\ \A w \in Process \ {p} : process'[w] = process[w]
           /\ process[p].pc = "fetch" /\ process'[p].pc \in {"complete", "store"}
           /\ process'[p].import = process[p].import /\ process'[p].cursor = process[p].cursor
           /\ UNCHANGED cursor
<1>1. process[p] \in LocalState
  OBVIOUS
<1>2. CASE FetchEmpty(p)
  <2>1. process' = [process EXCEPT ![p] = [process[p] EXCEPT !.pc = "complete"]]
    BY <1>2 DEF FetchEmpty, Enter
  <2>2. process'[p] = [process[p] EXCEPT !.pc = "complete"]
    BY <2>1
  <2> QED
    BY <1>1, <1>2, <2>1, <2>2 DEF FetchEmpty, checkpoints, LocalState
<1>3. CASE FetchPage(p)
  <2> DEFINE page == Lesser(Requested(p), Remaining(p))
  <2>1. process' = [process EXCEPT ![p] =
                      [process[p] EXCEPT !.pc = "store", !.done = 0, !.page = page]]
    BY <1>3 DEF FetchPage
  <2>2. process'[p] = [process[p] EXCEPT !.pc = "store", !.done = 0, !.page = page]
    BY <2>1
  <2> HIDE DEF page
  <2> QED
    BY <1>1, <1>3, <2>1, <2>2 DEF FetchPage, checkpoints, LocalState
<1> QED
  BY <1>2, <1>3

LEMMA OwnCopyInit == ImportInit => OwnCopy
BY ProcessAssumption DEF ImportInit, OwnCopy, Reading, Idle, Process

LEMMA OwnCopyNext ==
    ASSUME TypeInv, LockInv, CommandInv, OwnCopy, cli = {}, [ImportNext]_importVars
    PROVE  OwnCopy' /\ \A c \in ImportId : cursor'[c] >= cursor[c]
<1>t. /\ process \in [Process -> LocalState] /\ cursor \in [ImportId -> 0 .. MaxLayer]
      /\ Worker \subseteq Process
  BY DEF TypeInv, ImportTypeOK, LocalState, Pc, Process
<1>1. CASE ~ \E p \in Process : ChunkStep(p)
  <2>1. UNCHANGED cursor
    BY <1>1, OtherSteps
  <2>2. OwnCopy'
    BY <1>1, <1>t, <2>1, OtherSteps DEF OwnCopy
  <2> QED
    BY <1>t, <2>1, <2>2
<1>2. ASSUME NEW p \in Process, ChunkStep(p)
      PROVE  OwnCopy' /\ \A c \in ImportId : cursor'[c] >= cursor[c]
  <2> USE DEF Reading
  <2>2. p \in Worker /\ \A w \in Worker \ {p} : process[w].pc = "idle"
    BY <1>2, OneInChunk
  <2>3. ASSUME cursor' = cursor,
               \A w \in Worker \ {p} : process'[w] = process[w],
               Reading(p)' => cursor[process'[p].import] = process'[p].cursor
        PROVE  OwnCopy' /\ \A c \in ImportId : cursor'[c] >= cursor[c]
    BY <1>t, <2>2, <2>3 DEF OwnCopy
  <2>4. ASSUME NEW c \in ImportId, Open(p, c)
        PROVE  OwnCopy' /\ \A d \in ImportId : cursor'[d] >= cursor[d]
    BY <1>t, <2>3, <2>4 DEF Open, LocalState
  <2>5. CASE FetchEmpty(p) \/ FetchPage(p)
    <3>1. /\ \A w \in Worker \ {p} : process'[w] = process[w]
          /\ Reading(p) /\ UNCHANGED cursor
          /\ process'[p].import = process[p].import /\ process'[p].cursor = process[p].cursor
      BY <1>t, <2>5, FetchMoves
    <3>2. cursor[process[p].import] = process[p].cursor
      BY <1>t, <2>2, <3>1 DEF OwnCopy
    <3> QED
      BY <2>3, <3>1, <3>2
  <2>6. CASE Store(p) \/ Complete(p)
    BY <1>t, <2>3, <2>6 DEF Store, Complete, Enter, LocalState, OwnCopy
  <2>7. CASE Confirm(p)
    <3> DEFINE e == process[p].cursor + process[p].page
               i == process[p].import
    <3>1. /\ cursor' = [cursor EXCEPT ![i] = e]
          /\ \A w \in Worker \ {p} : process'[w] = process[w]
          /\ process'[p].import = i /\ process'[p].cursor = e
      BY <1>t, <2>7 DEF Confirm, LocalState
    <3>2. i \in ImportId /\ cursor[i] = process[p].cursor /\ e >= cursor[i]
      BY <1>t, <2>2, <2>7 DEF Confirm, LocalState, OwnCopy, TypeInv, Position
    <3> QED
      BY <1>t, <2>2, <3>1, <3>2 DEF OwnCopy
  <2>8. CASE Succeed(p) \/ ImportFails(p) \/ FindNone(p)
    BY <1>t, <2>3, <2>8
       DEF Succeed, ImportFails, FindNone, Enter, Leave, Idle, LocalState, checkpoints
  <2> QED
    BY <1>2, <2>4, <2>5, <2>6, <2>7, <2>8 DEF ChunkStep, Resume, Begin
<1> QED
  BY <1>1, <1>2

(* As long as nobody runs the management command, no confirmed page of a   *)
(* checkpoint is ever taken back.                                          *)
THEOREM CursorNeverMovesBackHolds == ImportSpec => CursorNeverMovesBack
<1> DEFINE Copies == cli = {} => OwnCopy
<1>1. ImportInit => LockInv /\ Copies
  BY OwnCopyInit, ProcessAssumption DEF ImportInit, LockInv, Idle, Process
<1>2. TypeInv /\ LockInv /\ [ImportNext]_importVars => LockInv'
  BY LockSteps
<1>3. TypeInv /\ CommandInv /\ [ImportNext]_importVars => CommandInv' /\ cli \subseteq cli'
  BY CommandSteps
<1>4. TypeInv /\ LockInv /\ CommandInv /\ Copies /\ [ImportNext]_importVars
        => Copies' /\ (cli = {} => \A c \in ImportId : cursor'[c] >= cursor[c])
  BY <1>3, OwnCopyNext
<1> HIDE DEF Copies
<1> QED
  BY <1>1, <1>2, <1>3, <1>4, TypeInvInit, TypeInvNext, CommandInvInit, PTL
     DEF ImportSpec, CursorNeverMovesBack

-----------------------------------------------------------------------------
(* Counting.  Until the command is run, one task at most is past its       *)
(* import, and it is one completed checkpoint ahead of the successful runs *)
(* until it has marked its own run; the checkpoint of a task that is still *)
(* reading is open, so that completing it adds one.                        *)
Succeeded == {r \in RunId : importStatus[r] = "SUCCESS"}
Done      == {c \in ImportId : completed[c]}

SuccessInv ==
    /\ Cardinality(Succeeded) <= Cardinality(Done)
    /\ \A w \in Worker :
         /\ process[w].pc = "succeed" => Cardinality(Succeeded) < Cardinality(Done)
         /\ Reading(w) => ~completed[process[w].import]
    /\ Done \subseteq created

(* Both counts are natural numbers, and a smaller set counts no more.      *)
LEMMA SuccessCounts ==
    /\ IsFiniteSet(RunId) /\ IsFiniteSet(ImportId)
    /\ Cardinality(Succeeded) \in Nat /\ Cardinality(Done) \in Nat
    /\ Cardinality(Succeeded') \in Nat /\ Cardinality(Done') \in Nat
    /\ Succeeded' \subseteq Succeeded => Cardinality(Succeeded') <= Cardinality(Succeeded)
    /\ \A r : Succeeded' \subseteq Succeeded \cup {r} =>
                Cardinality(Succeeded') <= Cardinality(Succeeded) + 1
<1>1. IsFiniteSet(RunId) /\ IsFiniteSet(ImportId)
  BY FS_Interval, SizeAssumption, RunAssumption DEF RunId, ImportId
<1>2. /\ IsFiniteSet(Succeeded) /\ IsFiniteSet(Done)
      /\ IsFiniteSet(Succeeded') /\ IsFiniteSet(Done')
  <2>1. /\ Succeeded \in SUBSET RunId /\ Done \in SUBSET ImportId
        /\ Succeeded' \in SUBSET RunId /\ Done' \in SUBSET ImportId
    BY DEF Succeeded, Done, RunId, ImportId
  <2> QED
    BY <1>1, <2>1, FS_Subset
<1>3. ASSUME NEW r, Succeeded' \subseteq Succeeded \cup {r}
      PROVE  Cardinality(Succeeded') <= Cardinality(Succeeded) + 1
  <2>1. Cardinality(Succeeded \cup {r})
          = IF r \in Succeeded THEN Cardinality(Succeeded) ELSE Cardinality(Succeeded) + 1
    BY <1>2, FS_AddElement
  <2>2. Cardinality(Succeeded') <= Cardinality(Succeeded \cup {r})
    BY <1>2, <1>3, FS_AddElement, FS_Subset
  <2>3. /\ Cardinality(Succeeded') \in Nat /\ Cardinality(Succeeded) \in Nat
        /\ Cardinality(Succeeded \cup {r}) \in Nat
    BY <1>2, FS_AddElement, FS_CardinalityType
  <2> QED
    BY <2>1, <2>2, <2>3
<1> QED
  BY <1>1, <1>2, <1>3, FS_Subset, FS_CardinalityType

LEMMA SuccessInvInit == ImportInit => SuccessInv
<1> SUFFICES ASSUME ImportInit PROVE SuccessInv
  OBVIOUS
<1>1. Succeeded = {} /\ Done = {}
  BY DEF ImportInit, Succeeded, Done
<1> QED
  BY <1>1, FS_EmptySet, ProcessAssumption DEF ImportInit, SuccessInv, Reading, Idle, Process

(* What the steps outside the chunk do to the counts: no run becomes       *)
(* successful and no task comes to the end of its import.                  *)
LEMMA SuccessOtherSteps ==
    ASSUME TypeInv, [ImportNext]_importVars, ~ \E p \in Process : ChunkStep(p)
    PROVE  /\ Succeeded' \subseteq Succeeded
           /\ UNCHANGED <<completed, created>>
           /\ \A w \in Worker : process'[w].pc = "succeed" => process[w].pc = "succeed"
<1> DEFINE Rests == /\ Succeeded' \subseteq Succeeded
                    /\ UNCHANGED <<completed, created>>
                    /\ \A w \in Worker : process'[w].pc = "succeed" => process[w].pc = "succeed"
<1>t. /\ process \in [Process -> LocalState] /\ Worker \subseteq Process
      /\ \A w \in Worker : w \notin Operator
  BY ProcessAssumption DEF TypeInv, ImportTypeOK, LocalState, Pc, Process
<1>s. importStatus \in [RunId -> {"NONE", "QUEUED", "RUNNING", "SUCCESS", "FAILED"}]
  BY DEF TypeInv, ImportTypeOK
<1> USE DEF Succeeded, checkpoints, rows
<1>1. CASE UNCHANGED importVars
  BY <1>1 DEF importVars
<1>2. CASE Request
  BY <1>2 DEF Request
<1>3. ASSUME NEW w \in Worker,
             \/ TaskStep(w) \/ ReleaseImportUnavailable(w) \/ RedeliverImport(w)
             \/ \E m \in importQueue : ReceiveUnavailable(w, m)
      PROVE  Rests
  <2> USE <1>t DEF LocalState
  <2>1. ASSUME NEW m \in importQueue, ReceiveRefused(w, m) \/ ReceiveUnavailable(w, m)
        PROVE  Rests
    BY <2>1 DEF ReceiveRefused, ReceiveUnavailable
  <2>2. ASSUME NEW m \in importQueue, ReceiveImport(w, m) PROVE Rests
    BY <2>2 DEF ReceiveImport, Idle
  <2>3. CASE ScanStops(w)
    BY <2>3 DEF ScanStops, Enter
  <2>4. CASE ScanPasses(w)
    BY <2>4 DEF ScanPasses, Enter
  <2>5. CASE ScanContinues(w)
    BY <2>5 DEF ScanContinues, Enter
  <2>6. ASSUME NEW r \in RunId, CreateRow(w, r) PROVE Rests
    BY <1>s, <2>6 DEF CreateRow
  <2>7. CASE StartImport(w)
    BY <1>s, <2>7 DEF StartImport, Enter
  <2>8. CASE Report(w)
    BY <2>8 DEF Report, Enter
  <2>9. CASE Publish(w)
    BY <2>9 DEF Publish, Enter
  <2>10. CASE ReleaseImport(w)
    BY <2>10 DEF ReleaseImport, Leave, Idle
  <2>11. CASE AbortImport(w)
    BY <2>11 DEF AbortImport, Enter
  <2>12. CASE ReleaseImportUnavailable(w)
    BY <2>12 DEF ReleaseImportUnavailable, Leave, Idle
  <2>13. CASE RedeliverImport(w)
    BY <2>13 DEF RedeliverImport
  <2> QED
    BY <1>3, <2>1, <2>2, <2>3, <2>4, <2>5, <2>6, <2>7, <2>8, <2>9, <2>10, <2>11, <2>12, <2>13
       DEF TaskStep
<1>7. ASSUME NEW o \in Operator, NEW r \in RunId, Command(o, r) PROVE Rests
  BY <1>7, <1>s, <1>t DEF Command
<1>4. CASE ImportWatchdogStep
  BY <1>4, <1>s DEF ImportWatchdogStep, ReadStaleImports, FailStaleImport
<1>5. ASSUME NEW p \in Process, KillImport(p) PROVE Rests
  BY <1>5, <1>t DEF KillImport, Leave, Idle
<1>6. CASE ImportTick
  BY <1>6, <1>t DEF ImportTick, LocalState
<1> QED
  BY <1>1, <1>2, <1>3, <1>4, <1>5, <1>6, <1>7 DEF ImportNext, ImportFaultStep

(* A step of the one task in a chunk keeps the counts in order: completing *)
(* the open checkpoint gives the task its lead, marking the run spends it. *)
LEMMA SuccessChunk ==
    ASSUME TypeInv, LockInv, CommandInv, cli = {}, SuccessInv,
           NEW p \in Process, ChunkStep(p)
    PROVE  SuccessInv'
<1> USE DEF Reading
<1>o. p \in Worker /\ \A w \in Worker \ {p} : process[w].pc = "idle"
  BY OneInChunk
<1>t. /\ process \in [Process -> LocalState] /\ Worker \subseteq Process
      /\ completed \in [ImportId -> BOOLEAN]
      /\ importStatus \in [RunId -> {"NONE", "QUEUED", "RUNNING", "SUCCESS", "FAILED"}]
      /\ created \subseteq ImportId
  BY DEF TypeInv, ImportTypeOK, LocalState, Pc, Process
<1>n. /\ Cardinality(Succeeded) \in Nat /\ Cardinality(Done) \in Nat
      /\ Cardinality(Succeeded') \in Nat /\ Cardinality(Done') \in Nat
  BY SuccessCounts
<1>i. /\ Cardinality(Succeeded) <= Cardinality(Done)
      /\ process[p].pc = "succeed" => Cardinality(Succeeded) < Cardinality(Done)
      /\ Reading(p) => ~completed[process[p].import] /\ process[p].import \in ImportId
      /\ Done \subseteq created
  BY <1>o, <1>t DEF SuccessInv, TypeInv, Position
<1>k. ASSUME Cardinality(Succeeded') <= Cardinality(Done'),
             \A w \in Worker \ {p} : process'[w] = process[w],
             process'[p].pc = "succeed" => Cardinality(Succeeded') < Cardinality(Done'),
             Reading(p)' => ~completed'[process'[p].import],
             Done' \subseteq created'
      PROVE  SuccessInv'
  BY <1>k, <1>o, <1>t DEF SuccessInv
<1>1. ASSUME NEW c \in ImportId, Resume(p, c) \/ Begin(p, c) PROVE SuccessInv'
  <2>1. Open(p, c) /\ ~completed[c]
    <3>1. CASE Resume(p, c)
      BY <3>1 DEF Resume, Incomplete
    <3>2. CASE Begin(p, c)
      <4>1. c \notin created
        BY <3>2, SizeAssumption, RunAssumption DEF Begin, ImportId
      <4> QED
        BY <3>2, <4>1, <1>i DEF Begin, Done
    <3> QED
      BY <1>1, <3>1, <3>2
  <2>2. /\ Succeeded' = Succeeded /\ Done' = Done /\ created \subseteq created'
        /\ completed' = completed
    BY <2>1 DEF Open, Touch, Succeeded, Done, rows
  <2>3. /\ \A w \in Worker \ {p} : process'[w] = process[w]
        /\ process'[p].pc = "fetch" /\ process'[p].import = c
    BY <2>1, <1>t DEF Open, LocalState
  <2> QED
    BY <1>k, <1>i, <2>1, <2>2, <2>3
<1>2. CASE FetchEmpty(p) \/ FetchPage(p)
  <2>1. Succeeded' = Succeeded /\ Done' = Done /\ UNCHANGED <<completed, created>>
    BY <1>2 DEF FetchEmpty, FetchPage, Succeeded, Done, rows, checkpoints
  <2>2. /\ \A w \in Worker \ {p} : process'[w] = process[w]
        /\ process'[p].pc # "succeed" /\ process'[p].import = process[p].import /\ Reading(p)
    BY <1>2, <1>t, FetchMoves
  <2> QED
    BY <1>k, <1>i, <2>1, <2>2
<1>3. CASE Store(p) \/ Confirm(p)
  <2>1. /\ Succeeded' = Succeeded /\ Done' = Done /\ completed' = completed
        /\ created \subseteq created'
    BY <1>3 DEF Store, Confirm, Touch, Succeeded, Done, rows
  <2>2. /\ \A w \in Worker \ {p} : process'[w] = process[w]
        /\ process'[p].pc # "succeed" /\ process'[p].import = process[p].import /\ Reading(p)
    <3>1. CASE Store(p)
      BY <3>1, <1>t DEF Store, LocalState
    <3>2. CASE Confirm(p)
      <4>1. AfterPage(p) \in {"complete", "fetch", "report", "open"}
        BY DEF AfterPage
      <4> QED
        BY <3>2, <4>1, <1>t DEF Confirm, LocalState
    <3> QED
      BY <1>3, <3>1, <3>2
  <2> QED
    BY <1>k, <1>i, <2>1, <2>2
<1>4. CASE Complete(p)
  <2> DEFINE i == process[p].import
  <2>1. /\ Succeeded' = Succeeded
        /\ completed' = [completed EXCEPT ![i] = TRUE]
        /\ created' = created \cup {i}
        /\ \A w \in Worker \ {p} : process'[w] = process[w]
        /\ process'[p].pc = "succeed"
    BY <1>4, <1>t DEF Complete, Touch, Enter, Succeeded, rows, LocalState
  <2>2. i \in ImportId /\ ~completed[i]
    BY <1>4, <1>i DEF Complete
  <2>3. Done' = Done \cup {i} /\ i \notin Done
    BY <1>t, <2>1, <2>2 DEF Done, ImportId
  <2>4. IsFiniteSet(Done)
    BY SuccessCounts, FS_Subset DEF Done
  <2>5. Cardinality(Done') = Cardinality(Done) + 1
    BY <2>3, <2>4, FS_AddElement
  <2>6. Cardinality(Succeeded') < Cardinality(Done')
    BY <1>i, <1>n, <2>1, <2>5
  <2> QED
    BY <1>k, <1>i, <1>n, <2>1, <2>3, <2>6
<1>5. CASE Succeed(p)
  <2>1. /\ Done' = Done /\ UNCHANGED <<completed, created>>
        /\ \A w \in Worker \ {p} : process'[w] = process[w]
        /\ process'[p].pc \notin {"succeed", "fetch", "store", "complete"}
    BY <1>5, <1>t DEF Succeed, Enter, Leave, Idle, Done, checkpoints, LocalState
  <2>2. Succeeded' \subseteq Succeeded \cup {process[p].run}
    BY <1>5, <1>t DEF Succeed, Succeeded
  <2>3. Cardinality(Succeeded') <= Cardinality(Succeeded) + 1
    BY <2>2, SuccessCounts
  <2>4. Cardinality(Succeeded) < Cardinality(Done)
    BY <1>5, <1>i DEF Succeed
  <2>5. Cardinality(Succeeded') <= Cardinality(Done')
    BY <1>n, <2>1, <2>3, <2>4
  <2> QED
    BY <1>k, <1>i, <2>1, <2>5
<1>6. CASE ImportFails(p)
  <2>1. /\ \A w \in Worker \ {p} : process'[w] = process[w]
        /\ process'[p].pc \notin {"succeed", "fetch", "store", "complete"}
    BY <1>6, <1>t DEF ImportFails, Enter, Leave, Idle, LocalState
  <2>2. Succeeded' \subseteq Succeeded
    BY <1>6, <1>t DEF ImportFails, Succeeded
  <2>3. Done' = Done /\ created \subseteq created'
    <3>1. CASE process[p].pc \in {"open", "begin"}
      BY <1>6, <3>1 DEF ImportFails, Done
    <3>2. CASE process[p].pc \notin {"open", "begin"}
      <4>1. /\ completed' = [completed EXCEPT ![process[p].import] = FALSE]
            /\ created \subseteq created'
        BY <1>6, <3>2 DEF ImportFails, Touch
      <4>2. process[p].import \in ImportId /\ ~completed[process[p].import]
        BY <1>6, <3>2, <1>i DEF ImportFails
      <4> QED
        BY <1>t, <4>1, <4>2 DEF Done
    <3> QED
      BY <3>1, <3>2
  <2>4. Cardinality(Succeeded') <= Cardinality(Done')
    BY <1>n, <1>i, <2>2, <2>3, SuccessCounts
  <2> QED
    BY <1>k, <1>i, <2>1, <2>3, <2>4
<1>7. CASE FindNone(p)
  <2>1. /\ Succeeded' = Succeeded /\ Done' = Done /\ UNCHANGED <<completed, created>>
        /\ \A w \in Worker \ {p} : process'[w] = process[w]
        /\ process'[p].pc = "begin"
    BY <1>7, <1>t DEF FindNone, Enter, Succeeded, Done, rows, checkpoints, LocalState
  <2> QED
    BY <1>k, <1>i, <2>1
<1> QED
  BY <1>1, <1>2, <1>3, <1>4, <1>5, <1>6, <1>7 DEF ChunkStep

LEMMA SuccessInvNext ==
    ASSUME TypeInv, LockInv, CommandInv, cli = {}, SuccessInv, [ImportNext]_importVars
    PROVE  SuccessInv'
<1>1. CASE \E p \in Process : ChunkStep(p)
  BY <1>1, SuccessChunk
<1>2. CASE ~ \E p \in Process : ChunkStep(p)
  <2>1. /\ Succeeded' \subseteq Succeeded
        /\ UNCHANGED <<completed, created>>
        /\ \A w \in Worker : process'[w].pc = "succeed" => process[w].pc = "succeed"
    BY <1>2, SuccessOtherSteps
  <2>2. \A w \in Worker : Reading(w)' => Reading(w) /\ process'[w].import = process[w].import
    BY <1>2, OtherSteps DEF Process
  <2>3. Done' = Done
    BY <2>1 DEF Done
  <2>4. /\ Cardinality(Succeeded') <= Cardinality(Succeeded)
        /\ Cardinality(Succeeded) \in Nat /\ Cardinality(Done) \in Nat
        /\ Cardinality(Succeeded') \in Nat
    BY <2>1, SuccessCounts
  <2> QED
    BY <2>1, <2>2, <2>3, <2>4 DEF SuccessInv
<1> QED
  BY <1>1, <1>2

(* As long as nobody has run the command, no run reports success on the    *)
(* strength of another run's import: there are at least as many completed  *)
(* checkpoints as successful rows.                                         *)
THEOREM EverySuccessHasItsImportHolds == ImportSpec => []EverySuccessHasItsImport
<1> DEFINE Counts == cli = {} => SuccessInv
<1>1. ImportInit => LockInv /\ Counts
  BY SuccessInvInit, ProcessAssumption DEF ImportInit, LockInv, Idle, Process
<1>2. TypeInv /\ LockInv /\ [ImportNext]_importVars => LockInv'
  BY LockSteps
<1>3. TypeInv /\ CommandInv /\ [ImportNext]_importVars => CommandInv' /\ cli \subseteq cli'
  BY CommandSteps
<1>4. TypeInv /\ LockInv /\ CommandInv /\ Counts /\ [ImportNext]_importVars => Counts'
  BY <1>3, SuccessInvNext
<1>5. Counts => EverySuccessHasItsImport
  BY DEF SuccessInv, EverySuccessHasItsImport, Succeeded, Done
<1> HIDE DEF Counts
<1> QED
  BY <1>1, <1>2, <1>3, <1>4, <1>5, TypeInvInit, TypeInvNext, CommandInvInit, PTL DEF ImportSpec
=============================================================================
