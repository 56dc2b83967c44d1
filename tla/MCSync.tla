------------------------------- MODULE MCSync --------------------------------
(***************************************************************************)
(* The synchronisations in the background: the runs of one cadastre, and   *)
(* the full import.  They share workers and limits but neither locks nor   *)
(* rows nor messages, so a behaviour follows one of them and leaves the    *)
(* other as it begins.                                                     *)
(***************************************************************************)
EXTENDS CadastreSync, FullImport

VARIABLE focus   \* the part that this behaviour follows

syncVars == <<vars, importVars, focus>>

SyncInit ==
    /\ focus \in {"cadastre", "import"}
    /\ Init /\ ImportInit
    /\ focus # "import" => layer = 0

(* A step of one part, and the other stays.                                *)
CadastrePart(step) == focus = "cadastre" /\ step /\ UNCHANGED <<importVars, focus>>
ImportPart(step)   == focus = "import" /\ step /\ UNCHANGED <<vars, focus>>

SyncNext == CadastrePart(Next) \/ ImportPart(ImportNext)

SyncSpec == SyncInit /\ [][SyncNext]_syncVars

(* The fairness of FairSpec and FairImportSpec: the clock, the workers, the *)
(* dispatchers and the watchdog keep going.                                *)
FairSyncSpec ==
    /\ SyncSpec
    /\ WF_syncVars(CadastrePart(Tick) \/ ImportPart(ImportTick))
    /\ \A w \in Worker : WF_syncVars(CadastrePart(WorkerStep(w)) \/ ImportPart(TaskStep(w)))
    /\ \A p \in Process : WF_syncVars(ImportPart(ChunkStep(p)))
    /\ \A d \in Dispatcher : WF_syncVars(CadastrePart(DispatcherStep(d)))
    /\ WF_syncVars(CadastrePart(WatchdogStep) \/ ImportPart(ImportWatchdogStep))
=============================================================================
