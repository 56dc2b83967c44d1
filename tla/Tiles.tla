------------------------------- MODULE Tiles --------------------------------
(***************************************************************************)
(* Vector tiles of the map and their cache (forestry/services/             *)
(* tile_cache.py, api/views.py map_vector_tile, forestry/signals.py).      *)
(*                                                                         *)
(* settings.py names no cache backend, so every process keeps the tiles    *)
(* and the version of the layer in its own memory: a write invalidates the *)
(* tiles of the process that makes it, be it a server or a Celery worker,  *)
(* and no others.  The threads of a process share its memory.              *)
(*                                                                         *)
(* Abstracted: one tile of one layer as one user filters it; the layer is  *)
(* the number of writes committed to it, and a tile the number of writes   *)
(* that it shows.  A cached tile may go at any time, its time to live      *)
(* having passed or the cache being full.                                  *)
(***************************************************************************)
EXTENDS Naturals

CONSTANTS
    Server,         \* processes of the web servers
    Worker,         \* processes of Celery
    Viewer,         \* browsers with the map open
    Writer,         \* writes of a tracked model that run at the same time
    MaxWrites,      \* bound: writes to the layer
    MaxTileVersion  \* bound: versions of the layer in one process

ASSUME TileAssumption ==
    /\ MaxWrites \in Nat
    /\ MaxTileVersion \in Nat \ {0, 1}

VARIABLES
    layer,        \* writes committed so far
    tileVersion,  \* the version that each process holds, 0 when it has none
    tiles,        \* by server and version: the tile in memory, or nothing
    view,         \* the tile request of each browser
    write,        \* the write that each writer is in
    covers,       \* history: the layer when each process last invalidated
    back          \* history: processes whose version has gone back

Process == Server \cup Worker

tileVars == <<layer, tileVersion, tiles, view, write, covers, back>>

View    == [pc : {"look", "read", "store"}, process : Server,
            version : 1 .. MaxTileVersion, content : 0 .. MaxWrites]
NoView  == [pc |-> "idle"]
Write   == [pc : {"committed", "missed", "bumped"}, process : Process, inside : BOOLEAN]
NoWrite == [pc |-> "idle"]

TileTypeOK ==
    /\ layer \in 0 .. MaxWrites
    /\ tileVersion \in [Process -> 0 .. MaxTileVersion]
    /\ tiles \in [Server -> [1 .. MaxTileVersion -> SUBSET (0 .. MaxWrites)]]
    /\ view \in [Viewer -> View \cup {NoView}]
    /\ write \in [Writer -> Write \cup {NoWrite}]
    /\ covers \in [Process -> 0 .. MaxWrites]
    /\ back \subseteq Process

TileInit ==
    /\ layer = 0
    /\ tileVersion = [p \in Process |-> 0]
    /\ tiles = [p \in Server |-> [n \in 1 .. MaxTileVersion |-> {}]]
    /\ view = [v \in Viewer |-> NoView]
    /\ write = [w \in Writer |-> NoWrite]
    /\ covers = [p \in Process |-> 0]
    /\ back = {}

(* A process without a version takes it to be the first.                   *)
Current(p) == IF tileVersion[p] = 0 THEN 1 ELSE tileVersion[p]

-----------------------------------------------------------------------------
(* A save outside a transaction commits and then runs its signal; inside   *)
(* one - update_or_create opens its own - the signal comes first and the   *)
(* transaction may still be rolled back.                                   *)
WriteBegins(w) ==
    /\ write[w] = NoWrite
    /\ layer < MaxWrites
    /\ \E p \in Process, inside \in BOOLEAN :
        /\ write' = [write EXCEPT ![w] = [pc |-> "committed", process |-> p, inside |-> inside]]
        /\ layer' = IF inside THEN layer ELSE layer + 1
    /\ UNCHANGED <<tileVersion, tiles, view, covers, back>>

(* The features of an activated generation come by bulk_create, which      *)
(* sends no signal; there is none at all if there was nothing to delete.   *)
BulkWrite ==
    /\ layer < MaxWrites
    /\ layer' = layer + 1
    /\ UNCHANGED <<tileVersion, tiles, view, write, covers, back>>

(* The version has been set by the signal of this write.                   *)
Bumped(w, version) ==
    LET p == write[w].process IN
    /\ tileVersion' = [tileVersion EXCEPT ![p] = version]
    /\ covers' = [covers EXCEPT ![p] = layer]
    /\ write' = [write EXCEPT ![w] = IF @.inside THEN [@ EXCEPT !.pc = "bumped"] ELSE NoWrite]

(* cache.incr ...                                                          *)
Bump(w) ==
    LET version == tileVersion[write[w].process] IN
    /\ write[w].pc = "committed"
    /\ version \in 1 .. MaxTileVersion - 1
    /\ Bumped(w, version + 1)
    /\ UNCHANGED <<layer, tiles, view, back>>

(* ... raises an error if the process has no version ...                   *)
BumpMisses(w) ==
    /\ write[w].pc = "committed"
    /\ tileVersion[write[w].process] = 0
    /\ write' = [write EXCEPT ![w].pc = "missed"]
    /\ UNCHANGED <<layer, tileVersion, tiles, view, covers, back>>

(* ... and it is set to 2, also when another thread has been faster.       *)
BumpMissed(w) ==
    LET p == write[w].process IN
    /\ write[w].pc = "missed"
    /\ Bumped(w, 2)
    /\ back' = IF tileVersion[p] = 0 THEN back ELSE back \cup {p}
    /\ UNCHANGED <<layer, tiles, view>>

WriteEnds(w) ==
    /\ write[w].pc = "bumped"
    /\ layer' \in {layer, layer + 1} \cap 0 .. MaxWrites
    /\ write' = [write EXCEPT ![w] = NoWrite]
    /\ UNCHANGED <<tileVersion, tiles, view, covers, back>>

-----------------------------------------------------------------------------
(* A request of the tile reads the version once, for the key under which   *)
(* it looks the tile up and under which it stores the tile that it makes.  *)
TileAsk(v) ==
    /\ view[v] = NoView
    /\ \E p \in Server : view' = [view EXCEPT ![v] =
          [pc |-> "look", process |-> p, version |-> Current(p), content |-> 0]]
    /\ UNCHANGED <<layer, tileVersion, tiles, write, covers, back>>

Cached(v) == tiles[view[v].process][view[v].version]

TileHit(v) ==
    /\ view[v].pc = "look"
    /\ Cached(v) # {}
    /\ view' = [view EXCEPT ![v] = NoView]
    /\ UNCHANGED <<layer, tileVersion, tiles, write, covers, back>>

TileMiss(v) ==
    /\ view[v].pc = "look"
    /\ Cached(v) = {}
    /\ view' = [view EXCEPT ![v].pc = "read"]
    /\ UNCHANGED <<layer, tileVersion, tiles, write, covers, back>>

TileRead(v) ==
    /\ view[v].pc = "read"
    /\ view' = [view EXCEPT ![v] = [@ EXCEPT !.pc = "store", !.content = layer]]
    /\ UNCHANGED <<layer, tileVersion, tiles, write, covers, back>>

(* Mutant: the key is made when the tile is stored.                        *)
TileStoreUnderCurrent(v) ==
    /\ view[v].pc = "store"
    /\ LET p == view[v].process IN
          tiles' = [tiles EXCEPT ![p][Current(p)] = {view[v].content}]
    /\ view' = [view EXCEPT ![v] = NoView]
    /\ UNCHANGED <<layer, tileVersion, write, covers, back>>

TileStore(v) ==
    /\ view[v].pc = "store"
    /\ tiles' = [tiles EXCEPT ![view[v].process][view[v].version] = {view[v].content}]
    /\ view' = [view EXCEPT ![v] = NoView]
    /\ UNCHANGED <<layer, tileVersion, write, covers, back>>

TileFails(v) ==
    /\ view[v] # NoView
    /\ view' = [view EXCEPT ![v] = NoView]
    /\ UNCHANGED <<layer, tileVersion, tiles, write, covers, back>>

-----------------------------------------------------------------------------
TileExpires(p, n) ==
    /\ tiles[p][n] # {}
    /\ tiles' = [tiles EXCEPT ![p][n] = {}]
    /\ UNCHANGED <<layer, tileVersion, view, write, covers, back>>

(* A full cache drops the version, which tiles may survive.                *)
VersionIsCulled(p) ==
    /\ tileVersion[p] # 0
    /\ tileVersion' = [tileVersion EXCEPT ![p] = 0]
    /\ back' = back \cup {p}
    /\ UNCHANGED <<layer, tiles, view, write, covers>>

(* A process starts again: its requests, its writes and its memory are     *)
(* gone.                                                                   *)
ProcessRestarts(p) ==
    /\ tileVersion' = [tileVersion EXCEPT ![p] = 0]
    /\ tiles' = [s \in Server |-> IF s = p THEN [n \in 1 .. MaxTileVersion |-> {}] ELSE tiles[s]]
    /\ view' = [v \in Viewer |-> IF view[v] # NoView /\ view[v].process = p THEN NoView ELSE view[v]]
    /\ write' = [w \in Writer |-> IF write[w] # NoWrite /\ write[w].process = p THEN NoWrite ELSE write[w]]
    /\ back' = back \ {p}
    /\ UNCHANGED <<layer, covers>>

TileNext ==
    \/ \E w \in Writer :
          WriteBegins(w) \/ Bump(w) \/ BumpMisses(w) \/ BumpMissed(w) \/ WriteEnds(w)
    \/ BulkWrite
    \/ \E v \in Viewer : TileAsk(v) \/ TileHit(v) \/ TileMiss(v) \/ TileRead(v) \/ TileStore(v) \/ TileFails(v)
    \/ \E p \in Server, n \in 1 .. MaxTileVersion : TileExpires(p, n)
    \/ \E p \in Process : VersionIsCulled(p) \/ ProcessRestarts(p)

TileSpec == TileInit /\ [][TileNext]_tileVars
-----------------------------------------------------------------------------
(* A server that has invalidated the layer answers with no tile that was   *)
(* read before, whichever requests were under way, until it starts again.  *)
(* This is so as long as its version has not gone back: dropped by a full  *)
(* cache, or set to 2 by a thread over the increment of another.           *)
ServerForgetsOldTiles ==
    \A p \in Server \ back : \A content \in tiles[p][Current(p)] : covers[p] <= content

(* What tile_cache.py, README.md and docs/GIS_MVT_TILES.md say of an       *)
(* invalidation: old tiles are unreachable at once, in every server.       *)
OldTilesAreUnreachable ==
    \A p \in Server, q \in Process : \A content \in tiles[p][Current(p)] : covers[q] <= content
=============================================================================
