------------------------------ MODULE VideoWall ------------------------------
(***************************************************************************)
(* The video wall (web/video-wall): which tiles hold an HLS connection,    *)
(* the single-camera view with its WHEP session, the saved layout, and     *)
(* the release of every socket before the page is left.  Renders with      *)
(* their effects are one step; what the page awaits (a manifest, the       *)
(* player module, an SDP answer, a save) answers in a step of its own.     *)
(***************************************************************************)
EXTENDS Integers, Sequences

CONSTANTS
    Registered,     \* cameras of the registry, in its order
    Removed,        \* ids a stored layout may still name
    Whep,           \* cameras that publish a WHEP path
    Sizes,          \* slots of each grid
    Grid,           \* slots of the wall of someone who never saved one
    Stored,         \* layouts the server may hold at first
    MaxEdits,       \* layout edits explored
    MaxOpens,       \* single-camera views opened
    NA

Cameras == {Registered[i] : i \in DOMAIN Registered}

(* What a wall saves: each camera once. *)
EachOnce(l) == \A i, j \in DOMAIN l : l[i] # NA /\ l[i] = l[j] => i = j
Arrangement == {l \in Seq(Cameras \cup Removed \cup {NA}) : EachOnce(l)}

WallAssumption ==
    /\ Registered \in Arrangement /\ Stored \subseteq Arrangement \cup {NA}
    /\ NA \notin Cameras \cup Removed
    /\ Sizes \subseteq Nat /\ Grid \in Sizes /\ MaxOpens \in Nat

VARIABLES
    page,           \* "wall", "leaving" after a click that navigates away, "away"
    layout, saved, timer, puts, failed,     \* wall-screen.tsx: shown, saved.current, debounce, saves
    stored,         \* wall_layouts
    tiles,          \* slot -> tile; slot 0 is the HLS pane of the single view
    opens,          \* player modules awaited
    live,           \* players that hold a connection: slot, camera
    pane,           \* the WHEP pane
    negs, sessions, \* negotiations under way; sessions the gateway holds
    late,           \* panes closed while their offer was with the gateway
    edits, views

layouting == <<layout, saved, timer, puts, failed, stored, edits>>
playing == <<tiles, opens, live>>
whep == <<pane, negs, sessions, late, views>>
vars == <<page, layouting, playing, whep>>

Slots == 1..(CHOOSE n \in Sizes : \A m \in Sizes : m <= n)
NoTile == [cam |-> NA, visible |-> FALSE, manifest |-> "none", player |-> "off"]
NoPane == [cam |-> NA, view |-> 0, resource |-> FALSE]
Work(slot, cam) == [slot |-> slot, cam |-> cam, cancelled |-> FALSE]

TypeOK ==
    /\ page \in {"wall", "leaving", "away"}
    /\ layout \in Seq(Cameras \cup {NA})
    /\ \A s \in DOMAIN tiles : tiles[s].cam \in Cameras \cup {NA}
    /\ \A k \in live : k.slot \in DOMAIN tiles /\ k.cam \in Cameras
    /\ sessions \subseteq 1..MaxOpens /\ late \subseteq 1..MaxOpens

-----------------------------------------------------------------------------
(* lib/wall/layout.ts.                                                     *)
Place(l, n) == [i \in 1..n |-> IF i \in DOMAIN l THEN l[i] ELSE NA]
NormaliseLayout(l) == [i \in DOMAIN l |-> IF l[i] \in Cameras THEN l[i] ELSE NA]
DefaultLayout == Place(Registered, Grid)

Assign(l, i, c) ==
    [j \in DOMAIN l |-> CASE j = i -> c
                          [] j # i /\ c # NA /\ l[j] = c -> l[i]
                          [] OTHER -> l[j]]

(* Tiles are keyed by slot and camera: one that keeps both stays mounted.  *)
Mounted(l) ==
    [s \in DOMAIN tiles |-> IF s = 0 THEN NoTile
                            ELSE IF s \in DOMAIN l /\ tiles[s].cam = l[s] THEN tiles[s]
                            ELSE [NoTile EXCEPT !.cam = IF s \in DOMAIN l THEN l[s] ELSE NA]]

(* The clean-up of the effects of some slots: work is cancelled, players   *)
(* are destroyed.                                                          *)
Cancel(work, slots) == {[w EXCEPT !.cancelled = @ \/ w.slot \in slots] : w \in work}
Closed(slots) == {k \in live : k.slot \notin slots}

Remount(l) ==
    LET gone == {s \in DOMAIN tiles : Mounted(l)[s].cam # tiles[s].cam}
    IN  /\ tiles' = Mounted(l)
        /\ opens' = Cancel(opens, gone)
        /\ live' = Closed(gone)

(* An edit, and the save effect: the timer of the last edit is cleared.    *)
SetLayout(l) ==
    /\ page # "away" /\ pane = NoPane /\ tiles[0].cam = NA
    /\ edits < MaxEdits /\ l # layout
    /\ edits' = edits + 1
    /\ layout' = l
    /\ timer' = IF l = saved THEN NA ELSE l
    /\ Remount(l)
    /\ UNCHANGED <<page, saved, puts, failed, stored, whep>>

OnPick == \E i \in DOMAIN layout, c \in Cameras \cup {NA} : SetLayout(Assign(layout, i, c))
OnGrid == \E n \in Sizes : SetLayout(Place(layout, n))

(* The debounce ends; the browser sends server actions one at a time.      *)
SaveLayout ==
    /\ timer # NA
    /\ timer' = NA /\ puts' = Append(puts, timer)
    /\ UNCHANGED <<page, layout, saved, failed, stored, edits, playing, whep>>

SaveAnswered ==
    /\ puts # <<>>
    /\ \E ok \in BOOLEAN :
         /\ failed' = ~ok
         /\ stored' = IF ok THEN Head(puts) ELSE stored
    /\ saved' = Head(puts) /\ puts' = Tail(puts)
    /\ UNCHANGED <<page, layout, timer, edits, playing, whep>>

-----------------------------------------------------------------------------
(* camera-tile.tsx and use-hls-player.ts.                                  *)
Player(s) == tiles[s].player
Stopped(s) == [tiles[s] EXCEPT !.visible = FALSE, !.manifest = "none", !.player = "off"]

ScrollIn(s) ==
    /\ page # "away" /\ s # 0 /\ tiles[s].cam # NA /\ ~tiles[s].visible
    /\ tiles[0].cam = NA
    /\ tiles' = [tiles EXCEPT ![s].visible = TRUE, ![s].manifest = "loading"]
    /\ UNCHANGED <<page, layouting, opens, live, whep>>

ScrollOut(s) ==
    /\ page # "away" /\ s # 0 /\ tiles[s].visible
    /\ tiles' = [tiles EXCEPT ![s] = Stopped(s)]
    /\ opens' = Cancel(opens, {s})
    /\ live' = Closed({s})
    /\ UNCHANGED <<page, layouting, whep>>

(* The manifest route, and the tile's reading of it: a camera that was     *)
(* never scored plays even if its last probe could not connect.            *)
Band(scored, connectable) == CASE ~scored -> NA [] scored /\ ~connectable -> "dead" [] OTHER -> "alive"
Manifest(found, scored, connectable, endpoint) ==
    IF found THEN [band |-> Band(scored, connectable), hls |-> endpoint] ELSE NA
Playable(m) == m # NA /\ m.hls /\ m.band # "dead"

(* A camera with a WHEP path: the pane starts to negotiate.                *)
StartPane(s) ==
    IF s = 0 /\ tiles[s].cam \in Whep
    THEN /\ pane' = [cam |-> tiles[s].cam, view |-> views, resource |-> FALSE]
         /\ negs' = negs \cup {[view |-> views, stage |-> "offer", cancelled |-> FALSE]}
    ELSE UNCHANGED <<pane, negs>>

(* loadManifest.  The answer to a tile that has moved on changes nothing.  *)
Loaded(s, m) ==
    /\ tiles' = [tiles EXCEPT ![s].manifest = IF Playable(m) THEN "playable" ELSE "reason",
                              ![s].player = IF Playable(m) THEN "opening" ELSE "off"]
    /\ opens' = IF Playable(m) THEN opens \cup {Work(s, tiles[s].cam)} ELSE opens
    /\ m = NA => UNCHANGED <<pane, negs>>
    /\ m # NA => StartPane(s)

LoadManifest(s) ==
    /\ tiles[s].manifest = "loading"
    /\ \E found, scored, connectable, endpoint \in BOOLEAN :
         Loaded(s, Manifest(found, scored, connectable, endpoint))
    /\ UNCHANGED <<page, layouting, live, sessions, late, views>>

(* Mutant of OpenPlayer: the flag is not read after the import. *)
OpenPlayerAnyway(w) ==
    /\ w \in opens
    /\ opens' = opens \ {w}
    /\ live' = live \cup {[slot |-> w.slot, cam |-> w.cam]}
    /\ tiles' = IF w.cancelled THEN tiles ELSE [tiles EXCEPT ![w.slot].player = "attached"]
    /\ UNCHANGED <<page, layouting, whep>>

OpenPlayer(w) ==
    /\ w \in opens
    /\ opens' = opens \ {w}
    /\ live' = IF w.cancelled THEN live ELSE live \cup {[slot |-> w.slot, cam |-> w.cam]}
    /\ tiles' = IF w.cancelled THEN tiles ELSE [tiles EXCEPT ![w.slot].player = "attached"]
    /\ UNCHANGED <<page, layouting, whep>>

-----------------------------------------------------------------------------
(* The single-camera view: the grid unmounts, the pane of slot 0 mounts.   *)
OpenSingle(c) ==
    /\ page # "away" /\ tiles[0].cam = NA /\ views < MaxOpens
    /\ views' = views + 1
    /\ tiles' = [s \in DOMAIN tiles |-> IF s = 0 THEN [NoTile EXCEPT !.cam = c, !.visible = TRUE, !.manifest = "loading"] ELSE NoTile]
    /\ opens' = Cancel(opens, Slots)
    /\ live' = Closed(Slots)
    /\ UNCHANGED <<page, layouting, pane, negs, sessions, late>>

(* The clean-up of the WHEP effect: DELETE only if the answer came.        *)
EndPane(p) ==
    /\ pane' = NoPane
    /\ negs' = {[n EXCEPT !.cancelled = @ \/ n.view = p.view] : n \in negs}
    /\ late' = late \cup {n.view : n \in {m \in negs : m.view = p.view /\ m.stage # "offer"}}
    /\ sessions' = IF p.resource THEN sessions \ {p.view} ELSE sessions

CloseSingle ==
    /\ page # "away" /\ tiles[0].cam # NA
    /\ tiles' = [s \in DOMAIN tiles |-> [NoTile EXCEPT !.cam = IF s \in DOMAIN layout THEN layout[s] ELSE NA]]
    /\ opens' = Cancel(opens, {0})
    /\ live' = Closed({0})
    /\ EndPane(pane)
    /\ UNCHANGED <<page, layouting, views>>

(* createOffer and the wait for candidates; then the POST.                 *)
Offer(n) ==
    /\ n \in negs /\ n.stage = "offer"
    /\ negs' = (negs \ {n}) \cup (IF n.cancelled THEN {} ELSE {[n EXCEPT !.stage = "sent"]})
    /\ UNCHANGED <<page, layouting, playing, pane, sessions, late, views>>

GatewayAnswers(n) ==
    /\ n \in negs /\ n.stage = "sent"
    /\ \/ /\ negs' = (negs \ {n}) \cup {[n EXCEPT !.stage = "made"]}
          /\ sessions' = sessions \cup {n.view}
       \/ negs' = negs \ {n} /\ UNCHANGED sessions
    /\ UNCHANGED <<page, layouting, playing, pane, late, views>>

Answer(n) ==
    /\ n \in negs /\ n.stage = "made"
    /\ negs' = negs \ {n}
    /\ pane' = IF n.cancelled THEN pane ELSE [pane EXCEPT !.resource = TRUE]
    /\ UNCHANGED <<page, layouting, playing, sessions, late, views>>

-----------------------------------------------------------------------------
(* nav-teardown.ts: a click that leaves the section closes every player    *)
(* there is; the page itself unmounts when the router commits.             *)
CloseAllConnections ==
    LET running == {s \in DOMAIN tiles : Player(s) \in {"opening", "attached"}}
    IN  /\ page = "wall"
        /\ page' = "leaving"
        /\ tiles' = [s \in DOMAIN tiles |-> [tiles[s] EXCEPT !.player = IF s \in running THEN "closed" ELSE @]]
        /\ opens' = Cancel(opens, running)
        /\ live' = Closed(running)
        /\ UNCHANGED <<layouting, whep>>

Unmount ==
    /\ page = "leaving"
    /\ page' = "away"
    /\ tiles' = [s \in DOMAIN tiles |-> NoTile]
    /\ opens' = Cancel(opens, DOMAIN tiles)
    /\ live' = {}
    /\ EndPane(pane)
    /\ timer' = NA
    /\ UNCHANGED <<layout, saved, puts, failed, stored, edits, views>>

(* page.tsx: the stored layout, without the cameras that are gone.  The    *)
(* page is opened again when its saves have ended.                         *)
Load(l) == IF l = NA THEN DefaultLayout ELSE NormaliseLayout(l)
Tiles(l) == [s \in {0} \cup Slots |-> [NoTile EXCEPT !.cam = IF s \in DOMAIN l THEN l[s] ELSE NA]]

Enter ==
    /\ page = "away" /\ puts = <<>>
    /\ page' = "wall"
    /\ layout' = Load(stored) /\ saved' = Load(stored)
    /\ failed' = FALSE
    /\ tiles' = Tiles(Load(stored))
    /\ UNCHANGED <<timer, puts, stored, edits, opens, live, whep>>

Init ==
    /\ page = "wall"
    /\ stored \in Stored
    /\ layout = Load(stored) /\ saved = Load(stored)
    /\ timer = NA /\ puts = <<>> /\ failed = FALSE
    /\ tiles = Tiles(Load(stored))
    /\ opens = {} /\ live = {}
    /\ pane = NoPane /\ negs = {} /\ sessions = {} /\ late = {}
    /\ edits = 0 /\ views = 0

Next ==
    \/ OnPick \/ OnGrid \/ SaveLayout \/ SaveAnswered
    \/ \E s \in Slots : ScrollIn(s) \/ ScrollOut(s)
    \/ \E s \in DOMAIN tiles : LoadManifest(s)
    \/ \E w \in opens : OpenPlayer(w)
    \/ \E c \in Cameras : OpenSingle(c)
    \/ CloseSingle
    \/ \E n \in negs : Offer(n) \/ GatewayAnswers(n) \/ Answer(n)
    \/ CloseAllConnections \/ Unmount \/ Enter

Spec == Init /\ [][Next]_vars

-----------------------------------------------------------------------------
(* A connection belongs to a mounted, visible tile that shows its camera   *)
(* (use-hls-player.ts: the import may answer after the tile has gone).     *)
ConnectionsAreSeen ==
    \A k \in live : /\ page # "away"
                    /\ tiles[k.slot].cam = k.cam /\ tiles[k.slot].visible
                    /\ tiles[k.slot].player = "attached"

(* The gateway holds a session no pane owns only when the pane closed      *)
(* while its offer was with the gateway (whep-player.tsx).                 *)
SessionsAreEnded ==
    \A s \in sessions : \/ pane.view = s
                        \/ s \in late

(* However the wall is edited, resized, stored and loaded, no camera takes *)
(* two slots (layout.ts, assign): each would open a connection of its own. *)
EachCameraOnce == EachOnce(layout)

(* Every connection has a tile or a pane that is looked at, and no camera  *)
(* has two.                                                                *)
ConnectionsAreOwned == TypeOK /\ ConnectionsAreSeen /\ SessionsAreEnded /\ EachCameraOnce
=============================================================================
