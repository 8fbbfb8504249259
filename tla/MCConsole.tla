----------------------------- MODULE MCConsole -----------------------------
(***************************************************************************)
(* What officers do and see: the lifecycle of an alert, the alert queue,   *)
(* the video wall with its overlay, the registry, the trace screen and the *)
(* query console, in one run.  They share no state; "at" says which of them*)
(* takes the steps of a behaviour.                                         *)
(***************************************************************************)
EXTENDS AlertLifecycle, FiniteSets, TLC

CONSTANTS o1, o2, o3, a1, a2, w, e, NA, Row, Camera, Estate, Similar, Unreadable,
    Filters, MaxTexts, MaxAsks, Passings, Placement, Early, Queries,
    ReidEnabled, Steps, MaxSubmits, MaxSelects, MaxExports, Registered,
    Removed, Whep, Sizes, Grid, Arranged, MaxEdits, MaxOpens, Detections,
    Detected, Frames, Limit, MaxPages, Window, Lead, Margin, Tolerance,
    MaxTicks, Alerts, Ranking, Waiting, PageSize, InProcess, MaxSightings,
    MaxReads, MaxKeys, MaxDrops, CameraIds, Cells, Estates, RowLimit,
    MaxMapFeatures, MaxActs, MaxChanges

MCOfficers == {o1, o2, o3}
MCAlerts == {a1, a2}
MCRank == (a1 :> 1 @@ a2 :> 0)
MCWaiting == <<a1>>

(* Two vehicles in one frame, one of which is seen again a minute later.   *)
Seen(ts, cam, colour, plate) ==
    [ts |-> ts, cam |-> cam, colour |-> colour, plate |-> plate]
MCSightings == <<Seen(0, "cam01", "white", "P"), Seen(0, "cam02", "white", "P"),
                 Seen(1, "cam02", "red", "P2"), Seen(2, "cam02", "white", "P")>>
MCSimilar == [p \in {"P", "757508300"} |-> IF p = "P" THEN {"P", "P2"} ELSE {}]
Written(plate, colours, cams, step, limit) ==
    [plate |-> plate, colours |-> colours, cams |-> cams, step |-> step, limit |-> limit]
Plate(p, mode) == [pattern |-> p, mode |-> mode]
MCFilters ==
    {Written(Plate("P", "fuzzy"), {"white"}, {"cam01"}, [cams |-> {"cam02"}, within |-> 2], 2),
     Written(NA, {"white"}, {}, [cams |-> {"cam03"}, within |-> 1], 3),
     Written(NA, {"white"}, {"cam02"}, [cams |-> {}, within |-> 2], 3),
     Written(Plate("757508300", "exact"), {}, {}, NA, 1)}

(* Boxes of a tile: an older run, whole; then a run that detects the first *)
(* frames again.  Frame 2 holds more boxes than a page.                    *)
Box(pts, ts, track) == [pts |-> pts, ts |-> ts, track |-> track]
MCDetections == <<Box(0, 1, 11), Box(1, 1, 11), Box(1, 1, 12), Box(2, 1, 11), Box(2, 1, 12),
             Box(2, 1, 13), Box(1, 2, 21), Box(1, 2, 22), Box(2, 2, 21)>>

(* Cameras of the registry, in two cells of the map or nowhere.            *)
Standing(cell, name) == [cell |-> cell, name |-> name, deleted |-> FALSE]
MCIds == 1..4
MCEstates == {<<Standing(w, "a"), Standing(e, "b"), Standing(e, "a")>>,
              <<Standing(w, "a"), Standing(NA, "b")>>}

(* Two vehicles on three cameras, one of which has no place on the map.    *)
Passing(ts, plate, link, conf, cam) ==
    [ts |-> ts, plate |-> plate, link |-> link, conf |-> conf, camera |-> cam, session |-> 1]
MCPassings ==
    <<Passing(0, "P", "plate_exact", 2, "cam01"), Passing(1, "Q", "plate_fuzzy", 1, "cam02"),
      Passing(2, "P", "plate_fuzzy", 1, "cam02"), Passing(2, "Q", "reid_bridge", 1, "cam03")>>
MCPlacing ==
    [c \in {"cam01", "cam02", "cam03", "cam04"} |->
       [placed |-> c \in {"cam01", "cam02"}, active |-> c # "cam03"]]
Tracing(plate, purpose, floor, reid) ==
    [plate |-> plate, purpose |-> purpose, floor |-> floor, reid |-> reid]
MCTracings ==
    {Tracing("P", "fir1", 0, FALSE), Tracing("P", "fir2", 0, FALSE), Tracing("P", "", 0, FALSE),
     Tracing("Q", "fir1", 2, TRUE), Tracing("Q", "fir1", 0, TRUE)}

MCRegistered == <<"c1", "c2">>
MCLayouts == {NA, <<"c1", "gone">>}

VARIABLES
    at,     \* the component under way
    screen_table, screen_notices, screen_replays, screen_recent,
    screen_stream, screen_wire, screen_screen, screen_pending, screen_cursor,
    screen_inFlight, screen_more, screen_reads, screen_keys,
    screen_sightings, screen_asked, screen_pressed, screen_drops,
    wall_page, wall_layout, wall_saved, wall_timer, wall_puts, wall_failed,
    wall_stored, wall_tiles, wall_opens, wall_live, wall_pane, wall_negs,
    wall_sessions, wall_late, wall_edits, wall_views,
    overlay_stored, overlay_enabled, overlay_playhead, overlay_buffer,
    overlay_loads, overlay_ticks,
    registry_cameras, registry_filters, registry_shown, registry_capped,
    registry_viewport, registry_timer, registry_selected, registry_detail,
    registry_detailLoading, registry_editing, registry_queue,
    registry_failed, registry_acts, registry_changes,
    trace_stored, trace_query, trace_selected, trace_trace, trace_calls,
    trace_map, trace_audit, trace_files, trace_spent,
    query_landed, query_estate, query_text, query_purpose, query_compiled,
    query_draft, query_outcome, query_result, query_asks, query_found,
    query_audit, query_asked

screenVars ==
    <<screen_table, screen_notices, screen_replays, screen_recent,
      screen_stream, screen_wire, screen_screen, screen_pending,
      screen_cursor, screen_inFlight, screen_more, screen_reads, screen_keys,
      screen_sightings, screen_asked, screen_pressed, screen_drops>>
wallVars ==
    <<wall_page, wall_layout, wall_saved, wall_timer, wall_puts, wall_failed,
      wall_stored, wall_tiles, wall_opens, wall_live, wall_pane, wall_negs,
      wall_sessions, wall_late, wall_edits, wall_views>>
overlayVars ==
    <<overlay_stored, overlay_enabled, overlay_playhead, overlay_buffer,
      overlay_loads, overlay_ticks>>
registryVars ==
    <<registry_cameras, registry_filters, registry_shown, registry_capped,
      registry_viewport, registry_timer, registry_selected, registry_detail,
      registry_detailLoading, registry_editing, registry_queue,
      registry_failed, registry_acts, registry_changes>>
traceVars ==
    <<trace_stored, trace_query, trace_selected, trace_trace, trace_calls,
      trace_map, trace_audit, trace_files, trace_spent>>
queryVars ==
    <<query_landed, query_estate, query_text, query_purpose, query_compiled,
      query_draft, query_outcome, query_result, query_asks, query_found,
      query_audit, query_asked>>

Screen == INSTANCE AlertScreen WITH
    Alert <- Alerts, NoAlert <- NA, Rank <- Ranking, Earlier <- Waiting,
    table <- screen_table, notices <- screen_notices,
    replays <- screen_replays, recent <- screen_recent,
    stream <- screen_stream, wire <- screen_wire, screen <- screen_screen,
    pending <- screen_pending, cursor <- screen_cursor,
    inFlight <- screen_inFlight, more <- screen_more, reads <- screen_reads,
    keys <- screen_keys, sightings <- screen_sightings,
    asked <- screen_asked, pressed <- screen_pressed, drops <- screen_drops

Wall == INSTANCE VideoWall WITH
    Stored <- Arranged, page <- wall_page, layout <- wall_layout,
    saved <- wall_saved, timer <- wall_timer, puts <- wall_puts,
    failed <- wall_failed, stored <- wall_stored, tiles <- wall_tiles,
    opens <- wall_opens, live <- wall_live, pane <- wall_pane,
    negs <- wall_negs, sessions <- wall_sessions, late <- wall_late,
    edits <- wall_edits, views <- wall_views

Overlay == INSTANCE DetectionOverlay WITH
    Rows <- Detections, Before <- Detected, stored <- overlay_stored,
    enabled <- overlay_enabled, playhead <- overlay_playhead,
    buffer <- overlay_buffer, loads <- overlay_loads, ticks <- overlay_ticks

Registry == INSTANCE RegistryScreen WITH
    Ids <- CameraIds, Limit <- RowLimit, cameras <- registry_cameras, filters <- registry_filters,
    shown <- registry_shown, capped <- registry_capped,
    viewport <- registry_viewport, timer <- registry_timer,
    selected <- registry_selected, detail <- registry_detail,
    detailLoading <- registry_detailLoading, editing <- registry_editing,
    queue <- registry_queue, failed <- registry_failed,
    acts <- registry_acts, changes <- registry_changes

Trace == INSTANCE TraceScreen WITH
    Row <- Passings, Camera <- Placement, stored <- trace_stored,
    query <- trace_query, selected <- trace_selected, trace <- trace_trace,
    calls <- trace_calls, map <- trace_map, audit <- trace_audit,
    files <- trace_files, spent <- trace_spent

Query == INSTANCE QueryConsole WITH
    None <- NA, landed <- query_landed, estate <- query_estate,
    text <- query_text, purpose <- query_purpose, compiled <- query_compiled,
    draft <- query_draft, outcome <- query_outcome, result <- query_result,
    asks <- query_asks, found <- query_found, audit <- query_audit,
    asked <- query_asked

ASSUME WallConstants == Wall!WallAssumption
ASSUME ScreenConstants == Screen!ScreenAssumption
ASSUME OverlayConstants == Overlay!DetectionOverlayAssumption
ASSUME RegistryConstants == Registry!RegistryAssumption
ASSUME QueryConstants == Query!QueryAssumption
ASSUME TraceConstants == Trace!TraceScreenAssumption

consoleVars == <<at, vars, screenVars, wallVars, overlayVars, registryVars, traceVars, queryVars>>

ConsoleInit ==
    /\ at \in {"alert", "screen", "wall", "overlay", "registry", "trace", "query"}
    /\ Init
    /\ Screen!Init
    /\ wall_stored \in IF at = "wall" THEN Arranged ELSE {CHOOSE x \in Arranged : TRUE}
    /\ Wall!Init
    /\ Overlay!Init
    /\ registry_cameras \in IF at = "registry" THEN Estates ELSE {CHOOSE x \in Estates : TRUE}
    /\ Registry!Init
    /\ Trace!Init
    /\ Query!Init

ConsoleNext ==
    /\ UNCHANGED at
    /\ \/ /\ at = "alert" /\ Next
          /\ UNCHANGED <<screenVars, wallVars, overlayVars, registryVars,
                          traceVars, queryVars>>
       \/ /\ at = "screen" /\ Screen!Next
          /\ UNCHANGED <<vars, wallVars, overlayVars, registryVars,
                          traceVars, queryVars>>
       \/ /\ at = "wall" /\ Wall!Next
          /\ UNCHANGED <<vars, screenVars, overlayVars, registryVars,
                          traceVars, queryVars>>
       \/ /\ at = "overlay" /\ Overlay!Next
          /\ UNCHANGED <<vars, screenVars, wallVars, registryVars,
                          traceVars, queryVars>>
       \/ /\ at = "registry" /\ Registry!Next
          /\ UNCHANGED <<vars, screenVars, wallVars, overlayVars, traceVars,
                          queryVars>>
       \/ /\ at = "trace" /\ Trace!Next
          /\ UNCHANGED <<vars, screenVars, wallVars, overlayVars,
                          registryVars, queryVars>>
       \/ /\ at = "query" /\ Query!Next
          /\ UNCHANGED <<vars, screenVars, wallVars, overlayVars,
                          registryVars, traceVars>>

ConsoleSpec == ConsoleInit /\ [][ConsoleNext]_consoleVars

-----------------------------------------------------------------------------
(* No row of the queue moves under the cursor, none is shown twice, none   *)
(* is pinned without an answer to come.                                    *)
QueueIsCalm == Screen!QueueIsCalm

(* Every connection has a mounted, visible tile or a pane that is looked   *)
(* at, and no camera has two slots.                                        *)
ConnectionsAreOwned == at = "wall" => Wall!ConnectionsAreOwned

(* The boxes drawn over a frame are those of one run, and all of them.     *)
BoxesAreTheFrames == at = "overlay" => Overlay!BoxesAreTheFrames

(* A settled registry shows the rows of its filters, each camera once,     *)
(* and in the drawer the one selected.                                     *)
ScreenIsCurrent == at = "registry" => Registry!ScreenIsCurrent

(* Every trace shown or downloaded is in the audit chain under its         *)
(* purpose, at rest it is that of the address bar, and the map draws no    *)
(* third one.                                                              *)
TraceIsAccountedFor == at = "trace" => Trace!TraceIsAccountedFor

(* An answer on screen is in the audit chain, its journeys moved, and its  *)
(* emptiness has the right reason.                                         *)
AnswersAreDefensible == at = "query" => Query!AnswersAreDefensible
=============================================================================
