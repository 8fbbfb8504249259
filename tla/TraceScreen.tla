----------------------------- MODULE TraceScreen -----------------------------
(***************************************************************************)
(* The trace screen (web/app/(shell)/trace), its export route and the      *)
(* endpoint behind both (api/src/routes/trace.ts, services/trace-export).  *)
(* The query is the URL; an answer is several statements, one of them the  *)
(* audit entry; the map has a style to load before it can draw anything.   *)
(***************************************************************************)
EXTENDS Integers, Sequences, FiniteSets

CONSTANTS
    Row,         \* sightings by time: [ts, plate, link, conf, camera, session]
    Early,       \* how many of them are stored before anyone asks
    Camera,      \* the registry: camera -> [placed, active]
    Queries,     \* [plate, purpose, floor, reid]
    ReidEnabled, \* the deployment's veto
    Steps,       \* of the scrubber
    MaxSubmits, MaxSelects, MaxExports,
    NA

Formats == {"csv", "pdf"}
Callers == Formats \union {"screen"}
Causes == {"no_matching_plate", "below_min_confidence", "no_sightings_in_window"}

Segments == {"observed_dwell", "inferred_revisit", "inferred_path", "inferred_unroutable"}

(* A request under way, and the answer it becomes.                         *)
Call ==
    [pc : {"search", "hydrate", "audit", "route", "answer"}, query : Queries,
     rows : Seq(1..Len(Row)), dropped : Nat, empty : Causes \union {NA},
     coverage : [analysed : SUBSET DOMAIN Camera, not : SUBSET DOMAIN Camera] \union {NA},
     route : Seq(Segments) \union {NA}]
Asked(q) ==
    [pc |-> "search", query |-> q, rows |-> <<>>, dropped |-> 0, empty |-> NA,
     coverage |-> NA, route |-> NA]

TraceScreenAssumption ==
    /\ Len(Row) \in Nat \ {0} /\ Early \in 0..Len(Row)
    /\ \A i \in 1..Len(Row) : Row[i].ts \in Int /\ Row[i].conf \in Int
    /\ \A i, j \in 1..Len(Row) : i < j => Row[i].ts <= Row[j].ts
    /\ \A q \in Queries : q.floor \in Int
    /\ Steps \in Nat \ {0}
    /\ NA \notin Call \union Queries \union Causes \union Nat

VARIABLES
    stored,   \* how many rows are in
    query,    \* the URL without seq; NA until the page is rendered
    selected, \* seq
    trace,    \* the answer on screen
    calls,    \* per caller: NA, or the request under way
    map,      \* NA while no map is mounted
    audit,    \* entries of the chain
    files,    \* what was downloaded
    spent

vars == <<stored, query, selected, trace, calls, map, audit, files, spent>>

TypeOK ==
    /\ stored \in Early..Len(Row) /\ query \in Queries \union {NA}
    /\ selected \in 1..Len(Row) \union {NA}
    /\ trace \in Call \union {NA} /\ calls \in [Callers -> Call \union {NA}]

-----------------------------------------------------------------------------
(* What the service reads.                                                 *)
Stated(q) == q.plate # "" /\ q.purpose # ""
Reid(q) == q.reid /\ ReidEnabled
Reads(q) == {i \in 1..stored : Row[i].plate = q.plate /\ Row[i].link # "reid_bridge"}
InWindow(q) == {i \in 1..stored : Row[i].plate = q.plate /\ (Row[i].link = "reid_bridge" => Reid(q))}
ByTime(S) ==
    [k \in 1..Cardinality(S) |-> CHOOSE i \in S : Cardinality({j \in S : j < i}) = k - 1]

Analysed == {c \in DOMAIN Camera : \E i \in 1..stored : Row[i].camera = c}
CameraCoverage ==
    [analysed |-> Analysed, not |-> {c \in DOMAIN Camera \ Analysed : Camera[c].active}]

(* Segments of a route: what a camera watched, a road path the router      *)
(* gave, or nothing that can be drawn.                                     *)
Kind(a, b, answered) ==
    CASE Row[a].camera = Row[b].camera /\ Row[a].session = Row[b].session -> "observed_dwell"
      [] Row[a].camera = Row[b].camera /\ Row[a].session # Row[b].session -> "inferred_revisit"
      [] OTHER -> IF answered THEN "inferred_path" ELSE "inferred_unroutable"
Routable(rows, i) ==
    /\ Row[rows[i]].camera # Row[rows[i + 1]].camera
    /\ Camera[Row[rows[i]].camera].placed /\ Camera[Row[rows[i + 1]].camera].placed

-----------------------------------------------------------------------------
(* The request: matcher and camera probe; hydration; the audit entry; the  *)
(* route, for the screen only; the answer.                                 *)
Step(c, call) == calls' = [calls EXCEPT ![c] = call]
At(c, pc) == calls[c] # NA /\ calls[c].pc = pc
Screen == <<query, selected, trace, map>>

Search(c) ==
    /\ At(c, "search")
    /\ LET q == calls[c].query
           clear == {i \in Reads(q) : Row[i].conf >= q.floor}
           none == IF Reads(q) = {} THEN "no_matching_plate" ELSE "below_min_confidence"
       IN  Step(c, [calls[c] EXCEPT !.pc = IF clear = {} THEN "audit" ELSE "hydrate",
                                    !.empty = IF clear = {} THEN none ELSE NA,
                                    !.coverage = CameraCoverage])
    /\ UNCHANGED <<stored, Screen, audit, files, spent>>

Hydrate(c) ==
    /\ At(c, "hydrate")
    /\ LET q == calls[c].query
           rows == {i \in InWindow(q) : Row[i].conf >= q.floor}
           dropped == Cardinality(InWindow(q) \ rows)
           why == IF dropped > 0 THEN "below_min_confidence" ELSE "no_sightings_in_window"
       IN  Step(c, [calls[c] EXCEPT !.pc = "audit", !.rows = ByTime(rows), !.dropped = dropped,
                                    !.empty = IF rows = {} THEN why ELSE NA])
    /\ UNCHANGED <<stored, Screen, audit, files, spent>>

Entry(c, call) ==
    [action |-> c, query |-> call.query, applied |-> Reid(call.query), count |-> Len(call.rows)]
Audited(c) ==
    IF c = "screen" /\ Len(calls[c].rows) >= 2 THEN "route" ELSE "answer"
WriteAudit(c) ==
    /\ At(c, "audit")
    /\ audit' = audit \union {Entry(c, calls[c])}
    /\ Step(c, [calls[c] EXCEPT !.pc = Audited(c)])
    /\ UNCHANGED <<stored, Screen, files, spent>>

Reconstruct(c) ==
    /\ At(c, "route")
    /\ LET rows == calls[c].rows
           hops == 1..Len(rows) - 1
       IN  \E answered \in SUBSET {i \in hops : Routable(rows, i)} :
             Step(c, [calls[c] EXCEPT !.pc = "answer",
                        !.route = [i \in hops |-> Kind(rows[i], rows[i + 1], i \in answered)]])
    /\ UNCHANGED <<stored, Screen, audit, files, spent>>

-----------------------------------------------------------------------------
(* What is drawn of an answer.                                             *)
Pins(t) == {i \in DOMAIN t.rows : Camera[Row[t.rows[i]].camera].placed}
Lines(t) == IF t.route = NA THEN {} ELSE {i \in DOMAIN t.route : t.route[i] = "inferred_path"}
Rings(t) == IF t.route = NA THEN {} ELSE {i \in DOMAIN t.route : t.route[i] = "observed_dwell"}
Geometry(t) ==
    [pins |-> {<<i, t.rows[i]>> : i \in Pins(t)}, lines |-> Lines(t),
     path |-> IF Lines(t) = {} /\ Cardinality(Pins(t)) >= 2 THEN Pins(t) ELSE {}]
Undrawn(t) == IF t.route = NA THEN {} ELSE DOMAIN t.route \ Lines(t)

(* TraceMap with a new answer: mounted where there is a pin to draw.  The  *)
(* data effect draws at once on a loaded map and does nothing before.      *)
Blank(t) == [loaded |-> FALSE, mounted |-> t, drawn |-> NA, rings |-> {}, halo |-> NA]
Halo(m, seq) == IF m.loaded THEN [m EXCEPT !.halo = seq] ELSE m
Drawn(m, t) == IF m.loaded THEN [m EXCEPT !.drawn = t, !.rings = Rings(t)] ELSE m
Remap(t) ==
    IF t = NA THEN NA
    ELSE IF Pins(t) = {} THEN NA
    ELSE IF map = NA THEN Blank(t) ELSE Halo(Drawn(map, t), selected)

(* A screen rendered again, with another selection.  An answer without a   *)
(* route hands the map a new empty list each time, so its data effect runs *)
(* too.                                                                    *)
Rerender(seq) ==
    map' = IF map = NA THEN NA
           ELSE Halo(IF trace.route = NA THEN Drawn(map, trace) ELSE map, seq)
Select(seq) ==
    /\ spent.selects < MaxSelects
    /\ selected' = seq
    /\ Rerender(seq)
    /\ spent' = [spent EXCEPT !.selects = @ + 1]
    /\ UNCHANGED <<stored, query, trace, calls, audit, files>>

(* A row of the table or a tile of the strip toggles; the tray chooses a   *)
(* row; a click on the map chooses a pin, or nothing.                      *)
SelectRow == \E seq \in DOMAIN trace.rows : Select(IF seq = selected THEN NA ELSE seq)
SelectPin ==
    /\ map # NA /\ map.drawn # NA
    /\ \E seq \in Pins(map.drawn) \union {NA} : Select(seq)

(* The scrubber walks time: a step selects the last sighting at or before  *)
(* it, or goes by position when all of them share one instant.             *)
Ts(t, i) == Row[t.rows[i]].ts
SeqAt(t, step) ==
    LET n == Len(t.rows)
        span == Ts(t, n) - Ts(t, 1)
        passed == {i \in 1..n : (Ts(t, i) - Ts(t, 1)) * Steps <= step * span}
        index == 1 + (step * n) \div Steps
    IN  IF span = 0 THEN (IF index > n THEN n ELSE index)
        ELSE CHOOSE i \in passed : \A j \in passed : j <= i
Scrub == \E step \in 0..Steps : Select(SeqAt(trace, step))

(* The style has loaded.  The sources take the current data, then the      *)
(* handler applies and frames what it closed over when the map was built.  *)
Loaded(m) ==
    [m EXCEPT !.loaded = TRUE, !.drawn = m.mounted, !.rings = Rings(trace)]

Load ==
    /\ map # NA /\ ~map.loaded
    /\ map' = Loaded(map)
    /\ UNCHANGED <<stored, query, selected, trace, calls, audit, files, spent>>

-----------------------------------------------------------------------------
(* The screen shows what the call returned, the file what its own did: a   *)
(* line per sighting, links that are not exact set apart, and the cameras  *)
(* the answer could have come from.                                        *)
Sheet(c, t) ==
    LET lines == [i \in DOMAIN t.rows |->
                    [seq |-> i, row |-> t.rows[i], tinted |-> Row[t.rows[i]].link # "plate_exact"]]
    IN  IF c = "csv" THEN Append(lines, t.coverage) ELSE <<t.coverage>> \o lines
Show(t) ==
    /\ trace' = t
    /\ map' = Remap(t)

Answer(c) ==
    /\ At(c, "answer")
    /\ Step(c, NA)
    /\ \/ /\ c = "screen" /\ Show([calls[c] EXCEPT !.pc = "answer"])
          /\ query' = calls[c].query
          /\ UNCHANGED <<selected, files>>
       \/ /\ c # "screen" /\ files' = files \union {[of |-> calls[c], format |-> c, sheet |-> Sheet(c, calls[c])]}
          /\ UNCHANGED Screen
    /\ UNCHANGED <<stored, audit, spent>>

(* A session that expired, a statement that failed, an API that is away.   *)
Fail(c) ==
    /\ calls[c] # NA
    /\ Step(c, NA)
    /\ \/ /\ c = "screen" /\ Show(NA) /\ query' = calls[c].query /\ UNCHANGED selected
       \/ c # "screen" /\ UNCHANGED Screen
    /\ UNCHANGED <<stored, audit, files, spent>>

(* The form: disabled while an answer is awaited and without a purpose.    *)
(* The effect that runs the trace watches the fields of the query.         *)
(* Mutant of Reruns: the stated purpose is not among the fields.           *)
RerunsForVehicle(old, new) == [old EXCEPT !.purpose = new.purpose] # new

Reruns(old, new) == old # new

Submit ==
    /\ query # NA /\ calls["screen"] = NA /\ spent.submits < MaxSubmits
    /\ \E q \in {x \in Queries : x.purpose # ""} :
         /\ query' = q /\ selected' = NA
         /\ IF Reruns(query, q)
            THEN IF Stated(q)
                 THEN Step("screen", Asked(q)) /\ UNCHANGED trace /\ Rerender(NA)
                 ELSE UNCHANGED calls /\ Show(NA)
            ELSE UNCHANGED <<calls, trace>> /\ Rerender(NA)
    /\ spent' = [spent EXCEPT !.submits = @ + 1]
    /\ UNCHANGED <<stored, audit, files>>

(* The links under a result: they carry the query of the address bar.      *)
Export(c) ==
    /\ query # NA /\ trace # NA /\ query.plate # "" /\ trace.rows # <<>>
    /\ calls[c] = NA /\ spent.exports < MaxExports
    /\ Stated(query)
    /\ Step(c, Asked(query))
    /\ spent' = [spent EXCEPT !.exports = @ + 1]
    /\ UNCHANGED <<stored, Screen, audit, files>>

Store ==
    /\ stored < Len(Row) /\ stored' = stored + 1
    /\ UNCHANGED <<Screen, calls, audit, files, spent>>

(* The page: a link is opened, and the first trace runs before it paints.  *)
Open ==
    /\ query = NA /\ calls["screen"] = NA
    /\ \E q \in Queries :
         IF Stated(q) THEN Step("screen", Asked(q)) /\ UNCHANGED query
         ELSE query' = q /\ UNCHANGED calls
    /\ selected' \in {NA, 1}
    /\ UNCHANGED <<stored, trace, map, audit, files, spent>>

Init ==
    /\ stored = Early /\ query = NA /\ selected = NA /\ trace = NA /\ map = NA
    /\ calls = [c \in Callers |-> NA] /\ audit = {} /\ files = {}
    /\ spent = [submits |-> 0, selects |-> 0, exports |-> 0]

Next ==
    \/ Open \/ Submit \/ (trace # NA /\ trace.rows # <<>> /\ (SelectRow \/ SelectPin \/ Scrub)) \/ Load \/ Store
    \/ \E c \in Formats : Export(c)
    \/ \E c \in Callers :
         Search(c) \/ Hydrate(c) \/ WriteAudit(c) \/ Reconstruct(c) \/ Answer(c) \/ Fail(c)

Spec == Init /\ [][Next]_vars

-----------------------------------------------------------------------------
(* Whatever is on screen or was downloaded is in the audit chain, under    *)
(* the purpose it was asked for and with the number of rows it has; at     *)
(* rest the screen shows the trace of the query in the address bar.        *)
Recorded(c, t) == Entry(c, t) \in audit
AnswersAreRecorded ==
    /\ trace # NA => Recorded("screen", trace)
    /\ \A f \in files : Recorded(f.format, f.of) /\ Len(f.sheet) = Len(f.of.rows) + 1
    /\ trace # NA /\ calls["screen"] = NA => trace.query = query

(* An empty answer has a reason and a full one has none, and a reason that *)
(* blames the floor is never given for a plate nobody read.                *)
EmptinessIsExplained ==
    \A t \in {f.of : f \in files} \union (IF trace = NA THEN {} ELSE {trace}) :
      /\ (t.rows = <<>>) = (t.empty # NA)
      /\ t.empty = "below_min_confidence" =>
           \E i \in 1..stored : Row[i].plate = t.query.plate /\ Row[i].conf < t.query.floor

(* The map never shows a third trace: what it draws is the answer in the   *)
(* table or the one it was built with, and every segment of a route is a   *)
(* line, or named as not drawn.                                            *)
MapIsOfTheVehicle ==
    /\ map # NA /\ map.loaded => map.drawn \in {trace, map.mounted}
    /\ trace # NA => Lines(trace) \union Undrawn(trace) =
                       (IF trace.route = NA THEN {} ELSE DOMAIN trace.route)

TraceIsAccountedFor ==
    TypeOK /\ AnswersAreRecorded /\ EmptinessIsExplained /\ MapIsOfTheVehicle
=============================================================================
