----------------------------- MODULE MCRecords -----------------------------
(***************************************************************************)
(* What leaves the system as a record: export bundles, preservation        *)
(* requests, the bulk export, traces with their routes, the gap report and *)
(* what is printed, in one run.  They share no state; "at" says which of   *)
(* them takes the steps of a behaviour.                                    *)
(***************************************************************************)
EXTENDS ExportBundle, Integers, FiniteSets, TLC

CONSTANTS b1, b2, s1, c1, c2, o1, k1, k2, u1, u2, r1, r2, r3, east, west, nowhere,
    NA,
    \* of preservation
    Department, Officer, Days, DayHours, SoonHours, Hours, MaxChanges, MaxNotices,
    \* of the gap report
    Camera, Runner, Spot, Ways, Junction, Place, Nowhere, Disc, Estates, ListMax, MaxEdits,
    \* of traces
    Shot, Early, Strength, Drive, Alike, Registration, Metric, Policy, Asks, Requests, Limit

(* Two exports of one case.                                                *)
MCCaseRef == {"FIR-1"}
MCSlug == [c \in MCCaseRef |-> "FIR-1"]
MCSightings == <<s1>>

(* Texts a registry may hold, and that a CSV must quote.                   *)
MCTexts == {<<"x">>, <<"q", ",">>, <<"x", "r", "n", "x">>}

(* Two cameras of one department.                                          *)
MCDepartment == [c \in {c1, c2} |-> "police"]

(* P is read at a and b in turn, faster than the road allows; 5 is a weak  *)
(* read of a neighbour; 3 is not read until later.                         *)
Seen(ts, cam, track, plate, ocr) ==
    [ts |-> ts, camera |-> cam, track |-> track, plate |-> plate, ocr |-> ocr,
     best |-> TRUE]
TheShot == <<Seen(0, "a", 1, "P", 80), Seen(144, "b", 2, "P", 80), Seen(200, "b", 3, "P2", 70),
            Seen(3000, "a", 4, "P", 90), Seen(3100, "b", 5, "P", 80), Seen(3100, "b", 6, "P2", 40)>>
MCEarly == {1, 2, 4, 5}
TheStrength == [P |-> [P |-> 100, P2 |-> 80]]
TheDrive == [x \in {<<"a", "b">>} |-> [time |-> 190, metres |-> 150]]
TheMetric == [x \in {"P", "P2"} \X {"P", "P2"} |-> [distance |-> 1000, tail |-> 0]]
TheAlike == {<<2, 3>>, <<5, 6>>}
Ask(kind, floor, reid, refresh) ==
    [kind |-> kind, plate |-> "P", floor |-> floor, reid |-> reid, refresh |-> refresh]
TheAsks == {Ask("bridge", 0, FALSE, FALSE), Ask("route", 0, TRUE, FALSE),
           Ask("route", 50, FALSE, FALSE), Ask("route", 0, TRUE, TRUE)}
ThePolicy == [minElapsed |-> 50, maxKmh |-> 140, tolerance |-> 135, highOcr |-> 75, lowOcr |-> 60,
             neighbour |-> 2000, dominance |-> 50, minLink |-> 60, repeats |-> 2, dwell |-> 3000, bridged |-> 30]

(* Two cameras, two places on a road of four spots and two ways.           *)
MCSpot == 1..4
TheWays == {{1, 2}, {3, 4}}
MCJunction == {2, 4}
TheDisc ==
    [p \in {east, west} |-> [class \in {"anpr_viable", "detection_only", "unclassified"} |->
        IF class = "detection_only" THEN (IF p = west THEN {1, 2} ELSE {2, 3})
        ELSE (IF p = west THEN {1} ELSE {3})]]
CameraRow(p, k, b, n) ==
    [live |-> TRUE, place |-> p, class |-> k, band |-> b, blind |-> n]
MCFirst == {CameraRow(west, k, "trusted", FALSE) : k \in {"anpr_viable", "detection_only"}}
MCSecond == {CameraRow(p, "anpr_viable", b, n) :
               p \in {east, nowhere}, b \in {"trusted", "dead"}, n \in BOOLEAN}
            \ ({CameraRow(p, "anpr_viable", "dead", TRUE) : p \in {east, nowhere}}
               \union {CameraRow(nowhere, "anpr_viable", "dead", FALSE)})
MCUnprobed == [c \in {k1, k2} |->
                  CameraRow(IF c = k1 THEN west ELSE nowhere, "anpr_viable", "never", FALSE)]
MCUnplaced == [c \in {k1, k2} |-> CameraRow(nowhere, "anpr_viable", "trusted", FALSE)]
MCEstates == {[c \in {k1, k2} |-> IF c = k1 THEN x ELSE y] :
                 x \in MCFirst, y \in MCSecond} \union {MCUnprobed, MCUnplaced}

(* Short pages: every class of line, tables that outgrow a page, an image  *)
(* the caller lacks and one that is no JPEG, headings of every level.      *)
Source(is, tall) == [is |-> is, tall |-> tall, indented |-> FALSE]
Image(src, high) == Source("image", 1) @@ [src |-> src, high |-> high, alt |-> TRUE]
MCLines == {Source(k, 1) : k \in {"blank", "fence", "hr", "divider", "section"}}
           \union {Source(k, 2) : k \in {"row", "h1", "ul", "quote"}}
           \union {Source("text", 4), [Source("ol", 1) EXCEPT !.indented = TRUE],
                   Image("sky", 40), Image("torn", 90), Image("lost", 10)}
MCDocs == UNION {[1..n -> MCLines] : n \in 1..3}
          \union {<<Source("row", 2), Source("divider", 1)>> \o [k \in 1..n |-> Source("row", 2)] :
                     n \in 1..5}
          \union {<<Source("h2", 1), Source("h3", 2), Source("text", n), Source("h4", 2)>> : n \in 1..4}
MCPictures == ("sky" :> "good") @@ ("torn" :> "corrupt") @@ ("spare" :> "good")
MCResults == [y : {70, 110}, rows : {0, 1, 4}]
MCFeeds == [missing : {0, 6}, reads : UNION {[1..n -> {"none", "good", "corrupt"}] : n \in 0..3}]

(* Reports of the gap analysis: little to say, and tables and paragraphs   *)
(* that break the pages at many places.                                    *)
MCGaps == [delta : {1, 4}, worst : {0, 12, 25}, districts : {0, 9, 33}, spare : {0, 1}]

(* TLC evaluates a table once that is reached by its name, and a value     *)
(* given in the configuration at every use.                                *)
MCShot == TheShot
MCStrength == TheStrength
MCDrive == TheDrive
MCMetric == TheMetric
MCPolicy == ThePolicy
MCDisc == TheDisc
MCWays == TheWays
MCAsks == TheAsks
MCAlike == TheAlike

RecordsSymmetry == Permutations({u1, u2})

VARIABLES
    at,     \* the component under way
    keep_clock, keep_camera, keep_edits, keep_requests, keep_entries,
    keep_tx, keep_answer, keep_still,
    bulk_cameras, bulk_file, bulk_report, bulk_steps,
    trace_detected, trace_read, trace_links, trace_routes, trace_reqs,
    gap_registry, gap_table, gap_run, gap_report, gap_edits,
    pdf_paper, pdf_todo, pdf_pages, pdf_y, pdf_images, pdf_file

keepVars ==
    <<keep_clock, keep_camera, keep_edits, keep_requests, keep_entries,
      keep_tx, keep_answer, keep_still>>
bulkVars ==
    <<bulk_cameras, bulk_file, bulk_report, bulk_steps>>
traceVars ==
    <<trace_detected, trace_read, trace_links, trace_routes, trace_reqs>>
gapVars ==
    <<gap_registry, gap_table, gap_run, gap_report, gap_edits>>
pdfVars ==
    <<pdf_paper, pdf_todo, pdf_pages, pdf_y, pdf_images, pdf_file>>

Keep == INSTANCE Preservation WITH
    Camera <- DOMAIN Department, Undeclared <- NA,
    MaxClock <- Hours, MaxEdits <- MaxChanges, MaxRequests <- MaxNotices,
    clock <- keep_clock, camera <- keep_camera, edits <- keep_edits,
    requests <- keep_requests, entries <- keep_entries, tx <- keep_tx,
    answer <- keep_answer, still <- keep_still

Bulk == INSTANCE BulkImport WITH
    Keys <- {<<"1">>, <<"2">>}, Texts <- MCTexts, MaxSteps <- 4, NA <- NA,
    cameras <- bulk_cameras, file <- bulk_file, report <- bulk_report,
    steps <- bulk_steps

Trace == INSTANCE TraceRoute WITH
    detected <- trace_detected, read <- trace_read, links <- trace_links,
    routes <- trace_routes, reqs <- trace_reqs

Gap == INSTANCE CoverageReport WITH
    registry <- gap_registry, table <- gap_table, run <- gap_run,
    report <- gap_report, edits <- gap_edits

Pdf == INSTANCE PdfPages WITH
    Top <- 162, Bottom <- 62, Margin <- 36, Docs <- MCDocs,
    Pictures <- MCPictures, Results <- MCResults, Feeds <- MCFeeds,
    GapTop <- 798, GapMargin <- 44, Gaps <- MCGaps, NA <- NA,
    paper <- pdf_paper, todo <- pdf_todo, pages <- pdf_pages, y <- pdf_y,
    images <- pdf_images, file <- pdf_file

ASSUME KeepConstants == Keep!PeriodAssumption /\ Keep!BoundsAssumption
ASSUME GapConstants == Gap!CoverageReportAssumption
ASSUME TraceConstants == Trace!TraceAssumption
ASSUME PdfConstants == Pdf!PdfPagesAssumption

(* A registry in which no camera has a declared period.                    *)
Unasked == [DOMAIN Department -> [days : {NA}, place : Keep!Where, deleted : {FALSE}]]

recordsVars == <<at, vars, keepVars, bulkVars, traceVars, gapVars, pdfVars>>

RecordsInit ==
    /\ at \in {"export", "keep", "bulk", "trace", "gap", "pdf"}
    /\ Init
    /\ keep_camera \in IF at = "keep" THEN Unasked ELSE {CHOOSE x \in Unasked : TRUE}
    /\ Keep!Init
    /\ Bulk!Init
    /\ Trace!Init
    /\ gap_registry \in IF at = "gap" THEN Estates ELSE {CHOOSE x \in Estates : TRUE}
    /\ Gap!Init
    /\ Pdf!Init

RecordsNext ==
    /\ UNCHANGED at
    /\ \/ /\ at = "export" /\ Next
          /\ UNCHANGED <<keepVars, bulkVars, traceVars, gapVars, pdfVars>>
       \/ /\ at = "keep" /\ Keep!Next
          /\ UNCHANGED <<vars, bulkVars, traceVars, gapVars, pdfVars>>
       \/ /\ at = "bulk" /\ Bulk!Next
          /\ UNCHANGED <<vars, keepVars, traceVars, gapVars, pdfVars>>
       \/ /\ at = "trace" /\ Trace!Next
          /\ UNCHANGED <<vars, keepVars, bulkVars, gapVars, pdfVars>>
       \/ /\ at = "gap" /\ Gap!Next
          /\ UNCHANGED <<vars, keepVars, bulkVars, traceVars, pdfVars>>
       \/ /\ at = "pdf" /\ Pdf!Next
          /\ UNCHANGED <<vars, keepVars, bulkVars, traceVars, gapVars>>

RecordsSpec == RecordsInit /\ [][RecordsNext]_recordsVars

-----------------------------------------------------------------------------
(* Each preservation request has exactly one audit entry, each camera      *)
(* that stood still is in the right list of an answer, and only a          *)
(* declaration makes a request less urgent.                                *)
NothingIsUnaccounted == Keep!NothingIsUnaccounted

(* Importing the registry's own export changes no exported column.         *)
SheetsAreSound == Bulk!SheetsAreSound

(* What a trace and its route show rests on the sightings they hold.       *)
AnswerHoldsUp == at = "trace" => Trace!AnswerHoldsUp

(* A printed document shows its source once and in order, rows under       *)
(* their headers, and its references resolve.                              *)
DocumentIsWhole == at = "pdf" => Pdf!DocumentIsWhole

(* The parts of a report nobody disturbed agree, and the coverage table    *)
(* is whole.                                                               *)
UndisturbedRunsAreExact == at = "gap" => Gap!UndisturbedRunsAreExact

(* Three requests of one trace by themselves, every sighting read already. *)
CacheTrace == INSTANCE TraceRoute WITH
    Early <- DOMAIN Shot, Requests <- Requests \union {r3}, detected <- trace_detected,
    read <- trace_read, links <- trace_links, routes <- trace_routes, reqs <- trace_reqs

CacheInit ==
    /\ at = "trace"
    /\ Init /\ Bulk!Init /\ CacheTrace!Init /\ Pdf!Init
    /\ keep_camera = CHOOSE x \in Unasked : TRUE
    /\ Keep!Init
    /\ gap_registry = (CHOOSE x \in Estates : TRUE) /\ Gap!Init
CacheNext ==
    CacheTrace!Next /\ UNCHANGED <<at, vars, keepVars, bulkVars, gapVars, pdfVars>>
CacheSpec == CacheInit /\ [][CacheNext]_recordsVars

(* A cached route that is served has its segments (readCache).             *)
ServedRouteIsWhole == CacheTrace!ServedRouteIsWhole
=============================================================================
