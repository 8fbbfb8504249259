----------------------------- MODULE MCWorker -----------------------------
(***************************************************************************)
(* What turns streams into rows: the plate grammar and search, the         *)
(* watchlist, the capture worker and its runs, the evidence consumer, the  *)
(* catalogue sync, the camera adapters, the metrics and the trust loop.    *)
(* They share no state; "at" says which of them takes the steps.           *)
(***************************************************************************)
EXTENDS Watchlist, Sequences, TLC

CONSTANTS c1, c2, e1, p1, p2, j1, j2, s1, s2, a1, a2, health, unassigned, unlisted,
    NA,
    \* of the capture worker and its runs
    TrackerId, Stride, Pts, IdleFlush, MaxTracks, Sharpness, TopN, MaxExamine, StaleAfter,
    MaxOffers, MaxSessions, MaxAttempts,
    Sources, Pools, MaxErrors, MaxFrames, MaxFails,
    \* of the adapters, the metrics and the trust loop
    Callers, Scrapers, Cameras, Reports, Statements, Streams, Ttl, BaselineTtl, MaxTime, Changes,
    Probers, Recomputes, Outcomes, Weights

(* The alphabet and the tables of grammar.ts and plate-confusions.json.    *)
MCLetter == {"A", "B", "C", "D", "E", "F", "G", "H", "I", "J", "K", "L", "M",
             "N", "O", "P", "Q", "R", "S", "T", "U", "V", "W", "X", "Y", "Z"}
MCDigit == {"0", "1", "2", "3", "4", "5", "6", "7", "8", "9"}

(* The state codes the plates of the runs can be taken for. *)
MCStateCode == {<<"G", "J">>, <<"G", "A">>, <<"T", "S">>, <<"R", "J">>, <<"O", "D">>, <<"D", "D">>, <<"D", "L">>}

MCAlphaToDigit ==
    [O |-> "0", D |-> "0", Q |-> "0", I |-> "1", L |-> "1", Z |-> "2", A |-> "4",
     S |-> "5", G |-> "6", T |-> "7", B |-> "8"]
MCDigitToAlpha ==
    [c \in {"0", "1", "2", "4", "5", "6", "7", "8"} |->
       CASE c = "0" -> "O" [] c = "1" -> "I" [] c = "2" -> "Z" [] c = "4" -> "A"
         [] c = "5" -> "S" [] c = "6" -> "G" [] c = "7" -> "T" [] c = "8" -> "B"]

MCMeasured == {<<"C", "F">>, <<"D", "B">>, <<"E", "F">>, <<"0", "D">>}
MCDerived ==
    {<<"C", "E">>, <<"O", "D">>, <<"O", "Q">>, <<"D", "Q">>, <<"I", "L">>, <<"G", "B">>,
     <<"0", "O">>, <<"0", "Q">>, <<"1", "I">>, <<"1", "L">>, <<"2", "Z">>, <<"4", "A">>,
     <<"5", "S">>, <<"6", "G">>, <<"9", "G">>, <<"7", "T">>, <<"8", "B">>, <<"6", "B">>}

GJ35U0779 == <<"G", "J", "3", "5", "U", "0", "7", "7", "9">>
GJ01AB1234 == <<"G", "J", "0", "1", "A", "B", "1", "2", "3", "4">>
BH22 == <<"2", "2", "B", "H", "1", "2", "3", "4", "A", "A">>
DL1CAA1234 == <<"D", "L", "1", "C", "A", "A", "1", "2", "3", "4">>
Military06 == <<"0", "6", "B", "1", "2", "3", "4", "5", "6", "A">>
GJ011234 == <<"G", "J", "0", "1", "1", "2", "3", "4">>

(* The registrations in front of the camera, and entries of the watchlist: *)
(* one under its own plate, one under a short one.                         *)
MCRegistrations == {GJ35U0779, GJ01AB1234, BH22, DL1CAA1234, GJ011234}
Entry(p, s, k, a) == [plate |-> p, system |-> s, key |-> k, active |-> a]
Short == SubSeq(GJ35U0779, 1, 7)
MCSeed == {Entry(GJ35U0779, "eGujCop", "r1", TRUE), Entry(Short, "VAHAN", "r2", TRUE)}
MCRows == MCSeed \union {Entry(Short, "eGujCop", "r1", FALSE),
                         Entry(GJ35U0779, "VAHAN", "none", TRUE)}
MCQueries == {GJ35U0779, Short}
MCSeverity == [i \in 1..4 |-> i % 2]

(* Catalogues: nothing; one camera without, then with an address; the      *)
(* other renamed beside it.                                                *)
Two == {c1, c2}
MCCatalogues ==
    {[e \in Two |-> unlisted],
     [e \in Two |-> IF e = c1 THEN [name |-> 1, address |-> NA] ELSE unlisted],
     [e \in Two |-> IF e = c1 THEN [name |-> 1, address |-> 1]
                              ELSE [name |-> 2, address |-> NA]]}

(* A good camera, a blind and drifting one, one that timed out.            *)
Outcome(con, dec, retry, vod, focus, light, tamper, fps, drift) ==
    [connectable |-> con, decodable |-> dec, retryable |-> retry, vod |-> vod,
     quality |-> [focus |-> focus, light |-> light, tamper |-> tamper,
                  frameRate |-> fps, clock |-> drift]]
TheOutcomes ==
    {Outcome(TRUE, TRUE, FALSE, TRUE, 100, 100, 100, 100, 0),
     Outcome(TRUE, TRUE, FALSE, FALSE, 0, 50, NA, 50, 33),
     Outcome(FALSE, FALSE, TRUE, FALSE, NA, NA, NA, NA, NA)}
Weigh(r, f) == [reachability |-> r, focus |-> f, light |-> 20, tamper |-> 15,
                frameRate |-> 15, clock |-> 10]
TheWeights == <<Weigh(20, 30), Weigh(30, 10)>>

(* A camera nobody probed, one that does not answer, a good one. *)
Report(s, c, f, r) == [score |-> s, connectable |-> c, fps |-> f, retention |-> r]
TheReports == {Report(NA, NA, FALSE, FALSE), Report("low", FALSE, FALSE, TRUE),
              Report("high", TRUE, TRUE, FALSE)}

(* Two cameras of a run; the statements of a refresh and the stream of the *)
(* bus.  TLC evaluates a table once that is reached by its name, and a     *)
(* value given in the configuration at every use.                          *)
TheSources == <<c1, c2>>
TheStatements == <<"recent", "stored">>
TheStreams == <<"sightings">>
MCSources == TheSources
MCStatements == TheStatements
MCStreams == TheStreams
MCReports == TheReports
MCOutcomes == TheOutcomes
MCWeights == TheWeights

VARIABLES
    at,     \* the component under way
    evidence_stamping, evidence_ahead, evidence_stream, evidence_cursor,
    evidence_pending, evidence_landed, evidence_object, evidence_linked,
    evidence_pc, evidence_batch, evidence_todo, evidence_attempt,
    evidence_target, evidence_stats, evidence_given, evidence_crashes,
    capture_pc, capture_stop, capture_attempt, capture_session, capture_held,
    capture_lastPts, capture_stored, capture_dropped, capture_rewinds,
    capture_buffer, capture_reads, capture_offers,
    sync_cams, sync_runs, sync_pc, sync_payload, sync_scope, sync_snapshot,
    sync_started, sync_edits, sync_aborts,
    adapter_call, adapter_stages, adapter_child, adapter_session,
    run_main, run_pool, run_bounded, run_stop, run_gate, run_late,
    run_tickets, run_connected, run_thread, run_stats, run_held, run_bus,
    run_summary,
    scrape_clock, scrape_estate, scrape_up, scrape_events, scrape_stamp,
    scrape_gauges, scrape_request, scrape_response, scrape_trouble,
    trust_clock, trust_passes, trust_checks, trust_score, trust_version,
    trust_jobs, trust_behind

evidenceVars ==
    <<evidence_stamping, evidence_ahead, evidence_stream, evidence_cursor,
      evidence_pending, evidence_landed, evidence_object, evidence_linked,
      evidence_pc, evidence_batch, evidence_todo, evidence_attempt,
      evidence_target, evidence_stats, evidence_given, evidence_crashes>>
captureVars ==
    <<capture_pc, capture_stop, capture_attempt, capture_session,
      capture_held, capture_lastPts, capture_stored, capture_dropped,
      capture_rewinds, capture_buffer, capture_reads, capture_offers>>
syncVars ==
    <<sync_cams, sync_runs, sync_pc, sync_payload, sync_scope, sync_snapshot,
      sync_started, sync_edits, sync_aborts>>
adapterVars ==
    <<adapter_call, adapter_stages, adapter_child, adapter_session>>
runVars ==
    <<run_main, run_pool, run_bounded, run_stop, run_gate, run_late,
      run_tickets, run_connected, run_thread, run_stats, run_held, run_bus,
      run_summary>>
scrapeVars ==
    <<scrape_clock, scrape_estate, scrape_up, scrape_events, scrape_stamp,
      scrape_gauges, scrape_request, scrape_response, scrape_trouble>>
trustVars ==
    <<trust_clock, trust_passes, trust_checks, trust_score, trust_version,
      trust_jobs, trust_behind>>

Evidence == INSTANCE EvidenceConsumer WITH
    Process <- {e1}, None <- NA, Passes <- 2, BatchSize <- 2,
    MatchRetries <- 1, MaxCrashes <- 1, stamping <- evidence_stamping,
    ahead <- evidence_ahead, stream <- evidence_stream,
    cursor <- evidence_cursor, pending <- evidence_pending,
    landed <- evidence_landed, object <- evidence_object,
    linked <- evidence_linked, pc <- evidence_pc, batch <- evidence_batch,
    todo <- evidence_todo, attempt <- evidence_attempt,
    target <- evidence_target, stats <- evidence_stats,
    given <- evidence_given, crashes <- evidence_crashes

Shots == INSTANCE Capture WITH
    Score <- Sharpness, MaxFrames <- MaxOffers,
    pc <- capture_pc, stop <- capture_stop, attempt <- capture_attempt,
    session <- capture_session, held <- capture_held,
    lastPts <- capture_lastPts, stored <- capture_stored,
    dropped <- capture_dropped, rewinds <- capture_rewinds,
    buffer <- capture_buffer, reads <- capture_reads,
    offers <- capture_offers

Catalogue == INSTANCE CatalogueSync WITH
    Runner <- {s1, s2}, External <- Two, Department <- {health},
    Unassigned <- unassigned, Value <- 1..2, Null <- NA,
    Unlisted <- unlisted, Payload <- MCCatalogues, MaxRuns <- 2,
    MaxEdits <- 1, MaxAborts <- 1, cams <- sync_cams, runs <- sync_runs,
    pc <- sync_pc, payload <- sync_payload, scope <- sync_scope,
    snapshot <- sync_snapshot, started <- sync_started, edits <- sync_edits,
    aborts <- sync_aborts

Adapters == INSTANCE CameraAdapters WITH
    Caller <- Callers, call <- adapter_call, stages <- adapter_stages,
    child <- adapter_child, session <- adapter_session

Run == INSTANCE WorkerRun WITH
    main <- run_main, pool <- run_pool,
    bounded <- run_bounded, stop <- run_stop, gate <- run_gate,
    late <- run_late, tickets <- run_tickets, connected <- run_connected,
    thread <- run_thread, stats <- run_stats, held <- run_held,
    bus <- run_bus, summary <- run_summary

Scrape == INSTANCE Metrics WITH
    Request <- Scrapers, Camera <- Cameras, Rows <- Reports,
    MaxEvents <- Changes,
    clock <- scrape_clock, estate <- scrape_estate, up <- scrape_up,
    events <- scrape_events, stamp <- scrape_stamp, gauges <- scrape_gauges,
    request <- scrape_request, response <- scrape_response,
    trouble <- scrape_trouble

Trust == INSTANCE TrustLoop WITH
    Camera <- Cameras, Passes <- Probers,
    clock <- trust_clock, passes <- trust_passes, checks <- trust_checks,
    score <- trust_score, version <- trust_version, jobs <- trust_jobs,
    behind <- trust_behind

ASSUME PlateConstants == CharAssumption /\ PairAssumption /\ WatchlistAssumption
ASSUME EvidenceConstants == Evidence!EvidenceAssumption
ASSUME CaptureConstants == Shots!CaptureAssumption
ASSUME CatalogueConstants == Catalogue!CatalogueAssumption
ASSUME RunConstants == Run!WorkerRunAssumption
ASSUME MetricsConstants == Scrape!MetricsAssumption
ASSUME TrustConstants == Trust!ProbeAssumption /\ Trust!WeightsAssumption

workerVars == <<at, vars, readVars, evidenceVars, captureVars, syncVars, adapterVars, runVars, scrapeVars, trustVars>>

WorkerInit ==
    /\ at \in {"watch", "reads", "evidence", "capture", "sync", "adapter", "run", "scrape", "trust"}
    /\ Init
    /\ at = "watch" \/ entries = CHOOSE t \in Upserts(<<>>, Seed) : TRUE
    /\ ReadInit
    /\ at = "reads" \/ plate = GJ011234
    /\ evidence_stamping \in IF at = "evidence" THEN BOOLEAN ELSE {CHOOSE x \in BOOLEAN : TRUE}
    /\ evidence_ahead \in IF at = "evidence" THEN BOOLEAN ELSE {CHOOSE x \in BOOLEAN : TRUE}
    /\ Evidence!Init
    /\ Shots!Init
    /\ Catalogue!Init
    /\ Adapters!Init
    /\ Run!Init
    /\ scrape_estate \in IF at = "scrape" THEN [Cameras -> Reports] ELSE {CHOOSE x \in [Cameras -> Reports] : TRUE}
    /\ scrape_up \in IF at = "scrape" THEN [{"db", "bus"} -> BOOLEAN] ELSE {CHOOSE x \in [{"db", "bus"} -> BOOLEAN] : TRUE}
    /\ Scrape!Init
    /\ Trust!Init

WorkerNext ==
    /\ UNCHANGED at
    /\ \/ /\ at = "watch" /\ Next
          /\ UNCHANGED <<readVars, evidenceVars, captureVars, syncVars,
                          adapterVars, runVars, scrapeVars, trustVars>>
       \/ /\ at = "reads" /\ ReadNext
          /\ UNCHANGED <<vars, evidenceVars, captureVars, syncVars,
                          adapterVars, runVars, scrapeVars, trustVars>>
       \/ /\ at = "evidence" /\ Evidence!Next
          /\ UNCHANGED <<vars, readVars, captureVars, syncVars, adapterVars,
                          runVars, scrapeVars, trustVars>>
       \/ /\ at = "capture" /\ Shots!Next
          /\ UNCHANGED <<vars, readVars, evidenceVars, syncVars,
                          adapterVars, runVars, scrapeVars, trustVars>>
       \/ /\ at = "sync" /\ Catalogue!Next
          /\ UNCHANGED <<vars, readVars, evidenceVars, captureVars,
                          adapterVars, runVars, scrapeVars, trustVars>>
       \/ /\ at = "adapter" /\ Adapters!Next
          /\ UNCHANGED <<vars, readVars, evidenceVars, captureVars,
                          syncVars, runVars, scrapeVars, trustVars>>
       \/ /\ at = "run" /\ Run!Next
          /\ UNCHANGED <<vars, readVars, evidenceVars, captureVars,
                          syncVars, adapterVars, scrapeVars, trustVars>>
       \/ /\ at = "scrape" /\ Scrape!Next
          /\ UNCHANGED <<vars, readVars, evidenceVars, captureVars,
                          syncVars, adapterVars, runVars, trustVars>>
       \/ /\ at = "trust" /\ Trust!Next
          /\ UNCHANGED <<vars, readVars, evidenceVars, captureVars,
                          syncVars, adapterVars, runVars, scrapeVars>>

WorkerSpec == WorkerInit /\ [][WorkerNext]_workerVars

-----------------------------------------------------------------------------
(* The repair of a read is final, leaves a clean prefix alone, and a       *)
(* match is explained by its script.                                       *)
RepairIsSound == at = "reads" => ReadsAreSound

(* A watchlist entry that stands is reached by a lookup and by a walk of   *)
(* the list.                                                               *)
EntriesAreListed == at = "watch" => EntriesAreReached

(* No row points at an object that is not there, no object lies under a    *)
(* row that does not exist, every entry is in one counter, and no replay   *)
(* spoils the crop of another.                                             *)
CropsAreAccountedFor == Evidence!CropsAreAccountedFor

(* A track is read once, from crops of one session, every observation is   *)
(* flushed once, and a best shot loses its crop only to a rewind of the    *)
(* clock.                                                                  *)
TracksAreReadOnce == at = "capture" => Shots!TracksAreReadOnce

(* The summary of a run is what its threads did and the sinks took,        *)
(* nothing is decoded outside the window, and a scrape reads what is so.   *)
RunsAddUp == at = "run" => Run!RunsAddUp

(* A sync nobody disturbs is not stopped, does what its catalogue says     *)
(* and reports what it did; no sync invents an address.                    *)
SyncsAreExact == Catalogue!SyncsAreExact

(* An answered call leaves no child and no session behind that it could    *)
(* have ended, and a child killed at its deadline never makes a camera     *)
(* unconnectable.                                                          *)
ProbesAreHonest == at = "adapter" => Adapters!ProbesAreHonest

(* The families of the estate add up in every response, and a response     *)
(* that no other request overlapped is fresh and reports its own           *)
(* findings.                                                               *)
ScrapesAreHonest == at = "scrape" => Scrape!ScrapesAreHonest

(* With no recomputation under way the registry shows the newest score;    *)
(* no screen colours a camera that did not answer; a score is an average   *)
(* of what was judged.                                                     *)
ScoresAreEarned == at = "trust" => Trust!ScoresAreEarned

(* With fewer pool slots than cameras, the run of the worker by itself.    *)
PoolSpec == (WorkerInit /\ at = "run") /\ [][WorkerNext]_workerVars

(* "Runs every source concurrently": the run returns with every camera     *)
(* tried (run_worker and its executor).                                    *)
EveryCameraIsTried == at = "run" => Run!EveryCameraIsTried
=============================================================================
