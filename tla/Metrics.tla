------------------------------- MODULE Metrics -------------------------------
(***************************************************************************)
(* GET /metrics of the API process (routes/metrics.ts, metrics.ts).  Each  *)
(* request refreshes the gauges of the process's one registry and renders  *)
(* them.  The refreshes await one statement after another, so requests     *)
(* interleave between them; a statement sees the database at one moment    *)
(* and its rows reach the gauges at a later one.                           *)
(*                                                                         *)
(* A family of gauges is represented by the time of the reading it shows;  *)
(* the families of the estate, set from the rows of one query, also by     *)
(* what they say.  Time is in units of which the two lifetimes are         *)
(* multiples.                                                              *)
(***************************************************************************)
EXTENDS Naturals, FiniteSets, Sequences, Functions

CONSTANTS
    Request,        \* the requests, numbered as they arrive
    Camera,
    Rows,           \* what the newest check and the registry say of a camera
    Statements,     \* the statements of refreshPipelineMetrics, in order
    Streams,        \* the streams of the bus, in order
    Ttl,            \* ESTATE_TTL_MS
    BaselineTtl,    \* BASELINE_TTL_MS
    MaxTime,        \* bound: the clock
    MaxEvents,      \* bound: changes of the registry, and outages
    NA              \* no value, or a series nobody has set

MetricsAssumption ==
    /\ Request \subseteq Nat /\ IsFiniteSet(Camera)
    /\ Ttl \in Nat \ {0} /\ BaselineTtl \in Nat \ {0}
    /\ MaxTime \in Nat /\ Ttl + BaselineTtl <= MaxTime /\ MaxEvents \in Nat
    /\ Len(Statements) \in Nat \ {0} /\ DOMAIN Statements = 1..Len(Statements)
    /\ Len(Streams) \in Nat \ {0} /\ DOMAIN Streams = 1..Len(Streams) /\ IsInjective(Streams)
    /\ NA \notin Nat /\ NA \notin BOOLEAN
    /\ NA \notin {"high", "middle", "low", "trusted", "degraded", "untrusted", "dead"}
    /\ Rows \subseteq [score : {NA, "high", "middle", "low"}, connectable : {NA, TRUE, FALSE},
                       fps : BOOLEAN, retention : BOOLEAN]

VARIABLES
    clock,
    estate,     \* the cameras that are not deleted, with their rows
    up,         \* do the database and the bus answer?
    events,
    stamp,      \* estateCache.at and baselineCache.at
    gauges,     \* the registry of the process
    request,    \* each request: where it waits, and the rows that are on their way to it
    response,   \* the response that was just rendered, or NA
    trouble     \* history: the readings spoilt by an overlap or a failure, until a lone refresh

(* What is kept for a lifetime, each under a stamp of its own. *)
Readings == {"estate", "baseline"}

vars == <<clock, estate, up, events, stamp, gauges, request, response, trouble>>

-----------------------------------------------------------------------------
(* refreshEstateMetrics: every family is reset and set from the rows.      *)

Band(row) ==
    CASE row.score = NA -> NA
      [] row.score # NA /\ row.connectable = FALSE -> "dead"
      [] OTHER -> CASE row.score = "high" -> "trusted" [] row.score = "middle" -> "degraded"
                    [] row.score = "low" -> "untrusted"

(* Never probed is not unmeasurable: it is no attempt. *)
Unmeasurable(row) == ~row.fps /\ row.connectable # NA
Reason(row) == IF row.connectable = FALSE THEN "unreachable" ELSE "recorded"

Families(rows) ==
    LET Scored   == {c \in DOMAIN rows : rows[c].score # NA}
        Probed   == {c \in DOMAIN rows : rows[c].connectable # NA}
        Declared == {c \in DOMAIN rows : rows[c].retention}
    IN  [status       |-> DOMAIN rows,
         unbanded     |-> DOMAIN rows \ Scored,
         band         |-> [c \in Scored |-> Band(rows[c])],
         connectable  |-> [c \in Probed |-> rows[c].connectable],
         unmeasurable |-> [c \in {d \in DOMAIN rows : Unmeasurable(rows[d])} |-> Reason(rows[c])],
         retention    |-> [declared |-> Cardinality(Declared),
                           unknown  |-> Cardinality(DOMAIN rows \ Declared)],
         unscored     |-> Cardinality(DOMAIN rows \ Scored),
         byBand       |-> [b \in {"trusted", "degraded", "untrusted", "dead"} |->
                              Cardinality({c \in DOMAIN rows : Band(rows[c]) = b})],
         answering    |-> Cardinality({c \in Probed : rows[c].connectable}),
         probed       |-> Cardinality(Probed)]

(* A labelled gauge publishes nothing until it is set. *)
Unset ==
    [families |-> Families([c \in {} |-> NA]), estate |-> NA,
     pipeline |-> [k \in DOMAIN Statements |-> NA], baseline |-> NA,
     length |-> {}, groups |-> {}, db |-> NA, bus |-> NA]

Waiting == [at |-> "idle", k |-> 0, rows |-> NA, began |-> 0, alone |-> TRUE,
            failed |-> FALSE, refreshed |-> {}]

Init ==
    /\ clock = Ttl + BaselineTtl
    /\ estate \in [Camera -> Rows]
    /\ up \in [{"db", "bus"} -> BOOLEAN]
    /\ events = 0
    /\ stamp = [estate |-> 0, baseline |-> 0]
    /\ gauges = Unset
    /\ request = [q \in Request |-> Waiting]
    /\ response = NA
    /\ trouble = {}

-----------------------------------------------------------------------------
(* Mutant of Due: a reading is kept for one moment too long. *)
DueLate(cache, lifetime) == clock - stamp[cache] > lifetime

(* dueForRefresh: the stamp is set before anything has been read.          *)
Due(cache, lifetime) == clock - stamp[cache] >= lifetime

(* refreshBusMetrics takes every series of the bus away first. *)
ToTheBus(q, g, r) ==
    /\ gauges' = [g EXCEPT !.length = {}, !.groups = {}]
    /\ request' = [request EXCEPT ![q] = [r EXCEPT !.at = "length", !.k = 1, !.rows = NA]]

(* The rest of the try block, from the second dueForRefresh. *)
ToTheBaseline(q, g, r) ==
    \/ /\ Due("baseline", BaselineTtl)
       /\ stamp' = [stamp EXCEPT !.baseline = clock]
       /\ gauges' = g
       /\ request' = [request EXCEPT ![q] = [r EXCEPT !.at = "baseline", !.rows = NA]]
    \/ /\ ~Due("baseline", BaselineTtl)
       /\ ToTheBus(q, [g EXCEPT !.db = TRUE], r)
       /\ UNCHANGED stamp

Busy(q) == request[q].at \notin {"idle", "done"}
Crowded == [o \in Request |-> IF Busy(o) THEN [request[o] EXCEPT !.alone = FALSE] ELSE request[o]]

Begin(q) ==
    /\ request[q].at = "idle"
    /\ \A o \in Request : o < q => request[o].at # "idle"
    /\ LET others == \E o \in Request \ {q} : Busy(o)
           r == [Waiting EXCEPT !.began = clock, !.alone = ~others]
       IN  /\ trouble' = IF others THEN Readings ELSE trouble
           /\ \/ /\ Due("estate", Ttl)
                 /\ stamp' = [stamp EXCEPT !.estate = clock]
                 /\ request' = [Crowded EXCEPT ![q] = [r EXCEPT !.at = "estate"]]
                 /\ UNCHANGED gauges
              \/ /\ ~Due("estate", Ttl) /\ Due("baseline", BaselineTtl)
                 /\ stamp' = [stamp EXCEPT !.baseline = clock]
                 /\ request' = [Crowded EXCEPT ![q] = [r EXCEPT !.at = "baseline"]]
                 /\ UNCHANGED gauges
              \/ /\ ~Due("estate", Ttl) /\ ~Due("baseline", BaselineTtl)
                 /\ gauges' = [gauges EXCEPT !.db = TRUE, !.length = {}, !.groups = {}]
                 /\ request' = [Crowded EXCEPT ![q] = [r EXCEPT !.at = "length", !.k = 1]]
                 /\ UNCHANGED stamp
    /\ response' = NA
    /\ UNCHANGED <<clock, estate, up, events>>

(* The database answers; the answer travels. *)
Asking(q) == request[q].at \in {"estate", "pipeline", "baseline"} /\ request[q].rows = NA
Read(q) ==
    /\ Asking(q) /\ up.db
    /\ request' = [request EXCEPT ![q].rows = [at |-> clock, of |-> estate]]
    /\ response' = NA
    /\ UNCHANGED <<clock, estate, up, events, stamp, gauges, trouble>>

(* The statement is rejected: what was set stays, and the bus is next. *)
Refused(q) ==
    /\ Asking(q) /\ ~up.db
    /\ ToTheBus(q, [gauges EXCEPT !.db = FALSE], [request[q] EXCEPT !.failed = TRUE])
    /\ trouble' = Readings
    /\ response' = NA
    /\ UNCHANGED <<clock, estate, up, events, stamp>>

EstateLands(q) ==
    /\ request[q].at = "estate" /\ request[q].rows # NA
    /\ LET r == request[q].rows
       IN  gauges' = [gauges EXCEPT !.families = Families(r.of), !.estate = r.at]
    /\ request' = [request EXCEPT ![q].at = "pipeline", ![q].k = 1, ![q].rows = NA]
    /\ response' = NA
    /\ UNCHANGED <<clock, estate, up, events, stamp, trouble>>

PipelineLands(q) ==
    /\ request[q].at = "pipeline" /\ request[q].rows # NA
    /\ LET k == request[q].k
           g == [gauges EXCEPT !.pipeline[k] = request[q].rows.at]
       IN  \/ /\ k < Len(Statements)
              /\ gauges' = g
              /\ request' = [request EXCEPT ![q].k = k + 1, ![q].rows = NA]
              /\ UNCHANGED stamp
           \/ /\ k = Len(Statements)
              /\ ToTheBaseline(q, g, [request[q] EXCEPT !.refreshed = @ \union {"estate"}])
    /\ response' = NA
    /\ UNCHANGED <<clock, estate, up, events, trouble>>

BaselineLands(q) ==
    /\ request[q].at = "baseline" /\ request[q].rows # NA
    /\ ToTheBus(q, [gauges EXCEPT !.baseline = request[q].rows.at, !.db = TRUE],
             [request[q] EXCEPT !.refreshed = @ \union {"baseline"}])
    /\ response' = NA
    /\ UNCHANGED <<clock, estate, up, events, stamp, trouble>>

-----------------------------------------------------------------------------
(* The length of a stream and its groups are two calls. *)
Length(q) ==
    /\ request[q].at = "length" /\ up.bus
    /\ gauges' = [gauges EXCEPT !.length = @ \union {Streams[request[q].k]}]
    /\ request' = [request EXCEPT ![q].at = "groups"]
    /\ response' = NA
    /\ UNCHANGED <<clock, estate, up, events, stamp, trouble>>

Groups(q) ==
    /\ request[q].at = "groups" /\ up.bus
    /\ LET k == request[q].k
           g == [gauges EXCEPT !.groups = @ \union {Streams[k]}]
       IN  IF k < Len(Streams)
           THEN /\ gauges' = g
                /\ request' = [request EXCEPT ![q].at = "length", ![q].k = k + 1]
           ELSE /\ gauges' = [g EXCEPT !.bus = TRUE]
                /\ request' = [request EXCEPT ![q].at = "render"]
    /\ response' = NA
    /\ UNCHANGED <<clock, estate, up, events, stamp, trouble>>

BusFails(q) ==
    /\ request[q].at \in {"length", "groups"} /\ ~up.bus
    /\ gauges' = [gauges EXCEPT !.bus = FALSE]
    /\ request' = [request EXCEPT ![q].at = "render"]
    /\ response' = NA
    /\ UNCHANGED <<clock, estate, up, events, stamp, trouble>>

(* recordRelayStats and the text of the registry as it stands. *)
Respond(q) ==
    /\ request[q].at = "render"
    /\ response' = [to |-> request[q], shown |-> gauges, trouble |-> trouble]
    /\ request' = [request EXCEPT ![q] = [Waiting EXCEPT !.at = "done"]]
    /\ trouble' = IF request[q].alone /\ ~request[q].failed THEN trouble \ request[q].refreshed ELSE trouble
    /\ UNCHANGED <<clock, estate, up, events, stamp, gauges>>

-----------------------------------------------------------------------------
(* Meanwhile: time, the registry and the prober, and outages.              *)
Tick ==
    /\ clock < MaxTime
    /\ clock' = clock + 1
    /\ response' = NA
    /\ UNCHANGED <<estate, up, events, stamp, gauges, request, trouble>>

Change ==
    /\ events < MaxEvents
    /\ events' = events + 1
    /\ \/ \E c \in DOMAIN estate : estate' = [d \in DOMAIN estate \ {c} |-> estate[d]]
       \/ \E c \in DOMAIN estate, r \in Rows : estate' = [estate EXCEPT ![c] = r]
    /\ response' = NA
    /\ UNCHANGED <<clock, up, stamp, gauges, request, trouble>>

Outage ==
    /\ events < MaxEvents
    /\ events' = events + 1
    /\ \E s \in {"db", "bus"} : up' = [up EXCEPT ![s] = ~@]
    /\ response' = NA
    /\ UNCHANGED <<clock, estate, stamp, gauges, request, trouble>>

Handle(q) == \/ Begin(q) \/ Read(q) \/ Refused(q) \/ EstateLands(q) \/ PipelineLands(q)
             \/ BaselineLands(q) \/ Length(q) \/ Groups(q) \/ BusFails(q) \/ Respond(q)

Next == (\E q \in Request : Handle(q)) \/ Tick \/ Change \/ Outage

Spec == Init /\ [][Next]_vars

-----------------------------------------------------------------------------
TypeOK ==
    /\ clock \in 0..MaxTime /\ events \in 0..MaxEvents
    /\ DOMAIN estate \subseteq Camera
    /\ \A q \in Request : request[q].at \in {"idle", "done", "estate", "pipeline", "baseline", "length",
                                             "groups", "render"}
    /\ gauges.length \union gauges.groups \subseteq {Streams[k] : k \in DOMAIN Streams}

(* Every family of the estate is of one reading: a camera has a band or is *)
(* without one, a reason for no frame rate only if it was probed, and each *)
(* way of counting the cameras counts the cameras that are listed.         *)
EstateAddsUp(g) ==
    LET f == g.families
        total == Cardinality(f.status)
    IN  /\ DOMAIN f.band = f.status \ f.unbanded
        /\ DOMAIN f.unmeasurable \subseteq DOMAIN f.connectable
        /\ \A c \in DOMAIN f.unmeasurable :
              f.unmeasurable[c] = "unreachable" <=> f.connectable[c] = FALSE
        /\ f.retention.declared + f.retention.unknown = total
        /\ f.unscored + f.byBand["trusted"] + f.byBand["degraded"] + f.byBand["untrusted"]
             + f.byBand["dead"] = total
        /\ f.answering <= f.probed /\ f.probed = Cardinality(DOMAIN f.connectable)

(* A request that nobody overlapped shows no estate and no throughput that *)
(* was read a whole lifetime before it, and no throughput read before the  *)
(* estate beside it, unless the reading was spoilt.                        *)
Fresh(r) ==
    LET g == r.shown
    IN  /\ "estate" \notin r.trouble =>
              /\ g.estate # NA /\ r.to.began - g.estate < Ttl
              /\ \A k \in DOMAIN g.pipeline : g.pipeline[k] # NA /\ g.pipeline[k] >= g.estate
        /\ "baseline" \notin r.trouble => g.baseline # NA /\ r.to.began - g.baseline < BaselineTtl

(* The two reachability gauges of a lone request are its own findings.     *)
OwnFindings(r) ==
    /\ r.shown.db = ~r.to.failed
    /\ r.shown.bus => /\ r.shown.length = {Streams[k] : k \in DOMAIN Streams}
                      /\ r.shown.groups = r.shown.length
    /\ ~r.shown.bus => r.shown.groups # {Streams[k] : k \in DOMAIN Streams}

(* What a scrape reports is so: the families of the estate add up in every *)
(* response, and one that no other request overlapped is fresh and reports *)
(* its own findings (registerMetricsRoutes, refreshEstateMetrics).         *)
ScrapesAreHonest ==
    /\ TypeOK
    /\ response # NA =>
          /\ EstateAddsUp(response.shown)
          /\ response.to.alone => OwnFindings(response) /\ Fresh(response)
=============================================================================
