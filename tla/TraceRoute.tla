------------------------------ MODULE TraceRoute ------------------------------
(***************************************************************************)
(* Tracing a vehicle: the ordered sightings of a plate (services/trace.ts, *)
(* identity.ts), the route through them with its cache (route.ts), the     *)
(* cloning verdicts on that route (anomaly.ts) and the appearance bridge   *)
(* that adds unreadable sightings (reid.ts).  A request is a chain of      *)
(* separate statements: sightings, plate reads, links and other requests'  *)
(* cache writes land between any two of them.                              *)
(***************************************************************************)
EXTENDS Cloning

CONSTANTS
    Early,      \* sightings that are stored, with their reads, before anyone asks
    Alike,      \* appearance: pairs <<anchor, candidate>> at or above the similarity floor
    Asks,       \* questions put to the system
    Requests,
    Limit       \* MAX_TRACE_SIGHTINGS

TraceAssumption ==
    /\ IsFiniteSet(DOMAIN Shot) /\ DOMAIN Shot \subseteq Nat /\ \A s \in DOMAIN Shot : Shot[s].ts \in Int
    /\ Early \subseteq DOMAIN Shot /\ Limit \in Nat \ {0}
    /\ \A a \in Asks : a.plate \in DOMAIN Strength
    /\ Policy.repeats \in Nat

Sighting == DOMAIN Shot

VARIABLES
    detected,   \* rows of sightings
    read,       \* sightings whose plate_reads row is in
    links,      \* identity_sightings
    routes,     \* the routes table: cache key -> row, segments
    reqs

vars == <<detected, read, links, routes, reqs>>

Idle == [pc |-> "idle"]
Keys == {[plate |-> a.plate, floor |-> a.floor] : a \in Asks}

TypeOK ==
    /\ Early \union read \subseteq detected /\ detected \subseteq Sighting
    /\ \A l \in links : l.plate \in DOMAIN Strength /\ l.sighting \in Sighting
    /\ \A k \in Keys : routes[k] = NA \/ routes[k].id \in Requests
    /\ \A r \in Requests :
         reqs[r].pc \in {"idle", "hydrate", "bridged", "links", "cache", "segments", "drive", "write",
                         "candidates", "persist", "done"}

-----------------------------------------------------------------------------
(* ORDER BY captured_at, id LIMIT.                                         *)
FirstOf(S) == {s \in S : Cardinality({x \in S : Before(x, s)}) < Limit}

Matching(q) == {s \in read : Shot[s].plate # NA /\ Strength[q][Shot[s].plate] > 0}

(* The matcher and resolveIdentity: plates whose best read clears the      *)
(* floor; the sightings of the others are counted as dropped.              *)
Search(r) ==
    /\ reqs[r] = Idle
    /\ \E a \in Asks :
         LET plates == {Shot[s].plate : s \in {x \in Matching(a.plate) : LinkConfidence(a.plate, x) >= a.floor}}
         IN  reqs' = [reqs EXCEPT ![r] =
                 [pc |-> IF plates = {} THEN "done" ELSE "hydrate", ask |-> a, plates |-> plates,
                  rows |-> {}, trace |-> <<>>, truncated |-> FALSE, route |-> NA,
                  due |-> {s \in Matching(a.plate) : LinkConfidence(a.plate, s) >= a.floor},
                  dropped |-> Cardinality({s \in Matching(a.plate) : Shot[s].plate \notin plates})]]
    /\ UNCHANGED <<detected, read, links, routes>>

Hydrate(r) ==
    /\ reqs[r].pc = "hydrate"
    /\ reqs' = [reqs EXCEPT ![r].pc = IF reqs[r].ask.reid THEN "bridged" ELSE "links",
                            ![r].rows = FirstOf({s \in read : Shot[s].plate \in reqs[r].plates})]
    /\ UNCHANGED <<detected, read, links, routes>>

Bridged(r) ==
    FirstOf({l.sighting : l \in {x \in links : x.plate = reqs[r].ask.plate}}) \ reqs[r].rows

HydrateReid(r) ==
    /\ reqs[r].pc = "bridged"
    /\ reqs' = [reqs EXCEPT ![r].pc = "links", ![r].rows = @ \union Bridged(r)]
    /\ UNCHANGED <<detected, read, links, routes>>

(* loadStoredLinks, and toSighting's choice: a recorded link wins over the *)
(* derived one, unless re-ID is off.                                       *)
Recorded(r, s) == {l \in links : l.plate = reqs[r].ask.plate /\ l.sighting = s /\ reqs[r].ask.reid}
Claim(r, s) ==
    IF Recorded(r, s) # {}
    THEN [id |-> s, method |-> "reid_bridge", confidence |-> (CHOOSE l \in Recorded(r, s) : TRUE).confidence]
    ELSE [id |-> s, method |-> "plate", confidence |-> LinkConfidence(reqs[r].ask.plate, s)]

Truncated(rows) == Cardinality(rows) >= Limit

LoadLinks(r) ==
    /\ reqs[r].pc = "links"
    /\ LET q == reqs[r]
           admissible == {s \in q.rows : s \in read \/ Recorded(r, s) # {}}
           kept == InOrder({s \in admissible : Claim(r, s).confidence >= q.ask.floor})
           trace == [i \in DOMAIN kept |-> Claim(r, kept[i])]
           next == CASE q.ask.kind = "bridge" -> "candidates"
                     [] q.ask.kind = "route" /\ Len(trace) >= 2 -> IF q.ask.refresh THEN "drive" ELSE "cache"
                     [] OTHER -> "done"
       IN  reqs' = [reqs EXCEPT ![r].pc = next, ![r].trace = trace, ![r].truncated = Truncated(q.rows),
                                ![r].dropped = @ + Cardinality(admissible) - Len(trace)]
    /\ UNCHANGED <<detected, read, links, routes>>

-----------------------------------------------------------------------------
(* RouteService.reconstruct.  The cache is read in two statements.         *)
Key(r) == [plate |-> reqs[r].ask.plate, floor |-> reqs[r].ask.floor]
Ids(r) == [i \in DOMAIN reqs[r].trace |-> reqs[r].trace[i].id]

(* Mutant of Hits: the question alone decides. *)
HitsByKey(r) == routes[Key(r)] # NA

Hits(r) == routes[Key(r)] # NA /\ routes[Key(r)].fingerprint = Ids(r)

ReadCache(r) ==
    /\ reqs[r].pc = "cache"
    /\ reqs' = [reqs EXCEPT ![r].pc = IF Hits(r) THEN "segments" ELSE "drive",
                            ![r].route = IF Hits(r) THEN [id |-> routes[Key(r)].id, hit |-> TRUE] ELSE NA]
    /\ UNCHANGED <<detected, read, links, routes>>

(* The segments of that row; a row replaced meanwhile took them along.     *)
ReadSegments(r) ==
    /\ reqs[r].pc = "segments"
    /\ LET row == routes[Key(r)]
           segments == IF row.id = reqs[r].route.id THEN row.segments ELSE <<>>
       IN  reqs' = [reqs EXCEPT ![r].pc = "done", ![r].route = [hit |-> TRUE, segments |-> segments]]
    /\ UNCHANGED <<detected, read, links, routes>>

(* routeAll: a query the router does not answer in time is a null.         *)
Routable(a, b) == Shot[a].camera # Shot[b].camera /\ <<Shot[a].camera, Shot[b].camera>> \in DOMAIN Drive
RouteAll(r) ==
    /\ reqs[r].pc = "drive"
    /\ LET ids == Ids(r)
           hops == 1..Len(ids) - 1
       IN  \E answered \in SUBSET {i \in hops : Routable(ids[i], ids[i + 1])} :
             reqs' = [reqs EXCEPT ![r].pc = "write",
                        ![r].route = [hit |-> FALSE,
                                      segments |-> [i \in hops |-> Segment(ids[i], ids[i + 1], i \in answered)]]]
    /\ UNCHANGED <<detected, read, links, routes>>

(* writeCache: one transaction, replacing the row of the question.  What   *)
(* is stored is rounded to the second.  A failure is swallowed.            *)
WriteCache(r) ==
    /\ reqs[r].pc = "write"
    /\ LET segments == reqs[r].route.segments
           row == [id |-> r, fingerprint |-> Ids(r), segments |-> [i \in DOMAIN segments |-> AsStored(segments[i])]]
       IN  routes' \in {routes, [routes EXCEPT ![Key(r)] = row]}
    /\ reqs' = [reqs EXCEPT ![r].pc = "done"]
    /\ UNCHANGED <<detected, read, links>>

-----------------------------------------------------------------------------
(* The report that is served with a route (analyseRoute).                  *)
Confidence(r, s) == (CHOOSE c \in ToSet(reqs[r].trace) : c.id = s).confidence
Found(r, g) ==
    Finding(reqs[r].route.segments, g, Confidence(r, g.from) * Confidence(r, g.to))

-----------------------------------------------------------------------------
(* reid-bridge-cli: the trace of a plate is its gallery; candidates are    *)
(* best shots that no identity owns, gated by travel time before their     *)
(* appearance is looked at.                                                *)
Gap(a, c) == IF Shot[a].ts <= Shot[c].ts THEN Shot[c].ts - Shot[a].ts ELSE Shot[a].ts - Shot[c].ts
Reachable(a, c) ==
    LET cams == <<Shot[a].camera, Shot[c].camera>>
    IN  IF cams[1] = cams[2] THEN Gap(a, c) <= Policy.dwell
        ELSE cams \in DOMAIN Drive /\ Gap(a, c) >= 5 /\ 2 * Gap(a, c) >= Drive[cams].time
Anchors(r) == {c.id : c \in {x \in ToSet(reqs[r].trace) : x.method # "reid_bridge" /\ Shot[x.id].best}}

Unclaimed(r) ==
    {s \in detected : Shot[s].best /\ s \notin ToSet(Ids(r)) /\ \A l \in links : l.sighting # s}

Candidates(r) ==
    /\ reqs[r].pc = "candidates"
    /\ LET matched == {s \in Unclaimed(r) : \E a \in Anchors(r) : Reachable(a, s) /\ <<a, s>> \in Alike}
       IN  reqs' = [reqs EXCEPT ![r].pc = IF matched = {} THEN "done" ELSE "persist", ![r].rows = matched]
    /\ UNCHANGED <<detected, read, links, routes>>

Persist(r) ==
    /\ reqs[r].pc = "persist"
    /\ links' = links \union
         {[plate |-> reqs[r].ask.plate, sighting |-> s, confidence |-> Policy.bridged] :
            s \in {x \in reqs[r].rows : \A l \in links : l.plate = reqs[r].ask.plate => l.sighting # x}}
    /\ reqs' = [reqs EXCEPT ![r].pc = "done"]
    /\ UNCHANGED <<detected, read, routes>>

-----------------------------------------------------------------------------
(* The ingest side: a sighting, and in a later statement its plate read.   *)
Detect(s) ==
    /\ s \notin detected /\ detected' = detected \union {s}
    /\ UNCHANGED <<read, links, routes, reqs>>
ReadPlate(s) ==
    /\ s \in detected \ read /\ Shot[s].plate # NA /\ read' = read \union {s}
    /\ UNCHANGED <<detected, links, routes, reqs>>

Init ==
    /\ detected = Early /\ read = {s \in Early : Shot[s].plate # NA} /\ links = {}
    /\ routes = [k \in Keys |-> NA]
    /\ reqs = [r \in Requests |-> Idle]

Next ==
    \/ \E s \in Sighting : Detect(s) \/ ReadPlate(s)
    \/ \E r \in Requests :
          \/ Search(r) \/ Hydrate(r) \/ HydrateReid(r) \/ LoadLinks(r)
          \/ ReadCache(r) \/ ReadSegments(r) \/ RouteAll(r) \/ WriteCache(r)
          \/ Candidates(r) \/ Persist(r)

Spec == Init /\ [][Next]_vars

-----------------------------------------------------------------------------
Traced == {r \in Requests : reqs[r].pc \notin {"idle", "hydrate", "bridged", "links"}}
Routed == {r \in Requests : reqs[r].pc = "done" /\ reqs[r].route # NA}

(* However the two queries of a trace interleave with reads and links that *)
(* are being written, its sightings are in the order of their clocks and   *)
(* none appears twice.                                                     *)
TraceIsOrdered ==
    \A r \in Traced : \A i \in 1..Len(reqs[r].trace) - 1 : Before(reqs[r].trace[i].id, reqs[r].trace[i + 1].id)

(* A sighting that was in when the request began and clears its floor is   *)
(* in the trace, or the answer says that it was cut or that some were      *)
(* dropped for their confidence.                                           *)
NothingIsHidden ==
    \A r \in Traced :
      reqs[r].due \subseteq ToSet(Ids(r)) \/ reqs[r].truncated \/ reqs[r].dropped > 0

(* A route answered from the cache joins the sightings it is served with,  *)
(* hop by hop, whatever was ingested since it was built and whoever has    *)
(* replaced it.                                                            *)
RouteFitsTrace ==
    \A r \in Routed :
      LET g == reqs[r].route.segments
      IN  g # <<>> => /\ Len(g) = Len(reqs[r].trace) - 1
                      /\ \A i \in DOMAIN g : <<g[i].from, g[i].to>> = <<Ids(r)[i], Ids(r)[i + 1]>>

(* A cloning alert on a route that was just built rests on at least        *)
(* "repeats" passages between its two cameras that no drive can explain.   *)
AlertsRestOnRepeats ==
    \A r \in Routed : ~reqs[r].route.hit =>
      \A i \in DOMAIN reqs[r].route.segments :
        LET g == reqs[r].route.segments[i]
            road == Drive[<<Shot[g.from].camera, Shot[g.to].camera>>]
            passages == {j \in 1..Len(Ids(r)) - 1 :
                           /\ Shot[Ids(r)[j]].camera = Shot[g.from].camera
                           /\ Shot[Ids(r)[j + 1]].camera = Shot[g.to].camera
                           /\ LET t == Shot[Ids(r)[j + 1]].ts - Shot[Ids(r)[j]].ts
                              IN  t * Policy.tolerance < road.time * 100 \/ road.metres * 36 > Policy.maxKmh * t}
        IN  Found(r, g).alert # NA => Cardinality(passages) >= Policy.repeats

(* A route is never served empty for a trace that has hops.  Violated: the *)
(* row and its segments are read in two statements, and another request    *)
(* for the same question may replace the row between them.                 *)
ServedRouteIsWhole ==
    \A r \in Routed : Len(reqs[r].route.segments) = Len(reqs[r].trace) - 1

(* What an answer shows rests on the sightings it holds: in order, none    *)
(* hidden, joined by its route, repeated where it calls a plate cloned.    *)
AnswerHoldsUp == TypeOK /\ TraceIsOrdered /\ NothingIsHidden /\ RouteFitsTrace /\ AlertsRestOnRepeats
=============================================================================
