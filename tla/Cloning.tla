------------------------------- MODULE Cloning -------------------------------
(***************************************************************************)
(* What a trace is made of (services/trace.ts, route.ts) and what is said  *)
(* of a hop no drive can cover (services/anomaly.ts): the plate the weaker *)
(* read may have been, a misread or a clone, and the cloning alert.        *)
(***************************************************************************)
EXTENDS Integers, FiniteSets, SequencesExt

CONSTANTS
    Shot,           \* sighting -> time (tenths of a second), camera, track, plate, ocr (percent), crop
    Strength,       \* query -> plate -> match strength in percent, 0 beyond the distance ceiling
    Drive,          \* <<camera, camera>> -> free-flow time (tenths) and metres, where a path exists
    Registration,   \* the plates the grammar accepts whole
    Metric,         \* <<plate, plate>> -> weightedDistance: distance and how much of it is tail, thousandths
    Policy,         \* anomaly-policy.json and the gate of reid.ts
    NA

(* The order of a trace: the clock of the frame, then the id.              *)
Before(a, b) == Shot[a].ts < Shot[b].ts \/ (Shot[a].ts = Shot[b].ts /\ a < b)
InOrder(S) == [i \in 1..Cardinality(S) |-> CHOOSE s \in S : Cardinality({x \in S : Before(x, s)}) = i - 1]
LinkConfidence(q, s) == (Strength[q][Shot[s].plate] * Shot[s].ocr) \div 100

(* A hop between two sightings of a trace; what the route cache keeps of   *)
(* it is rounded to the second.                                            *)
Kind(a, b, answered) ==
    CASE Shot[a].camera = Shot[b].camera /\ Shot[a].track = Shot[b].track -> "observed_dwell"
      [] Shot[a].camera = Shot[b].camera /\ Shot[a].track # Shot[b].track -> "inferred_revisit"
      [] Shot[a].camera # Shot[b].camera /\ answered -> "inferred_path"
      [] OTHER -> "inferred_unroutable"
Segment(a, b, answered) ==
    LET kind == Kind(a, b, answered)
        way == IF kind = "inferred_path" THEN Drive[<<Shot[a].camera, Shot[b].camera>>] ELSE NA
    IN  [from |-> a, to |-> b, kind |-> kind, elapsed |-> Shot[b].ts - Shot[a].ts, way |-> way]
Seconds(tenths) == 10 * ((tenths + 5) \div 10)
AsStored(g) ==
    [g EXCEPT !.elapsed = Seconds(@), !.way = IF @ = NA THEN NA ELSE [@ EXCEPT !.time = Seconds(@)]]

(* assessFeasibility: a segment is [from, to, kind, elapsed, way].  The    *)
(* guard belongs to the test that divides by the elapsed time.             *)
TooFast(g) == g.elapsed >= Policy.minElapsed /\ g.way.metres * 36 > Policy.maxKmh * g.elapsed
BeatsTheGraph(g) == g.elapsed * Policy.tolerance < g.way.time * 100
OnRoad(g) == g.kind = "inferred_path"
Feasibility(g) ==
    IF ~OnRoad(g) THEN "indeterminate"
    ELSE IF TooFast(g) \/ BeatsTheGraph(g) THEN "impossible" ELSE "feasible"
Impossible(g) == Feasibility(g) = "impossible"

(* patternKey and the repeats of a route. *)
SamePattern(g, h) ==
    /\ Shot[g.from].camera = Shot[h.from].camera /\ Shot[g.to].camera = Shot[h.to].camera
    /\ Shot[g.from].plate = Shot[h.from].plate /\ Shot[g.to].plate = Shot[h.to].plate

Repeats(segments, g) ==
    Cardinality({i \in DOMAIN segments : Impossible(segments[i]) /\ SamePattern(segments[i], g)})

-----------------------------------------------------------------------------
(* candidateFor: the other end's read, when it is near enough to be what   *)
(* the weaker end saw.                                                     *)
Apart(a, b) == Metric[<<Shot[a].plate, Shot[b].plate>>]
Weaker(a, b) == IF Shot[a].ocr <= Shot[b].ocr THEN "from" ELSE "to"
Neighbours(a, b) ==
    /\ Shot[a].plate # Shot[b].plate /\ NA \notin {Shot[a].plate, Shot[b].plate}
    /\ Apart(a, b).distance \in 1..Policy.neighbour
Truncation(a, b) == Apart(a, b).tail > 0 /\ Apart(a, b).tail * 100 >= Apart(a, b).distance * Policy.dominance
Candidate(a, b) ==
    IF ~Neighbours(a, b) THEN NA
    ELSE [plate |-> Shot[IF Weaker(a, b) = "from" THEN b ELSE a].plate, weaker |-> Weaker(a, b),
          truncation |-> Truncation(a, b)]

(* disambiguate: the cheap, decisive checks first. *)
Low(s) == Shot[s].ocr < Policy.lowOcr
High(s) == Shot[s].ocr >= Policy.highOcr

Explanation(a, b, repeats) ==
    IF Candidate(a, b) # NA \/ Low(a) \/ Low(b) THEN "likely_misread"
    ELSE IF /\ {Shot[a].plate, Shot[b].plate} \subseteq Registration
            /\ High(a) /\ High(b) /\ repeats >= Policy.repeats THEN "likely_cloned"
    ELSE "undetermined"

(* buildFinding and buildAlert; "weight" is the product of the two link    *)
(* confidences, whose square root is the confidence of the pair.           *)
Alert(g) ==
    [plate |-> Shot[g.from].plate, left |-> g.from, right |-> g.to,
     cropsIncomplete |-> ~(Shot[g.from].best /\ Shot[g.to].best)]
Finding(segments, g, weight) ==
    LET why == IF Impossible(g) THEN Explanation(g.from, g.to, Repeats(segments, g)) ELSE "undetermined"
    IN  [from |-> g.from, to |-> g.to, feasibility |-> Feasibility(g), explanation |-> why,
         candidate |-> IF Impossible(g) THEN Candidate(g.from, g.to) ELSE NA,
         alert |-> IF Impossible(g) /\ why = "likely_cloned" /\ weight >= Policy.minLink * Policy.minLink
                   THEN Alert(g) ELSE NA]
=============================================================================
