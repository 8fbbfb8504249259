----------------------------- MODULE CloningSweep -----------------------------
(***************************************************************************)
(* The sweep for impossible transitions (jobs/analyze-anomalies.ts): every *)
(* plate the estate has read is traced and reconstructed, the hops of all  *)
(* reports are counted once per pair of sightings, and the totals are put  *)
(* into words.  Reads arrive, and the router comes and goes, between two   *)
(* plates; each plate is one step here (TraceRoute takes it apart).        *)
(***************************************************************************)
EXTENDS Cloning

CONSTANTS
    Early,      \* sightings that are read before the sweep begins
    Placed,     \* cameras with coordinates
    Ways,       \* whether road_network holds anything
    PlateLimit, \* --limit
    Persist     \* FALSE for --no-persist

SweepAssumption ==
    /\ IsFiniteSet(DOMAIN Shot) /\ DOMAIN Shot \subseteq Nat /\ \A s \in DOMAIN Shot : Shot[s].ts \in Int
    /\ Early \subseteq DOMAIN Shot /\ PlateLimit \in Nat /\ {Ways, Persist} \subseteq BOOLEAN

VARIABLES
    read,       \* sightings with a plate read
    up,         \* whether the router answers
    cache,      \* routes: plate -> fingerprint and segments
    job

vars == <<read, up, cache, job>>

Plates == {Shot[s].plate : s \in DOMAIN Shot} \ {NA}
Zero == [traced |-> 0, segments |-> 0, evaluable |-> 0, impossible |-> 0, misread |-> 0, cloned |-> 0,
         undetermined |-> 0, alerts |-> 0]

TypeOK ==
    /\ read \subseteq DOMAIN Shot /\ up \in BOOLEAN
    /\ job.pc \in {"estate", "plates", "sweep", "done"}
    /\ \A i \in DOMAIN job.due : job.due[i] \in Plates
    /\ job.total \in [DOMAIN Zero -> Nat]

(* estate: how much there is to sweep, in one statement.                   *)
Estate ==
    /\ job.pc = "estate"
    /\ job' = [job EXCEPT !.pc = "plates", !.measured = [sightings |-> Cardinality(read), placed |-> Cardinality(Placed)]]
    /\ UNCHANGED <<read, up, cache>>

(* platesToSweep: the most read first; a read without characters is no     *)
(* plate.  CHOOSE stands for the order of the alphabet.                    *)
Count(p) == Cardinality({s \in read : Shot[s].plate = p})
MostReadFirst ==
    CHOOSE f \in [1..Cardinality({p \in Plates : Count(p) > 0}) -> {p \in Plates : Count(p) > 0}] :
      /\ \A i, j \in DOMAIN f : i # j => f[i] # f[j]
      /\ \A i \in 1..Len(f) - 1 : Count(f[i]) >= Count(f[i + 1])
PlatesToSweep ==
    /\ job.pc = "plates"
    /\ job' = [job EXCEPT !.pc = "sweep",
                          !.due = SubSeq(MostReadFirst, 1, IF Len(MostReadFirst) < PlateLimit
                                                           THEN Len(MostReadFirst) ELSE PlateLimit)]
    /\ UNCHANGED <<read, up, cache>>

-----------------------------------------------------------------------------
Trace(p) == InOrder({s \in read : Shot[s].plate # NA /\ Strength[p][Shot[s].plate] > 0})
Built(p) ==
    [i \in 1..Len(Trace(p)) - 1 |->
       LET a == Trace(p)[i]
           b == Trace(p)[i + 1]
       IN  Segment(a, b, up /\ <<Shot[a].camera, Shot[b].camera>> \in DOMAIN Drive)]
Hit(p) == Persist /\ cache[p] # NA /\ cache[p].fingerprint = Trace(p)
Route(p) == IF Hit(p) THEN cache[p].segments ELSE Built(p)

Report(p) ==
    [i \in DOMAIN Route(p) |->
       LET g == Route(p)[i] IN Finding(Route(p), g, LinkConfidence(p, g.from) * LinkConfidence(p, g.to))]

(* A hop is the pair of its sightings: the first report that shows it      *)
(* decides how it is counted.                                              *)
Pair(f) == <<f.from, f.to>>
Counted(reports) == UNION {{Pair(reports[k][i]) : i \in DOMAIN reports[k]} : k \in DOMAIN reports}

(* Mutant of Fresh: the totals count queries. *)
FreshInReport(report, reports) == ToSet(report)

Fresh(report, reports) == {f \in ToSet(report) : Pair(f) \notin Counted(reports)}

Tally(total, fresh) ==
    LET impossible == {f \in fresh : f.feasibility = "impossible"}
        Of(why) == Cardinality({f \in impossible : f.explanation = why})
    IN  [traced |-> total.traced + 1,
         segments |-> total.segments + Cardinality(fresh),
         evaluable |-> total.evaluable + Cardinality({f \in fresh : f.feasibility # "indeterminate"}),
         impossible |-> total.impossible + Cardinality(impossible),
         misread |-> total.misread + Of("likely_misread"), cloned |-> total.cloned + Of("likely_cloned"),
         undetermined |-> total.undetermined + Of("undetermined"),
         alerts |-> total.alerts + Cardinality({f \in impossible : f.alert # NA})]

Skip ==
    /\ job.pc = "sweep" /\ job.due # <<>> /\ Len(Trace(Head(job.due))) < 2
    /\ job' = [job EXCEPT !.due = Tail(@)]
    /\ UNCHANGED <<read, up, cache>>

Examine ==
    /\ job.pc = "sweep" /\ job.due # <<>>
    /\ LET p == Head(job.due)
       IN  /\ Len(Trace(p)) >= 2
           /\ job' = [job EXCEPT !.due = Tail(@), !.reports = Append(@, Report(p)),
                                 !.total = Tally(@, Fresh(Report(p), job.reports))]
           /\ cache' = IF Persist /\ ~Hit(p)
                       THEN [cache EXCEPT ![p] =
                               [fingerprint |-> Trace(p),
                                segments |-> [i \in DOMAIN Built(p) |-> AsStored(Built(p)[i])]]]
                       ELSE cache
    /\ UNCHANGED <<read, up>>

(* interpretation: three different zeros, each with a sentence of its own. *)
Causes(measured) ==
    (IF measured.placed < 2 THEN {"placement"} ELSE {})
    \union (IF ~Ways THEN {"road_network"} ELSE {})
    \union (IF measured.placed >= 2 /\ Ways THEN {"downstream"} ELSE {})
Interpretation(measured, total) ==
    CASE measured.sightings = 0 -> [says |-> "nothing swept", causes |-> {}]
      [] measured.sightings > 0 /\ total.evaluable = 0 -> [says |-> "not testable", causes |-> Causes(measured)]
      [] measured.sightings > 0 /\ total.evaluable > 0 /\ total.impossible = 0 -> [says |-> "none impossible", causes |-> {}]
      [] OTHER -> [says |-> IF total.impossible * 5 > total.evaluable THEN "suspect the clocks" ELSE "rate", causes |-> {}]
Conclude ==
    /\ job.pc = "sweep" /\ job.due = <<>>
    /\ job' = [job EXCEPT !.pc = "done",
                          !.says = Interpretation(job.measured, job.total)]
    /\ UNCHANGED <<read, up, cache>>

-----------------------------------------------------------------------------
Arrive(s) ==
    /\ s \notin read /\ read' = read \union {s}
    /\ UNCHANGED <<up, cache, job>>
Router == up' = ~up /\ UNCHANGED <<read, cache, job>>

Idle == [pc |-> "estate", measured |-> NA, due |-> <<>>, reports |-> <<>>, total |-> Zero, says |-> NA]
Init == read = Early /\ up = TRUE /\ cache = [p \in Plates |-> NA] /\ job = Idle

(* The next sweep finds what this one left in the cache.                   *)
Restart == job.pc = "done" /\ job' = Idle /\ UNCHANGED <<read, up, cache>>

Next ==
    \/ Estate \/ PlatesToSweep \/ Skip \/ Examine \/ Conclude \/ Restart
    \/ Router \/ \E s \in DOMAIN Shot : Arrive(s)

Spec == Init /\ [][Next]_vars

-----------------------------------------------------------------------------
Shown == UNION {ToSet(job.reports[k]) : k \in DOMAIN job.reports}

(* The totals count transitions, not queries: however many spellings of a  *)
(* plate trace the same pair, and whatever arrives or fails meanwhile, a   *)
(* pair is counted once, the breakdown adds up, and a sweep that calls     *)
(* hops impossible has a report that shows each of them.  What it says of  *)
(* an untestable estate is only said when no hop was assessed.             *)
SweepAddsUp ==
    LET t == job.total
    IN  /\ TypeOK
        /\ t.segments = Cardinality({Pair(f) : f \in Shown})
        /\ t.misread + t.cloned + t.undetermined = t.impossible /\ t.impossible <= t.evaluable
        /\ t.impossible <= Cardinality({Pair(f) : f \in {x \in Shown : x.feasibility = "impossible"}})
        /\ t.alerts <= t.cloned
        /\ job.says # NA /\ job.says.says = "none impossible" =>
             \E f \in Shown : f.feasibility = "feasible"
=============================================================================
