------------------------------ MODULE TrustLoop ------------------------------
(***************************************************************************)
(* The trust loop: the prober measures cameras and appends health checks   *)
(* (workers/prober), trust:recompute scores them and copies the newest     *)
(* score to the registry (jobs/trust-recompute.ts, services/trust.ts), and *)
(* four readers turn that into a band.  Passes and recomputations are      *)
(* separate processes; nothing keeps two of either from overlapping.       *)
(***************************************************************************)
EXTENDS Integers, FiniteSets, FiniteSetsExt

CONSTANTS
    Camera,
    Passes,         \* passes of the prober
    Recomputes,     \* runs of trust:recompute
    Outcomes,       \* what a probe can come back with (see ProbeAssumption)
    Weights,        \* version -> signal -> weight: config/trust-weights.json as it is edited
    NA              \* a signal that was not measured

Signals == {"focus", "light", "tamper", "frameRate", "clock"}
Quality == 0..100 \union {NA}

(* probe_camera: an unreachable camera measures nothing; a recording's     *)
(* clock is not judged.                                                    *)
ProbeAssumption ==
    \A o \in Outcomes :
        /\ o.connectable \in BOOLEAN /\ o.decodable \in BOOLEAN /\ o.retryable \in BOOLEAN
        /\ o.vod \in BOOLEAN /\ o.quality \in [Signals -> Quality]
        /\ o.decodable => o.connectable /\ ~o.retryable
        /\ ~o.decodable => \A s \in Signals : o.quality[s] = NA
        /\ o.quality["light"] = NA <=> o.quality["focus"] = NA
WeightsAssumption == \A v \in DOMAIN Weights : Weights[v] \in [Signals \union {"reachability"} -> Nat]

VARIABLES
    clock,      \* counts events: what now() reads
    passes,     \* run_pass: cameras still out, results that came back, transaction start
    checks,     \* camera_health_checks
    score,      \* cameras.trust_score, in hundredths, or NA
    version,    \* of the weights on disk
    jobs,       \* recompute: the rows it read, its weights
    behind      \* history: a recomputation died and none has ended since

vars == <<clock, passes, checks, score, version, jobs, behind>>

Idle == [pc |-> "idle"]
Ended == [pc |-> "ended"]

TypeOK ==
    /\ clock \in Nat
    /\ \A p \in Passes : passes[p].pc \in {"idle", "running", "ended"}
    /\ \A k \in checks : k.camera \in Camera /\ k.at <= clock /\ k.outcome \in Outcomes
    /\ score \in [Camera -> 0..10000 \union {NA}]
    /\ version \in DOMAIN Weights
    /\ \A j \in Recomputes : jobs[j].pc \in {"idle", "scoring", "copying", "ended"}

-----------------------------------------------------------------------------
(* score(): the signals that can be judged, each with its share of 100     *)
(* points, rounded to hundredths before they are added up.                 *)
Reach(o) == IF o.decodable THEN 100 ELSE 0

Applicable(o) == {s \in Signals : o.quality[s] # NA /\ (s = "clock" => ~o.vod)}

QualityOf(o, s) == IF o.quality[s] = NA THEN 0 ELSE o.quality[s]
Round(n, d) == (2 * n + d) \div (2 * d)
Score(o, v) ==
    LET w == Weights[v]
        judged == Applicable(o)
        total == w["reachability"] + MapThenSumSet(LAMBDA s : w[s], judged)
        Points(weight, q) == Round(weight * q * 100, total)
    IN  Points(w["reachability"], Reach(o))
          + MapThenSumSet(LAMBDA s : Points(w[s], QualityOf(o, s)), judged)

Band(s, reachable) ==
    CASE ~reachable -> "dead"
      [] reachable /\ s >= 7000 -> "trusted"
      [] reachable /\ s < 7000 /\ s >= 4000 -> "degraded"
      [] OTHER -> "untrusted"

-----------------------------------------------------------------------------
(* run_pass.  select_cameras opens the transaction the first row is        *)
(* inserted in, so that row carries the time the pass began.               *)
StartPass(p) ==
    /\ passes[p] = Idle
    /\ clock' = clock + 1
    /\ passes' = [passes EXCEPT ![p] = [pc |-> "running", out |-> Camera, back |-> {}, begun |-> clock']]
    /\ UNCHANGED <<checks, score, version, jobs, behind>>

(* A probe comes back from the pool, in any order. *)
Probe(p, c) ==
    /\ passes[p].pc = "running"
    /\ c \in passes[p].out
    /\ \E o \in Outcomes :
          passes' = [passes EXCEPT ![p].out = @ \ {c}, ![p].back = @ \union {[camera |-> c, outcome |-> o]}]
    /\ UNCHANGED <<clock, checks, score, version, jobs, behind>>

(* insert_health_check and commit: now() is the time of the transaction. *)
Record(p) ==
    /\ passes[p].pc = "running"
    /\ clock' = clock + 1
    /\ \E r \in passes[p].back :
          /\ checks' = checks \union {[camera |-> r.camera, outcome |-> r.outcome, score |-> NA, version |-> NA,
                                       at |-> IF passes[p].begun = NA THEN clock' ELSE passes[p].begun]}
          /\ passes' = [passes EXCEPT ![p].back = @ \ {r}, ![p].begun = NA]
    /\ UNCHANGED <<score, version, jobs, behind>>

EndPass(p) ==
    /\ passes[p].pc = "running" /\ passes[p].out = {} /\ passes[p].back = {}
    /\ passes' = [passes EXCEPT ![p] = Ended]
    /\ UNCHANGED <<clock, checks, score, version, jobs, behind>>

(* The sweep dies: what was recorded stays. *)
KillPass(p) ==
    /\ passes[p].pc = "running"
    /\ passes' = [passes EXCEPT ![p] = Ended]
    /\ UNCHANGED <<clock, checks, score, version, jobs, behind>>

-----------------------------------------------------------------------------
(* recompute: the rows are read once, written one by one with no           *)
(* transaction around them, then every camera takes its newest check.      *)
Key(k) == <<k.camera, k.at>>

ReadChecks(j) ==
    /\ jobs[j] = Idle
    /\ \E all \in BOOLEAN :
         LET rows == {k \in checks : all \/ k.score = NA}
         IN  jobs' = [jobs EXCEPT ![j] = [pc |-> "scoring", rows |-> rows, weights |-> version]]
    /\ UNCHANGED <<clock, passes, checks, score, version, behind>>

Storable(s) == s \in 0..10000     \* the CHECK on camera_health_checks.trust_score

ScoreRow(j) ==
    /\ jobs[j].pc = "scoring"
    /\ \E k \in jobs[j].rows :
         LET s == Score(k.outcome, jobs[j].weights)
         IN  /\ Storable(s)
             /\ checks' = {IF Key(x) = Key(k) THEN [x EXCEPT !.score = s, !.version = jobs[j].weights] ELSE x :
                              x \in checks}
             /\ jobs' = [jobs EXCEPT ![j].rows = @ \ {k}]
    /\ UNCHANGED <<clock, passes, score, version, behind>>

RowsDone(j) ==
    /\ jobs[j].pc = "scoring" /\ jobs[j].rows = {}
    /\ jobs' = [jobs EXCEPT ![j].pc = "copying"]
    /\ UNCHANGED <<clock, passes, checks, score, version, behind>>

Checked(c) == {k \in checks : k.camera = c}
Latest(c) == CHOOSE k \in Checked(c) : \A x \in Checked(c) : x.at <= k.at

(* Mutant of Copied: only cameras that have no score yet. *)
CopiedIfNew(c) ==
    IF Checked(c) = {} \/ score[c] # NA THEN score[c] ELSE Latest(c).score

Copied(c) == IF Checked(c) = {} THEN score[c] ELSE Latest(c).score

CopyScores(j) ==
    /\ jobs[j].pc = "copying"
    /\ score' = [c \in Camera |-> Copied(c)]
    /\ jobs' = [jobs EXCEPT ![j] = Ended]
    /\ behind' = FALSE
    /\ UNCHANGED <<clock, passes, checks, version>>

(* The process dies, of a signal or of an UPDATE the CHECK refused. *)
KillJob(j) ==
    /\ jobs[j].pc \in {"scoring", "copying"}
    /\ jobs' = [jobs EXCEPT ![j] = Ended]
    /\ behind' = TRUE
    /\ UNCHANGED <<clock, passes, checks, score, version>>

(* config/trust-weights.json is edited; a job loads it when it starts. *)
EditWeights ==
    /\ version + 1 \in DOMAIN Weights
    /\ version' = version + 1
    /\ UNCHANGED <<clock, passes, checks, score, jobs, behind>>

-----------------------------------------------------------------------------
Init ==
    /\ clock = 0 /\ checks = {} /\ version = 1 /\ behind = FALSE
    /\ passes = [p \in Passes |-> Idle]
    /\ jobs = [j \in Recomputes |-> Idle]
    /\ score = [c \in Camera |-> NA]

Next ==
    \/ \E p \in Passes : StartPass(p) \/ Record(p) \/ EndPass(p) \/ KillPass(p)
    \/ \E p \in Passes, c \in Camera : Probe(p, c)
    \/ \E j \in Recomputes : ReadChecks(j) \/ ScoreRow(j) \/ RowsDone(j) \/ CopyScores(j) \/ KillJob(j)
    \/ EditWeights

Spec == Init /\ [][Next]_vars

-----------------------------------------------------------------------------
(* The readers of the band: the registry, the map and the wall             *)
(* (trust-band-sql.ts, streams.ts), one camera (GET /cameras/:id/trust)    *)
(* and the estate summary (GET /trust/summary).                            *)
Reachable(c) == Checked(c) = {} \/ Latest(c).outcome.connectable

RegistryBand(c) == IF score[c] = NA THEN NA ELSE Band(score[c], Reachable(c))

DetailBand(c) == IF score[c] = NA THEN NA ELSE Band(score[c], Reachable(c))
SummaryBand(c) ==
    CASE ~Reachable(c) -> "dead"
      [] Reachable(c) /\ score[c] = NA -> NA
      [] OTHER -> Band(score[c], TRUE)

(* With no recomputation under way (and none dead since the last one that  *)
(* ended), a camera whose newest check is scored shows that check's score, *)
(* however passes, recomputations and edits of the weights overlapped.     *)
RegistryIsCurrent ==
    (\A j \in Recomputes : jobs[j].pc \in {"idle", "ended"}) /\ ~behind =>
      \A c \in Camera :
        Checked(c) # {} => Latest(c).score \in {NA, score[c]}

(* A camera that did not answer its newest check is green or amber on no   *)
(* screen, whatever its stored score still says.                           *)
DeadIsNeverGreen ==
    \A c \in Camera :
      Checked(c) # {} /\ ~Latest(c).outcome.connectable =>
        {RegistryBand(c), DetailBand(c), SummaryBand(c)} \subseteq {"dead", NA}

(* "A signal that cannot be judged is excluded from the denominator, never *)
(* scored zero": a score lies between the worst and the best of what was   *)
(* judged, but for the rounding of each signal's share.                    *)
ScoreIsAnAverage ==
    \A k \in checks : k.score # NA =>
      LET measured == {s \in Signals : k.outcome.quality[s] # NA /\ ~(s = "clock" /\ k.outcome.vod)}
          judged == {Reach(k.outcome)} \union {k.outcome.quality[s] : s \in measured}
          slack == Cardinality(measured) + 1
      IN  /\ k.score >= 100 * (CHOOSE q \in judged : \A r \in judged : q <= r) - slack
          /\ k.score <= 100 * (CHOOSE q \in judged : \A r \in judged : q >= r) + slack

(* What is shown of a camera was measured: the registry has the newest     *)
(* score, no screen colours a camera that did not answer, and a score lies *)
(* between the best and the worst that was judged.                         *)
ScoresAreEarned == TypeOK /\ RegistryIsCurrent /\ DeadIsNeverGreen /\ ScoreIsAnAverage
=============================================================================
