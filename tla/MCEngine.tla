----------------------------- MODULE MCEngine -----------------------------
(***************************************************************************)
(* What the alert engine does with a read: AlertDedupe, DeliveryGate and   *)
(* AlertReason, and CloningSweep, in one run.  They share no state; "at"   *)
(* says which of them takes the steps of a behaviour.                      *)
(***************************************************************************)
EXTENDS AlertDedupe, Sequences, TLC

CONSTANTS w1, w2, e1, low, high, s1, s2, s3, NA, Engine, Severity, Cap, MaxWindow,
    MaxAlerts, MaxStops, Sightings, BestShots, Entry, Reads, MaxProbes,
    Shot, Early, Strength, Drive, Registration, Metric, Policy, Placed, Ways,
    PlateLimit, Persist

MCWriters == {w1, w2}
MCSeverity == {low, high}

(* Reads of the plate: around each threshold of the policy, one repaired,  *)
(* one refused, two that are no plates.                                    *)
Read(conf, validity, fixes, match, matchConf, crop) ==
    [conf |-> conf, empty |-> FALSE, refused |-> FALSE, validity |-> validity,
     fixes |-> fixes, nonPlate |-> FALSE, match |-> match,
     matchConf |-> matchConf, crop |-> crop]
MCReads ==
    {Read(c, "valid", 0, "exact", 100, "file") : c \in {24, 30, 54, 55, 79, 80}}
    \cup {Read(100, "partial", 1, "fuzzy", 80, "none"),
          Read(100, "invalid", 0, "exact", 100, "none")}
    \cup {[Read(90, "invalid", 0, m, 100, "file")
              EXCEPT !.nonPlate = TRUE, !.refused = TRUE] : m \in {"exact", "fuzzy"}}
MCEntry == [category |-> "wanted_person", severity |-> 4]

(* P passes from a to b twice, faster than the road allows, and once at    *)
(* leisure; Q is its neighbour, read weakly; R is read once.               *)
Seen(when, cam, plate, ocr) ==
    [ts |-> when, camera |-> cam, track |-> when, plate |-> plate, ocr |-> ocr, best |-> TRUE]
MCShot == <<Seen(0, "a", "P", 80), Seen(100, "b", "P", 80), Seen(3000, "a", "P", 90),
            Seen(3100, "b", "P", 80), Seen(3150, "b", "Q", 55), Seen(6000, "a", "R", 90)>>
MCStrength == [P |-> [P |-> 100, Q |-> 80, R |-> 0], Q |-> [P |-> 80, Q |-> 100, R |-> 0],
               R |-> [P |-> 0, Q |-> 0, R |-> 100]]
MCMetric == [x \in {"P", "Q", "R"} \X {"P", "Q", "R"} |->
               IF "R" \in {x[1], x[2]} THEN [distance |-> 2350, tail |-> 0]
               ELSE [distance |-> 1000, tail |-> 0]]
MCDrive == [x \in {<<"a", "b">>, <<"b", "a">>} |-> [time |-> 190, metres |-> 150]]
MCPolicy == [minElapsed |-> 50, maxKmh |-> 140, tolerance |-> 135, highOcr |-> 75, lowOcr |-> 60,
             neighbour |-> 2000, dominance |-> 50, minLink |-> 50, repeats |-> 2]

EngineSymmetry == Permutations(MCWriters) \union Permutations(MCSeverity)

VARIABLES
    at,     \* the component under way
    gate_clock, gate_current, gate_ready, gate_drained, gate_up,
    gate_digests, gate_shown, gate_hidden, gate_raised, gate_stops,
    reason_camera, reason_cache, reason_seen, reason_plate, reason_vehicle,
    reason_alert, reason_probes,
    sweep_read, sweep_up, sweep_cache, sweep_job

gateVars ==
    <<gate_clock, gate_current, gate_ready, gate_drained, gate_up,
      gate_digests, gate_shown, gate_hidden, gate_raised, gate_stops>>
reasonVars ==
    <<reason_camera, reason_cache, reason_seen, reason_plate, reason_vehicle,
      reason_alert, reason_probes>>
sweepVars ==
    <<sweep_read, sweep_up, sweep_cache, sweep_job>>

Gate == INSTANCE DeliveryGate WITH
    clock <- gate_clock, current <- gate_current, ready <- gate_ready,
    drained <- gate_drained, up <- gate_up, digests <- gate_digests,
    shown <- gate_shown, hidden <- gate_hidden, raised <- gate_raised,
    stops <- gate_stops

Reason == INSTANCE AlertReason WITH
    camera <- reason_camera, cache <- reason_cache, seen <- reason_seen,
    plate <- reason_plate, vehicle <- reason_vehicle, alert <- reason_alert,
    probes <- reason_probes

Sweep == INSTANCE CloningSweep WITH
    read <- sweep_read, up <- sweep_up, cache <- sweep_cache, job <- sweep_job

ASSUME GateConstants == Gate!GateAssumption
ASSUME ReasonConstants == Reason!ReasonAssumption
ASSUME SweepConstants == Sweep!SweepAssumption

engineVars == <<at, vars, gateVars, reasonVars, sweepVars>>

EngineInit ==
    /\ at \in {"dedupe", "gate", "reason", "sweep"}
    /\ Init
    /\ Gate!Init
    /\ reason_camera \in IF at = "reason" THEN Reason!Cameras ELSE {CHOOSE x \in Reason!Cameras : TRUE}
    /\ Reason!Init
    /\ Sweep!Init

EngineNext ==
    /\ UNCHANGED at
    /\ \/ /\ at = "dedupe" /\ Next
          /\ UNCHANGED <<gateVars, reasonVars, sweepVars>>
       \/ /\ at = "gate" /\ Gate!Next
          /\ UNCHANGED <<vars, reasonVars, sweepVars>>
       \/ /\ at = "reason" /\ Reason!Next
          /\ UNCHANGED <<vars, gateVars, sweepVars>>
       \/ /\ at = "sweep" /\ Sweep!Next
          /\ UNCHANGED <<vars, gateVars, reasonVars>>

EngineSpec == EngineInit /\ [][EngineNext]_engineVars

-----------------------------------------------------------------------------
(* Whatever fails or stops, no digest claims more than was suppressed or   *)
(* shown; without a stop the digests are the whole story.                  *)
DigestsAreHonest == at = "gate" => Gate!DigestsAreHonest

(* What an officer reads on an alert agrees with itself: its label with    *)
(* its severity, its link with its caveats.                                *)
CardIsConsistent == at = "reason" => Reason!CardIsConsistent

(* The totals of a sweep count each transition once, and claim nothing no  *)
(* report shows.                                                           *)
SweepAddsUp == at = "sweep" => Sweep!SweepAddsUp
=============================================================================
