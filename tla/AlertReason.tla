----------------------------- MODULE AlertReason -----------------------------
(***************************************************************************)
(* What an alert says of itself (api/services/alerts.ts): the severity a   *)
(* read earns under config/alert-policy.json, the label beside it, the     *)
(* stored "why" with its caveats, and the crop the alert shows when it is  *)
(* read back, after later sightings were folded into it and after the      *)
(* evidence consumer uploaded what was only a path on the worker's disk.   *)
(* One watchlist entry and one camera, reads within one dedupe window.     *)
(***************************************************************************)
EXTENDS Integers, Sequences

CONSTANTS
    Sightings,      \* sightings of one track
    BestShots,      \* those that are the track's best shot
    Entry,          \* [category, severity] of the watchlist entry
    Reads,          \* plate reads: [conf, empty, refused, validity, fixes, nonPlate, match, matchConf, crop]
    MaxProbes,      \* changes of the camera row explored
    NA

ReasonAssumption ==
    /\ Entry.severity \in 1..4 /\ NA \notin Int
    /\ Entry.category \in {"wanted_person", "stolen_vehicle", "blacklisted_vehicle", "suspect",
                            "missing_person"}
    /\ \A r \in Reads :
          /\ r.match \in {"exact", "fuzzy"} /\ r.validity \in {"valid", "partial", "invalid"}
          /\ r.conf \in 0..100 /\ r.matchConf \in 0..100 /\ r.fixes \in Nat
          /\ r.crop \in {"none", "file"}
    /\ MaxProbes \in Nat

VARIABLES
    camera,         \* the camera row: [trust, located]
    cache,          \* the engine's copy of it
    seen,           \* sightings stored
    plate, vehicle, \* crop_uri of the plate read and of the sighting: none, file or s3
    alert,          \* the alert row
    probes

vars == <<camera, cache, seen, plate, vehicle, alert, probes>>

Severities == 1..4      \* low, medium, high, critical
Trust == {"none", "low", "ok"}
Crops == {"none", "file", "s3"}
Cameras == [trust : Trust, located : BOOLEAN]

TypeOK ==
    /\ camera \in Cameras /\ cache \in Cameras \cup {NA}
    /\ seen \subseteq Sightings
    /\ plate \in [Sightings -> Crops] /\ vehicle \in [Sightings -> Crops]
    /\ alert # NA => alert.severity \in Severities /\ alert.last \in seen
    /\ probes \in 0..MaxProbes

-----------------------------------------------------------------------------
(* config/alert-policy.json; confidences are in millionths.                *)
ByCategory(c) ==
    CASE c = "missing_person" -> 1
      [] c = "suspect" -> 2
      [] c \in {"stolen_vehicle", "blacklisted_vehicle"} -> 3
      [] c = "wanted_person" -> 4

MinPlateConfidence == 250000
Matches == {"exact", "fuzzy"}
Validities == {"valid", "partial", "invalid"}
Ceiling(matches, validities, below, max) ==
    [match |-> matches, validity |-> validities, below |-> below, max |-> max]
Ceilings ==
    {Ceiling({"fuzzy"}, Validities, NA, 3), Ceiling(Matches, {"partial"}, NA, 3),
     Ceiling(Matches, {"invalid"}, NA, 1), Ceiling(Matches, Validities, 800000, 3),
     Ceiling(Matches, Validities, 550000, 2), Ceiling(Matches, Validities, 300000, 1)}

Lower(a, b) == IF a < b THEN a ELSE b

(* grammar.ts adjustConfidence; conf is in hundredths.                     *)
ValidityFactor(v) == CASE v = "valid" -> 100 [] v = "partial" -> 75 [] v = "invalid" -> 40
AdjustConfidence(r) ==
    (r.conf * ValidityFactor(r.validity) * (IF r.fixes = 0 THEN 10 ELSE 9)
            * (IF r.nonPlate THEN 25 ELSE 100) + 5) \div 10

CombinedConfidence(r) == (AdjustConfidence(r) * r.matchConf + 50) \div 100

Applies(c, r, combined) ==
    r.match \in c.match /\ r.validity \in c.validity /\ (c.below # NA => combined < c.below)

(* severityFor, with entrySeverity = "ceiling" as the policy has it: the   *)
(* category, lowered to the entry and to every ceiling that applies.       *)
SeverityFor(r) ==
    LET category == ByCategory(Entry.category)
        applied == {c \in Ceilings : Applies(c, r, CombinedConfidence(r))}
        bounds == {category, Entry.severity} \cup {c.max : c \in applied}
        final == CHOOSE b \in bounds : \A x \in bounds : b <= x
    IN  [final |-> final, lowered |-> final < category]

IdentificationStrength(r) ==
    LET combined == CombinedConfidence(r)
    IN  IF r.match = "exact" /\ r.validity = "valid" /\ combined >= 800000 THEN "confirmed"
        ELSE IF combined >= 550000 THEN "probable"
        ELSE IF combined >= 300000 THEN "possible" ELSE "weak"

-----------------------------------------------------------------------------
(* Mutant of Presign: whatever is stored is signed. *)
PresignAny(crop) == crop # "none"

(* A link is minted for an object of this bucket only.                     *)
Presign(crop) == crop = "s3"

OrElse(a, b) == IF a # "none" THEN a ELSE b
BestCrop == IF \E b \in BestShots \cap seen : vehicle[b] # "none"
            THEN vehicle[CHOOSE b \in BestShots \cap seen : vehicle[b] # "none"] ELSE "none"

(* reasonFor, on the camera as the engine remembers it.                    *)
ReasonFor(s, r, cam, crop) ==
    [strength |-> IdentificationStrength(r),
     camera |-> cam, crop |-> crop, url |-> Presign(crop),
     caveats |-> {"mock"}
        \cup {x \in {"fuzzy"} : r.match = "fuzzy"}
        \cup {x \in {"partial", "invalid"} : r.validity = x}
        \cup {x \in {"corrected"} : r.fixes > 0}
        \cup {x \in {"lowered"} : SeverityFor(r).lowered}
        \cup {x \in {"never probed"} : cam.trust = "none"}
        \cup {x \in {"untrusted"} : cam.trust = "low"}
        \cup {x \in {"no location"} : ~cam.located}
        \cup {x \in {"no crop URL"} : ~Presign(crop)}
        \cup {x \in {"not the best shot"} : s \notin BestShots}]

(* What correlate answers without reaching the alerts table.               *)
Skipped(r) ==
    \/ r.conf * 10000 < MinPlateConfidence
    \/ r.empty
    \/ r.refused /\ r.match = "fuzzy"

CropOf(s, r) == OrElse(r.crop, OrElse(vehicle[s], BestCrop))

(* A read is stored and correlated: it raises the alert, or is folded into *)
(* it, which keeps the severity, the reason and the match of the first.    *)
Correlate(s, r) ==
    LET cam == IF cache = NA THEN camera ELSE cache
    IN  /\ s \notin seen
        /\ seen' = seen \cup {s}
        /\ plate' = [plate EXCEPT ![s] = r.crop]
        /\ IF Skipped(r) THEN UNCHANGED <<cache, alert>>
           ELSE /\ cache' = cam
                /\ alert' = IF alert = NA
                            THEN [severity |-> SeverityFor(r).final, last |-> s, folded |-> {s},
                                  reason |-> ReasonFor(s, r, cam, CropOf(s, r))]
                            ELSE [alert EXCEPT !.last = s, !.folded = @ \cup {s}]
        /\ UNCHANGED <<camera, vehicle, probes>>

(* The evidence consumer's uploads (EvidenceConsumer models their order).  *)
UploadPlate(s) ==
    /\ s \in seen /\ plate[s] = "file"
    /\ plate' = [plate EXCEPT ![s] = "s3"]
    /\ UNCHANGED <<camera, cache, seen, vehicle, alert, probes>>

UploadVehicle(s) ==
    /\ s \in seen \cap BestShots /\ vehicle[s] = "none"
    /\ vehicle' = [vehicle EXCEPT ![s] = "s3"]
    /\ UNCHANGED <<camera, cache, seen, plate, alert, probes>>

(* A probe or a catalogue sync writes the camera row; the engine keeps the *)
(* copy it took until it is restarted.                                     *)
ChangeCamera(c) ==
    /\ probes < MaxProbes /\ c # camera
    /\ camera' = c /\ probes' = probes + 1
    /\ UNCHANGED <<cache, seen, plate, vehicle, alert>>

Restart ==
    /\ cache # NA /\ cache' = NA
    /\ UNCHANGED <<camera, seen, plate, vehicle, alert, probes>>

Init ==
    /\ camera \in Cameras /\ cache = NA /\ seen = {} /\ alert = NA /\ probes = 0
    /\ plate = [s \in Sightings |-> "none"] /\ vehicle = [s \in Sightings |-> "none"]

Next ==
    \/ \E s \in Sightings, r \in Reads : Correlate(s, r)
    \/ \E s \in Sightings : UploadPlate(s) \/ UploadVehicle(s)
    \/ \E c \in Cameras : ChangeCamera(c)
    \/ Restart

Spec == Init /\ [][Next]_vars

-----------------------------------------------------------------------------
(* SELECT_ALERT's current_crop_uri and rowToRecord: the alert as it is     *)
(* served, with the crop of its last sighting as it stands now.            *)
CurrentCrop == OrElse(plate[alert.last], vehicle[alert.last])

ShownEvidence ==
    LET crop == OrElse(CurrentCrop, alert.reason.crop)
    IN  [crop |-> crop, url |-> Presign(crop)]

ShownCaveats ==
    IF ShownEvidence.url THEN alert.reason.caveats \ {"no crop URL"} ELSE alert.reason.caveats

(* The label and the severity of an alert never tell different stories:    *)
(* the label's own thresholds (identificationStrength) and the ceilings of *)
(* the policy file agree at every boundary, and only a label of            *)
(* "confirmed" leaves what the category and the entry ask for.             *)
LabelAgreesWithSeverity ==
    alert # NA =>
        LET asked == Lower(ByCategory(Entry.category), Entry.severity)
        IN  CASE alert.reason.strength = "weak" -> alert.severity = 1
              [] alert.reason.strength = "possible" -> alert.severity <= 2
              [] alert.reason.strength = "probable" -> alert.severity <= 3
              [] alert.reason.strength = "confirmed" -> alert.severity = asked

(* However folds and uploads interleave, a served alert never carries a    *)
(* link beside a caveat that there is none, and its link is always to a    *)
(* stored object (reasonWithCurrentCrop, presignerFor).                    *)
LinkIsServable ==
    alert # NA /\ ShownEvidence.url =>
        ShownEvidence.crop = "s3" /\ "no crop URL" \notin ShownCaveats

(* What an officer reads on an alert agrees with itself: label with        *)
(* severity, and link with caveats.                                        *)
CardIsConsistent == TypeOK /\ LabelAgreesWithSeverity /\ LinkIsServable
=============================================================================
