---------------------------- MODULE ExportBundle ----------------------------
(***************************************************************************)
(* Evidence export (packages/api/src/services/export-bundle.ts): a build   *)
(* appends its audit entry, then writes a directory file by file, a        *)
(* manifest that lists every file with its digest, the digest of the       *)
(* manifest, and last the row in export_bundles.  verifyExportBundle, and  *)
(* the verifier shipped in the directory, judge a directory by what is in  *)
(* it alone.  Every build is of one registration.                          *)
(*                                                                         *)
(* A file is <<contents>>, or Torn when its write was cut short; its       *)
(* digest stands for it and is written as the file itself.                 *)
(***************************************************************************)
EXTENDS Naturals, Sequences, Functions

CONSTANTS
    Build,      \* the calls of buildExportBundle
    CaseRef,    \* case references an officer may type
    Slug,       \* what slug() makes of each: it forgets punctuation and case
    Sightings,  \* the sightings of the registration, in trace order
    MaxClock,   \* bound: seconds
    MaxVersion  \* bound: times a stored crop is written

ASSUME SlugAssumption == CaseRef \subseteq DOMAIN Slug
ASSUME SightingAssumption ==
    /\ Sightings \in Seq(Range(Sightings))
    /\ \A i, j \in DOMAIN Sightings : Sightings[i] = Sightings[j] => i = j
ASSUME BoundsAssumption == MaxClock \in Nat /\ MaxVersion \in Nat \ {0}

VARIABLES
    clock,      \* the second the wall clock shows
    known,      \* how many of the sightings have landed
    crop,       \* each sighting's stored crop: a version, or 0 for crop_uri null
    audit,      \* the export.bundle entries, in chain order
    disk,       \* directory -> file -> contents
    bundles,    \* the rows of export_bundles
    pc,         \* where each build is
    job,        \* what it was asked, and the trace it was given
    todo,       \* the files it has still to write
    items,      \* file -> digest, as addFile listed them
    omissions   \* the sightings it could include no crop of

shared == <<clock, known, crop, audit, bundles>>
vars == <<clock, known, crop, audit, disk, bundles, pc, job, todo, items, omissions>>

Dir == Range(Slug) \X (0..MaxClock)
Torn == <<>>
Empty == [f \in {} |-> Torn]
Idle == [case |-> "", trace |-> <<>>, entry |-> 0, tip |-> 0, dir |-> <<>>]

(* The files of a bundle. *)
Json == <<"report", "trace.json">>
Csv == <<"report", "trace.csv">>
CropFile(s) == <<"evidence", s>>
ManifestFile == <<"closing", "manifest.json">>
HashFile == <<"closing", "manifest.sha256">>
Closing == <<ManifestFile, HashFile, <<"closing", "verify.mjs">>, <<"closing", "README.txt">> >>

With(g, f, c) == [x \in DOMAIN g \union {f} |-> IF x = f THEN c ELSE g[x]]

Put(d, f, c) == disk' = [disk EXCEPT ![d] = With(@, f, c)]

Init ==
    /\ clock = 0
    /\ known = 0
    /\ crop = [s \in Range(Sightings) |-> 0]
    /\ audit = <<>>
    /\ disk = [d \in Dir |-> Empty]
    /\ bundles = {}
    /\ pc = [b \in Build |-> "idle"]
    /\ job = [b \in Build |-> Idle]
    /\ todo = [b \in Build |-> <<>>]
    /\ items = [b \in Build |-> Empty]
    /\ omissions = [b \in Build |-> {}]

-----------------------------------------------------------------------------
(* What goes on meanwhile: time, new sightings, crops linked or replaced.  *)
Tick ==
    /\ clock < MaxClock
    /\ clock' = clock + 1
    /\ UNCHANGED <<known, crop, audit, disk, bundles, pc, job, todo, items, omissions>>

Land ==
    /\ known < Len(Sightings)
    /\ known' = known + 1
    /\ UNCHANGED <<clock, crop, audit, disk, bundles, pc, job, todo, items, omissions>>

StoreCrop(s) ==
    /\ \E i \in 1..known : Sightings[i] = s
    /\ crop[s] < MaxVersion
    /\ crop' = [crop EXCEPT ![s] = @ + 1]
    /\ UNCHANGED <<clock, known, audit, disk, bundles, pc, job, todo, items, omissions>>

(* The route builds the trace: which sightings, and which of them have a   *)
(* crop.  The clock is read as the build starts.                           *)
Begin(b, c) ==
    /\ pc[b] = "idle"
    /\ pc' = [pc EXCEPT ![b] = "authorise"]
    /\ job' = [job EXCEPT ![b] =
          [Idle EXCEPT !.case = c, !.dir = <<Slug[c], clock>>,
             !.trace = [i \in 1..known |->
                          [sighting |-> Sightings[i], crop |-> crop[Sightings[i]] > 0]]]]
    /\ UNCHANGED <<clock, known, crop, audit, disk, bundles, todo, items, omissions>>

(* writeAudit commits on its own, before anything is written. *)
Authorise(b) ==
    /\ pc[b] = "authorise"
    /\ audit' = Append(audit, [build |-> b, case |-> job[b].case, resultCount |-> Len(job[b].trace)])
    /\ job' = [job EXCEPT ![b].entry = Len(audit')]
    /\ pc' = [pc EXCEPT ![b] = "tip"]
    /\ UNCHANGED <<clock, known, crop, disk, bundles, todo, items, omissions>>

Crops(t) == [i \in DOMAIN t |-> CropFile(t[i].sighting)]

Tasks(t) == <<Json, Csv>> \o Crops(t) \o Closing

(* chainTip, then mkdir(recursive): an existing directory is used as is. *)
Prepare(b) ==
    /\ pc[b] = "tip"
    /\ job' = [job EXCEPT ![b].tip = Len(audit)]
    /\ todo' = [todo EXCEPT ![b] = Tasks(job[b].trace)]
    /\ pc' = [pc EXCEPT ![b] = "write"]
    /\ UNCHANGED <<clock, known, crop, audit, disk, bundles, items, omissions>>

Next1(b) == Head(todo[b])
Writing(b) == pc[b] = "write" /\ todo[b] # <<>>
Done1(b) == todo' = [todo EXCEPT ![b] = Tail(@)]

(* addFile: the digest listed is of the bytes in hand. *)
AddFile(b, f, c) ==
    /\ Put(job[b].dir, f, <<c>>)
    /\ items' = [items EXCEPT ![b] = With(@, f, <<c>>)]

WriteReport(b) ==
    /\ Writing(b)
    /\ Next1(b) \in {Json, Csv}
    /\ AddFile(b, Next1(b), job[b].trace)
    /\ Done1(b)
    /\ UNCHANGED <<shared, pc, job, omissions>>

(* Mutant of Omit: the loop goes on without a word. *)
OmitSilently(b, s) == UNCHANGED omissions

Omit(b, s) == omissions' = [omissions EXCEPT ![b] = @ \union {s}]

(* One sighting of the trace: its crop embedded as it is now, or an        *)
(* omission - no crop stored, not servable, or not fetched.                *)
PackCrop(b) ==
    /\ Writing(b)
    /\ \E t \in Range(job[b].trace) :
          /\ Next1(b) = CropFile(t.sighting)
          /\ \/ t.crop /\ AddFile(b, Next1(b), crop[t.sighting]) /\ UNCHANGED omissions
             \/ Omit(b, t.sighting) /\ UNCHANGED <<disk, items>>
    /\ Done1(b)
    /\ UNCHANGED <<shared, pc, job>>

Manifest(b) ==
    [build |-> b, case |-> job[b].case, entry |-> job[b].entry, tip |-> job[b].tip,
     sightings |-> Len(job[b].trace), items |-> items[b], omissions |-> omissions[b]]

(* The four files the manifest does not list. *)
WriteClosing(b) ==
    /\ Writing(b)
    /\ Next1(b) \in Range(Closing)
    /\ Put(job[b].dir, Next1(b),
           <<IF Next1(b) \in {ManifestFile, HashFile} THEN Manifest(b) ELSE Next1(b)>>)
    /\ Done1(b)
    /\ UNCHANGED <<shared, pc, job, items, omissions>>

(* The row in export_bundles comes last. *)
RecordBundle(b) ==
    /\ pc[b] = "write" /\ todo[b] = <<>>
    /\ bundles' = bundles \union {Manifest(b)}
    /\ pc' = [pc EXCEPT ![b] = "done"]
    /\ UNCHANGED <<clock, known, crop, audit, disk, job, todo, items, omissions>>

(* The process dies, or a write or the insert throws: what is on disk      *)
(* stays, the file in hand perhaps half written.                           *)
Fail(b) ==
    /\ pc[b] \notin {"idle", "done", "failed"}
    /\ pc' = [pc EXCEPT ![b] = "failed"]
    /\ \/ UNCHANGED disk
       \/ /\ Writing(b)
          /\ \A t \in Range(job[b].trace) : Next1(b) = CropFile(t.sighting) => t.crop
          /\ Put(job[b].dir, Next1(b), Torn)
    /\ UNCHANGED <<shared, job, todo, items, omissions>>

Next ==
    \/ Tick \/ Land
    \/ \E s \in Range(Sightings) : StoreCrop(s)
    \/ \E b \in Build :
          \/ \E c \in CaseRef : Begin(b, c)
          \/ Authorise(b) \/ Prepare(b) \/ WriteReport(b) \/ PackCrop(b)
          \/ WriteClosing(b) \/ RecordBundle(b) \/ Fail(b)

Spec == Init /\ [][Next]_vars

-----------------------------------------------------------------------------
(* verifyExportBundle and verify.mjs report no failure. *)
Unlisted == Range(Closing)

Matches(d, m) ==
    /\ DOMAIN m.items \subseteq DOMAIN disk[d]
    /\ \A f \in DOMAIN m.items : disk[d][f] = m.items[f]
    /\ DOMAIN disk[d] \subseteq DOMAIN m.items \union Unlisted

Verifies(d) ==
    /\ {ManifestFile, HashFile} \subseteq DOMAIN disk[d]
    /\ disk[d][ManifestFile] # Torn
    /\ disk[d][HashFile] = disk[d][ManifestFile]
    /\ Matches(d, disk[d][ManifestFile][1])

TypeOK ==
    /\ clock \in 0..MaxClock /\ known \in 0..Len(Sightings)
    /\ crop \in [Range(Sightings) -> 0..MaxVersion]
    /\ \A e \in Range(audit) : e.build \in Build /\ e.case \in CaseRef
    /\ pc \in [Build -> {"idle", "authorise", "tip", "write", "done", "failed"}]
    /\ \A b \in Build : pc[b] \in {"tip", "write", "done"} => job[b].entry \in 1..Len(audit)
    /\ \A b \in Build : omissions[b] \subseteq Range(Sightings)

(* A directory that verifies is one whole export, however many builds      *)
(* wrote into it and wherever they were cut short: its manifest names the  *)
(* audit entry that authorised it, its trace is the one counted there, and *)
(* every sighting of that trace has its crop listed or its absence stated. *)
VerifiedIsWhole ==
    \A d \in Dir : Verifies(d) =>
        LET m == disk[d][ManifestFile][1]
            trace == disk[d][Json][1]
        IN  /\ m.entry \in DOMAIN audit /\ m.entry <= m.tip
            /\ audit[m.entry] = [build |-> m.build, case |-> m.case, resultCount |-> m.sightings]
            /\ Len(trace) = m.sightings
            /\ disk[d][Csv] = <<trace>>
            /\ \A t \in Range(trace) :
                  (CropFile(t.sighting) \in DOMAIN disk[d]) # (t.sighting \in m.omissions)

(* Builds whose directory is theirs alone. *)
Alone(b) == \A c \in Build \ {b} : pc[c] # "idle" => job[c].dir # job[b].dir

(* A build that ran to its end, alone in its directory, left a directory   *)
(* that verifies and that export_bundles has on record.                    *)
FinishedVerifies ==
    \A b \in Build : pc[b] = "done" /\ Alone(b) =>
        Verifies(job[b].dir) /\ disk[job[b].dir][ManifestFile][1] \in bundles

(* A directory verifies when, and only when, it is one whole export.       *)
BundlesAreWhole == TypeOK /\ VerifiedIsWhole /\ FinishedVerifies
=============================================================================
