---------------------------- MODULE QueryConsole ----------------------------
(***************************************************************************)
(* The plain-English console: trace/query-console.tsx and its actions, the *)
(* routes of routes/query.ts, and the executor of query/execute.ts with    *)
(* the queries of query/sql.ts.  A filter keeps one constraint of each     *)
(* kind a query treats differently: registration, colour, camera, second   *)
(* leg.  The language model may answer with any valid filter or fail.      *)
(* Server actions of one page run one at a time, in the order they were    *)
(* asked; both buttons stay enabled meanwhile, because startTransition is  *)
(* given a function that returns before its request does.                  *)
(***************************************************************************)
EXTENDS Naturals, Sequences, FiniteSets

CONSTANTS
    Row,            \* the sightings: ts, cam, colour and plate of each
    Camera,         \* external ids a filter can name
    Estate,         \* those onboarded from the start
    Similar,        \* registration -> the plates the matcher finds for it
    Unreadable,     \* registrations the grammar refuses
    Filters,        \* filters a model may write
    None,
    MaxTexts, MaxAsks       \* bounds of the model: questions typed, buttons pressed

VARIABLES
    landed,         \* how many of the sightings are stored
    estate,         \* external_ids in cameras
    text, purpose,  \* what is typed: the question, by number, and whether a purpose is
    compiled, draft,    \* ConsoleState
    outcome,        \* of the last compilation
    result,         \* the answer on screen
    asks,           \* requests, first come first served
    found,          \* what the executor has found out for the first of them
    audit,          \* the query.nl.* entries
    asked           \* buttons pressed so far

console == <<text, purpose, compiled, draft, outcome, result>>

vars == <<landed, estate, console, asks, found, audit, asked>>

-----------------------------------------------------------------------------
(* A filter and what it selects.                                           *)

Filter ==
    [plate : {None} \union [pattern : DOMAIN Similar, mode : {"exact", "fuzzy"}],
     colours : SUBSET {Row[i].colour : i \in DOMAIN Row}, cams : SUBSET Camera,
     step : {None} \union [cams : SUBSET Camera, within : Nat], limit : Nat \ {0}]

(* Why an answer can be empty. *)
Reasons == {"plate_not_searchable", "no_matching_plate", "unknown_camera", "no_rows"}

QueryAssumption ==
    /\ Estate \subseteq Camera
    /\ Len(Row) \in Nat /\ \A i \in 1..Len(Row) : Row[i].ts \in Nat
    /\ Filters \subseteq Filter /\ None \notin Filter \union Reasons
    /\ MaxTexts \in Nat

Chip == {"plate", "colours", "cams", "step"}

RemoveChip(filter, chip) ==
    [filter EXCEPT ![chip] = IF chip \in {"plate", "step"} THEN None ELSE {}]

Stored == 1..landed

(* placeClause and whereClauses: an empty list is no constraint. *)
At(cams, i) == cams = {} \/ Row[i].cam \in cams

Where(filter, plates, i) ==
    /\ filter.plate # None => Row[i].plate \in plates
    /\ filter.colours # {} => Row[i].colour \in filter.colours
    /\ At(filter.cams, i)

(* The second sighting of a pair: the same registration, strictly later, within the window. *)
Follows(step, i, j) ==
    /\ Row[i].plate # None /\ Row[j].plate = Row[i].plate
    /\ Row[i].ts < Row[j].ts /\ Row[j].ts <= Row[i].ts + step.within
    /\ At(step.cams, j)

Hits(filter, plates) ==
    LET first == {i \in Stored : Where(filter, plates, i)}
        pairs == {p \in first \X Stored : Follows(filter.step, p[1], p[2])}
    IN  IF filter.step = None THEN first
        ELSE {p[1] : p \in pairs} \union {p[2] : p \in pairs}

Before(i, j) == Row[i].ts < Row[j].ts \/ (Row[i].ts = Row[j].ts /\ i < j)

Limited(filter, hits) == {i \in hits : Cardinality({j \in hits : Before(j, i)}) < filter.limit}

(* Registrations a filter stands for: resolvePlates. *)
Resolved(filter) ==
    IF filter.plate.mode = "exact" THEN {filter.plate.pattern}
    ELSE Similar[filter.plate.pattern] \intersect {Row[i].plate : i \in Stored}

(* unknownNames: of both legs. *)
Named(filter) == filter.cams \union (IF filter.step = None THEN {} ELSE filter.step.cams)

(* emptyReasonFor *)
EmptyReason(filter, seen) ==
    CASE seen.refused -> "plate_not_searchable"
      [] ~seen.refused /\ filter.plate # None /\ seen.plates = {} -> "no_matching_plate"
      [] ~seen.refused /\ (filter.plate # None => seen.plates # {}) /\ seen.unknown # {} -> "unknown_camera"
      [] OTHER -> "no_rows"

-----------------------------------------------------------------------------
Nothing == [refused |-> FALSE, plates |-> {}, unknown |-> {}, rows |-> {}, at |-> "start"]

Init ==
    /\ landed = 0 /\ estate = Estate
    /\ text = 0 /\ purpose = FALSE
    /\ compiled = None /\ draft = None /\ outcome = None /\ result = None
    /\ asks = <<>> /\ found = Nothing
    /\ audit = <<>>
    /\ asked = 0

CanCompile == text # 0 /\ purpose

CanRun == draft # None /\ purpose

CompileRequest == [kind |-> "compile", text |-> text, filter |-> None]

RunRequest == [kind |-> "run", text |-> text, filter |-> draft]

(* The rest of the system: sightings land, cameras are onboarded. *)
Land ==
    /\ landed < Len(Row) /\ Row[landed + 1].cam \in estate
    /\ landed' = landed + 1
    /\ UNCHANGED <<estate, console, asks, found, audit, asked>>

Onboard ==
    /\ \E c \in Camera \ estate : estate' = estate \union {c}
    /\ UNCHANGED <<landed, console, asks, found, audit, asked>>

(* The officer. *)
Type ==
    /\ text < MaxTexts /\ text' = text + 1
    /\ UNCHANGED <<landed, estate, purpose, compiled, draft, outcome, result, asks, found, audit, asked>>

StatePurpose ==
    /\ purpose' = ~purpose
    /\ UNCHANGED <<landed, estate, text, compiled, draft, outcome, result, asks, found, audit, asked>>

AskToCompile ==
    /\ CanCompile
    /\ asked < MaxAsks /\ asked' = asked + 1
    /\ asks' = Append(asks, CompileRequest)
    /\ result' = None
    /\ UNCHANGED <<landed, estate, text, purpose, compiled, draft, outcome, found, audit>>

AskToRun ==
    /\ CanRun
    /\ asked < MaxAsks /\ asked' = asked + 1
    /\ asks' = Append(asks, RunRequest)
    /\ UNCHANGED <<landed, estate, console, found, audit>>

Drop ==
    /\ draft # None
    /\ \E chip \in Chip :
         /\ draft' = RemoveChip(draft, chip)
         /\ draft' # draft      \* toChips: a constraint that is not there has no chip
    /\ result' = None
    /\ UNCHANGED <<landed, estate, text, purpose, compiled, outcome, asks, found, audit, asked>>

-----------------------------------------------------------------------------
(* The server.  A request ends with its answer, which the page handles.    *)

Ask == asks[1]

Entry(filter, rows) == [action |-> Ask.kind, text |-> Ask.text, filter |-> filter, rows |-> rows]

Answer ==
    [filter |-> Ask.filter, rows |-> found.rows,
     reason |-> IF found.rows # {} THEN None ELSE EmptyReason(Ask.filter, found)]

Answered == asks' = Tail(asks) /\ found' = Nothing

(* What a provider says: a filter, or anything that is none. *)
Said == Filters \union {None}

Finalise(said) ==
    IF said \in Filters THEN [filter |-> said, reason |-> "ok"] ELSE [filter |-> None, reason |-> "schema_rejected"]

NoAnswer == [filter : {None}, reason : {"not_configured", "provider_error", "schema_rejected"}]

(* POST /query/compile: whatever comes of it is recorded. *)
Compile ==
    /\ asks # <<>> /\ Ask.kind = "compile"
    /\ \E answer \in {Finalise(said) : said \in Said} \union NoAnswer :
         /\ audit' = Append(audit, Entry(answer.filter, {}))
         /\ outcome' = answer.reason
         /\ compiled' = answer.filter /\ draft' = answer.filter
    /\ Answered
    /\ UNCHANGED <<landed, estate, text, purpose, result, asked>>

(* POST /query/run, statement by statement. *)
ResolvePlates ==
    /\ asks # <<>> /\ Ask.kind = "run" /\ found.at = "start"
    /\ LET plate == Ask.filter.plate
           refused == plate # None /\ plate.pattern \in Unreadable
       IN  found' = [found EXCEPT !.at = "plates", !.refused = refused,
                                  !.plates = IF plate = None \/ refused THEN {} ELSE Resolved(Ask.filter)]
    /\ UNCHANGED <<landed, estate, console, asks, audit, asked>>

UnknownNames ==
    /\ asks # <<>> /\ found.at = "plates"
    /\ found' = [found EXCEPT !.at = "names", !.unknown = Named(Ask.filter) \ estate]
    /\ UNCHANGED <<landed, estate, console, asks, audit, asked>>

ReadRows ==
    /\ asks # <<>> /\ found.at = "names"
    /\ found' = [found EXCEPT !.at = "rows", !.rows = Limited(Ask.filter, Hits(Ask.filter, found.plates))]
    /\ UNCHANGED <<landed, estate, console, asks, audit, asked>>

(* Mutant of Release: the answer does not wait for the entry, which may fail. *)
ReleaseFirst ==
    /\ asks # <<>> /\ found.at = "rows"
    /\ audit' \in {audit, Append(audit, Entry(Ask.filter, found.rows))}
    /\ result' = Answer
    /\ Answered
    /\ UNCHANGED <<landed, estate, text, purpose, compiled, draft, outcome, asked>>

(* The answer leaves after its audit entry is in. *)
Release ==
    /\ asks # <<>> /\ found.at = "rows"
    /\ audit' = Append(audit, Entry(Ask.filter, found.rows))
    /\ result' = Answer
    /\ Answered
    /\ UNCHANGED <<landed, estate, text, purpose, compiled, draft, outcome, asked>>

(* The session has expired, a statement or the audit entry fails: an error, and nothing else changes. *)
Fail ==
    /\ asks # <<>>
    /\ Answered
    /\ UNCHANGED <<landed, estate, console, audit, asked>>

Next ==
    \/ Land \/ Onboard
    \/ Type \/ StatePurpose \/ AskToCompile \/ AskToRun \/ Drop
    \/ Compile \/ ResolvePlates \/ UnknownNames \/ ReadRows \/ Release \/ Fail

Spec == Init /\ [][Next]_vars

-----------------------------------------------------------------------------
(* The types of the console, of the request under way and of the log. *)
TypeOK ==
    /\ landed \in 0..Len(Row) /\ estate \subseteq Camera /\ text \in 0..MaxTexts /\ purpose \in BOOLEAN
    /\ compiled \in Filters \union {None} /\ draft \in Filter \union {None} /\ (compiled = None <=> draft = None)
    /\ result = None \/ (result.rows \subseteq Stored /\ (result.reason = None <=> result.rows # {}))
    /\ found.rows \subseteq Stored /\ found.at \in {"start", "plates", "names", "rows"}

(* What the officer has on screen is in the audit chain: the same filter   *)
(* with the same rows (routes/query.ts records after it has run and before *)
(* it answers).                                                            *)
ShownIsRecorded ==
    result # None =>
        \E k \in DOMAIN audit :
            audit[k].action = "run" /\ audit[k].filter = result.filter /\ audit[k].rows = result.rows

(* A sighting is only given as part of a journey when the same vehicle was *)
(* seen at another moment, within the window asked for (query/sql.ts:      *)
(* "reporting that as a journey would be inventing movement").             *)
JourneysMove ==
    (result # None /\ result.filter.step # None) =>
        \A i \in result.rows : \E j \in Stored :
            /\ Row[j].plate = Row[i].plate
            /\ Row[i].ts # Row[j].ts
            /\ Row[i].ts <= Row[j].ts + result.filter.step.within
            /\ Row[j].ts <= Row[i].ts + result.filter.step.within

(* Nothing found is not blamed on the sightings when the filter itself     *)
(* cannot match: a camera the estate still does not have, in either leg, or *)
(* a registration the grammar refuses (execute.ts, "cam99 has no sightings" *)
(* and "there is no cam99" are different answers).                         *)
EmptyIsExplained ==
    (result # None /\ result.rows = {}) =>
        /\ result.filter.cams \ estate # {} => result.reason # "no_rows"
        /\ (result.filter.step # None /\ result.filter.step.cams \ estate # {}) => result.reason # "no_rows"
        /\ (result.filter.plate # None /\ result.filter.plate.pattern \in Unreadable)
              => result.reason = "plate_not_searchable"

(* An answer can be defended: it is on record, its journeys moved, and its *)
(* emptiness has the right reason.                                         *)
AnswersAreDefensible == TypeOK /\ ShownIsRecorded /\ JourneysMove /\ EmptyIsExplained
=============================================================================
