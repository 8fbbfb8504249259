--------------------------- MODULE CatalogueSync ---------------------------
(***************************************************************************)
(* Catalogue syncs (syncCatalogue, packages/api/src/jobs/catalogue-sync.ts *)
(* ) against the camera registry that officers edit meanwhile.  A run      *)
(* fetches and parses the upstream list, loads the cameras in its scope,   *)
(* diffs the two in memory, and only then opens the transaction that       *)
(* writes the difference: everything it decided rests on a read made       *)
(* outside that transaction.  Runs come from the schedule, the API and the *)
(* CLI, and nothing but the scheduler's own in-flight flag keeps two       *)
(* apart.                                                                  *)
(*                                                                         *)
(* The transaction is one action: its statements address rows by id, write *)
(* values fixed beforehand, and keep every row lock to the end, so two of  *)
(* them either serialise or deadlock (Abort).                              *)
(***************************************************************************)
EXTENDS Naturals, FiniteSets, Sequences, SequencesExt

CONSTANTS
    Runner,         \* callers of syncCatalogue; each has one run at a time
    External,       \* external_id
    Department,
    Unassigned,     \* the null department
    Value,          \* values of name and address
    Null,           \* an address nobody gave
    Unlisted,       \* an external id the catalogue does not list
    Payload,        \* the catalogues that can arrive: [External -> Entry]
    MaxRuns, MaxEdits, MaxAborts    \* bounds of the model

CatalogueAssumption ==
    /\ Null \notin Value
    /\ Unassigned \notin Department
    /\ MaxRuns \in Nat /\ MaxEdits \in Nat /\ MaxAborts \in Nat

VARIABLES
    cams,       \* the registry; a row's id is its place
    runs,       \* catalogue_sync_runs
    pc, payload, scope,     \* each runner's run,
    snapshot,   \* and the registry as its loadScope saw it
    started, edits, aborts

counters == <<started, edits, aborts>>
vars == <<cams, runs, pc, payload, scope, snapshot, counters>>

Scope == Department \union {Unassigned}

(* The name is always supplied (the parser falls back to the id); a field  *)
(* the catalogue omits is Null here and means nothing is known.            *)
Entry == [name : Value, address : Value \union {Null}]

Camera ==
    [dept : Scope, ext : External, name : Value, address : Value \union {Null},
     status : {"active", "absent"}, deleted : BOOLEAN]

Report ==
    [ok : BOOLEAN, added : Nat, updated : Nat, wentAbsent : Nat, returned : Nat]

Failed == [ok |-> FALSE, added |-> 0, updated |-> 0, wentAbsent |-> 0, returned |-> 0]

(* cameras_department_external_uk: nulls compare equal, and decommissioned *)
(* rows count.                                                             *)
KeyFree(d, e) == \A i \in DOMAIN cams : cams[i].dept # d \/ cams[i].ext # e

TypeOK ==
    /\ cams \in Seq(Camera)
    /\ runs \in Seq(Report)
    /\ pc \in [Runner -> {"idle", "parsed", "diffed"}]
    /\ payload \in [Runner -> Payload]
    /\ scope \in [Runner -> Scope]
    /\ snapshot \in [Runner -> Seq(Camera)]
    /\ started \in 0..MaxRuns /\ edits \in 0..MaxEdits /\ aborts \in 0..MaxAborts
    /\ \A i, j \in DOMAIN cams :
          cams[i].dept = cams[j].dept /\ cams[i].ext = cams[j].ext => i = j

Init ==
    /\ cams = <<>>
    /\ runs = <<>>
    /\ pc = [s \in Runner |-> "idle"]
    /\ payload = [s \in Runner |-> CHOOSE p \in Payload : TRUE]
    /\ scope = [s \in Runner |-> Unassigned]
    /\ snapshot = [s \in Runner |-> <<>>]
    /\ started = 0 /\ edits = 0 /\ aborts = 0

-----------------------------------------------------------------------------
(* The diff, from the payload and the rows loaded.                         *)

Listed(s, e) == payload[s][e] # Unlisted

InScope(s) == {i \in DOMAIN snapshot[s] : snapshot[s][i].dept = scope[s]}

ToInsert(s) ==
    {e \in External : Listed(s, e) /\ \A i \in InScope(s) : snapshot[s][i].ext # e}

Matched(s) ==
    {i \in InScope(s) : ~snapshot[s][i].deleted /\ Listed(s, snapshot[s][i].ext)}

WentAbsent(s) ==
    {i \in InScope(s) : /\ ~snapshot[s][i].deleted
                        /\ snapshot[s][i].status = "active"
                        /\ ~Listed(s, snapshot[s][i].ext)}

Returned(s) == {i \in Matched(s) : snapshot[s][i].status = "absent"}

(* changedFields: which columns the update will set. *)
Changed(entry, seen) ==
    [name |-> entry.name # seen.name,
     address |-> entry.address # Null /\ entry.address # seen.address]

(* Mutant of Updated: a camera that came back counts only as an update. *)
UpdatedOrReturned(s) ==
    {i \in Matched(s) :
        LET c == Changed(payload[s][snapshot[s][i].ext], snapshot[s][i])
        IN  c.name \/ c.address \/ i \in Returned(s)}

Updated(s) ==
    {i \in Matched(s) \ Returned(s) :
        LET c == Changed(payload[s][snapshot[s][i].ext], snapshot[s][i])
        IN  c.name \/ c.address}

(* The row as the update leaves it: the columns decided on at the diff, on *)
(* top of whatever the row holds now.                                      *)
Written(s, i) ==
    LET entry == payload[s][snapshot[s][i].ext]
        c == Changed(entry, snapshot[s][i])
    IN  [cams[i] EXCEPT !.name = IF c.name THEN entry.name ELSE @,
                        !.address = IF c.address THEN entry.address ELSE @,
                        !.status = IF i \in Returned(s) THEN "active" ELSE @]

Inserted(s, e) ==
    [dept |-> scope[s], ext |-> e, name |-> payload[s][e].name,
     address |-> payload[s][e].address, status |-> "active", deleted |-> FALSE]

ReportOf(s) ==
    [ok |-> TRUE,
     added |-> Cardinality(ToInsert(s)),
     updated |-> Cardinality(Updated(s)),
     wentAbsent |-> Cardinality(WentAbsent(s)),
     returned |-> Cardinality(Returned(s))]

-----------------------------------------------------------------------------
(* A run whose catalogue arrives and parses.                               *)
Fetch(s, d, p) ==
    /\ pc[s] = "idle"
    /\ started < MaxRuns
    /\ started' = started + 1
    /\ pc' = [pc EXCEPT ![s] = "parsed"]
    /\ scope' = [scope EXCEPT ![s] = d]
    /\ payload' = [payload EXCEPT ![s] = p]
    /\ UNCHANGED <<cams, runs, snapshot, edits, aborts>>

(* Unreachable, a login page, an unknown shape: recorded outside any       *)
(* transaction, and thrown.                                                *)
FetchFails(s) ==
    /\ pc[s] = "idle"
    /\ started < MaxRuns
    /\ started' = started + 1
    /\ runs' = Append(runs, Failed)
    /\ UNCHANGED <<cams, pc, payload, scope, snapshot, edits, aborts>>

Load(s) ==
    /\ pc[s] = "parsed"
    /\ pc' = [pc EXCEPT ![s] = "diffed"]
    /\ snapshot' = [snapshot EXCEPT ![s] = cams]
    /\ UNCHANGED <<cams, runs, payload, scope, counters>>

Insertable(s) == \A e \in ToInsert(s) : KeyFree(scope[s], e)

Idle(s) ==
    /\ pc' = [pc EXCEPT ![s] = "idle"]
    /\ snapshot' = [snapshot EXCEPT ![s] = <<>>]
    /\ UNCHANGED <<payload, scope>>

(* The transaction: inserts, updates, absences, the run report and the     *)
(* audit entry.                                                            *)
Commit(s) ==
    /\ pc[s] = "diffed"
    /\ Insertable(s)
    /\ cams' = [i \in DOMAIN cams |->
                   IF i \in Matched(s) THEN Written(s, i)
                   ELSE IF i \in WentAbsent(s) THEN [cams[i] EXCEPT !.status = "absent"]
                   ELSE cams[i]]
               \o [k \in 1..Cardinality(ToInsert(s)) |->
                     Inserted(s, SetToSeq(ToInsert(s))[k])]
    /\ runs' = Append(runs, ReportOf(s))
    /\ Idle(s)
    /\ UNCHANGED counters

(* An insert meets a row that appeared after the load: the transaction     *)
(* aborts, with the report it would have carried.                          *)
Conflict(s) ==
    /\ pc[s] = "diffed"
    /\ ~Insertable(s)
    /\ Idle(s)
    /\ UNCHANGED <<cams, runs, counters>>

(* Any other end of the transaction: a deadlock's victim, a lost           *)
(* connection, an audit append that gave up.                               *)
Abort(s) ==
    /\ pc[s] = "diffed"
    /\ aborts < MaxAborts
    /\ aborts' = aborts + 1
    /\ Idle(s)
    /\ UNCHANGED <<cams, runs, started, edits>>

-----------------------------------------------------------------------------
(* The registry routes.                                                    *)
Edited(rows) ==
    /\ edits < MaxEdits
    /\ edits' = edits + 1
    /\ cams' = rows
    /\ UNCHANGED <<runs, pc, payload, scope, snapshot, started, aborts>>

Typed(d, e, v) ==
    [dept |-> d, ext |-> e, name |-> v, address |-> v, status |-> "active",
     deleted |-> FALSE]

(* POST /cameras; a decommissioned camera's key is still taken. *)
Create(d, e, v) ==
    /\ KeyFree(d, e)
    /\ Edited(Append(cams, Typed(d, e, v)))

(* PATCH /cameras/:id, of the address and of the department. *)
Patch(i, v) ==
    /\ ~cams[i].deleted
    /\ Edited([cams EXCEPT ![i].address = v])

Assign(i, d) ==
    /\ ~cams[i].deleted
    /\ KeyFree(d, cams[i].ext)
    /\ Edited([cams EXCEPT ![i].dept = d])

(* DELETE /cameras/:id. *)
SoftDelete(i) ==
    /\ ~cams[i].deleted
    /\ Edited([cams EXCEPT ![i].deleted = TRUE])

(* One row of a bulk import that meets an existing camera restores it. *)
Import(i, v) ==
    Edited([cams EXCEPT ![i].name = v, ![i].address = v, ![i].deleted = FALSE])

Run(s) ==
    \/ \E d \in Scope, p \in Payload : Fetch(s, d, p)
    \/ FetchFails(s)
    \/ Load(s)
    \/ Commit(s)
    \/ Conflict(s)
    \/ Abort(s)

Edit ==
    \/ \E d \in Scope, e \in External, v \in Value : Create(d, e, v)
    \/ \E i \in DOMAIN cams :
          \/ \E v \in Value : Patch(i, v) \/ Import(i, v)
          \/ \E d \in Department : Assign(i, d)
          \/ SoftDelete(i)

Next == (\E s \in Runner : Run(s)) \/ Edit

Spec == Init /\ [][Next]_vars

-----------------------------------------------------------------------------
(* A run whose load is still the registry when it writes.                  *)
Undisturbed(s) == pc[s] = "diffed" /\ snapshot[s] = cams

(* Only a camera that appeared between the load and the write can stop a   *)
(* sync: no registry content by itself does, a decommissioned camera that  *)
(* is still listed upstream least of all ("one soft-deleted camera would   *)
(* have stopped every subsequent sync dead").                              *)
NothingStopsASync == \A s \in Runner : Undisturbed(s) => Insertable(s)

(* The registry says of scope d what catalogue p says: each listed camera  *)
(* has its one row, active and holding every value the catalogue gave      *)
(* unless it is decommissioned, and each row that is not listed is absent. *)
Settled(rows, d, p) ==
    /\ \A e \in External : p[e] # Unlisted =>
          \E i \in DOMAIN rows :
             /\ rows[i].dept = d /\ rows[i].ext = e
             /\ \/ rows[i].deleted
                \/ /\ rows[i].status = "active"
                   /\ rows[i].name = p[e].name
                   /\ p[e].address \in {Null, rows[i].address}
    /\ \A i \in DOMAIN rows :
          rows[i].dept = d /\ ~rows[i].deleted /\ p[rows[i].ext] = Unlisted =>
             rows[i].status = "absent"

(* A sync nobody disturbs settles its scope and leaves the rows of every   *)
(* other scope as they were.                                               *)
LoneSyncSettles ==
    [][\A s \in Runner : Commit(s) /\ Undisturbed(s) =>
          /\ Settled(cams', scope[s], payload[s])
          /\ \A i \in DOMAIN cams : cams[i].dept # scope[s] => cams'[i] = cams[i]]_vars

(* The report of a sync nobody disturbs counts exactly what the            *)
(* transaction changed, so a report of zeros means a re-sync that wrote    *)
(* nothing.                                                                *)
LoneReportIsExact ==
    [][\A s \in Runner : Commit(s) /\ Undisturbed(s) =>
          LET r == Last(runs')
              Moved(from, to) ==
                  {i \in DOMAIN cams : cams[i].status = from /\ cams'[i].status = to}
          IN  /\ r.added = Len(cams') - Len(cams)
              /\ r.wentAbsent = Cardinality(Moved("active", "absent"))
              /\ r.returned = Cardinality(Moved("absent", "active"))
              /\ r.updated = Cardinality({i \in DOMAIN cams :
                     cams'[i] # cams[i] /\ cams'[i].status = cams[i].status})]_vars

(* However runs and edits interleave, a sync writes an address only where  *)
(* the catalogue supplied that address ("a catalogue field that is absent  *)
(* or null never overwrites a stored value").                              *)
OmittedFieldsAreKept ==
    [][\A s \in Runner : Commit(s) => \A i \in DOMAIN cams :
          cams'[i].address # cams[i].address =>
             /\ Listed(s, cams[i].ext)
             /\ cams'[i].address # Null
             /\ payload[s][cams[i].ext].address = cams'[i].address]_vars

(* A sync nobody disturbs is not stopped, does what its catalogue says,    *)
(* and reports what it did; disturbed or not, it invents no address.       *)
SyncsAreExact ==
    /\ []TypeOK /\ []NothingStopsASync
    /\ LoneSyncSettles /\ LoneReportIsExact /\ OmittedFieldsAreKept
=============================================================================
