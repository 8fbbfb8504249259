---------------------------- MODULE Preservation ----------------------------
(***************************************************************************)
(* The retention clock (packages/shared/src/retention.ts), preservation    *)
(* requests, the question which cameras covered a place and the summary of *)
(* the estate's posture (packages/api/src/services/retention.ts).  A       *)
(* request and its audit entry are one transaction; what a page shows is   *)
(* computed afresh from the clock and from what the registry declares at   *)
(* that moment, and by several statements, each at a moment of its own.    *)
(*                                                                         *)
(* Time is in hours and a day has DayHours of them.                        *)
(***************************************************************************)
EXTENDS Integers, Sequences, FiniteSetsExt, Functions

CONSTANTS
    Camera,
    Department,     \* the owning department of each camera
    Officer,        \* the calls of createPreservationRequest under way
    Days,           \* the retention periods a department may declare
    Undeclared,     \* no period declared
    DayHours,       \* hours in a day
    SoonHours,      \* DEFAULT_EXPIRING_SOON_HOURS
    MaxClock,       \* bound: hours
    MaxEdits,       \* bound: changes of the registry
    MaxRequests     \* bound: committed requests

PeriodAssumption ==
    /\ Days \subseteq Nat /\ Undeclared \notin Days /\ DayHours \in Nat \ {0} /\ SoonHours \in Nat
    /\ IsFiniteSet(Camera) /\ DOMAIN Department = Camera
BoundsAssumption == {MaxClock, MaxEdits, MaxRequests} \subseteq Nat

VARIABLES
    clock,
    camera,     \* the registry: declared period, where it stands, deleted
    edits,      \* registry changes made
    requests,   \* the committed rows of preservation_requests
    entries,    \* the committed audit entries that record one, in order
    tx,         \* each officer's transaction, Idle when there is none
    answer,     \* the availability answer being put together
    still       \* history: the cameras nobody changed since it was begun

vars == <<clock, camera, edits, requests, entries, tx, answer, still>>

Period == Days \union {Undeclared}
Where == {"near", "far", "nowhere"}
Idle == [step |-> "idle"]

-----------------------------------------------------------------------------
(* The retention clock. *)
Expiry(footageAt, days) ==
    IF days = Undeclared THEN Undeclared ELSE footageAt + days * DayHours

Remaining(footageAt, days, now) ==
    IF days = Undeclared THEN Undeclared ELSE Expiry(footageAt, days) - now

State(footageAt, days, now) ==
    IF days = Undeclared THEN "unknown"
    ELSE IF Remaining(footageAt, days, now) <= 0 THEN "expired"
    ELSE IF Remaining(footageAt, days, now) <= SoonHours THEN "expiring_soon"
    ELSE "available"

(* RETENTION_STATE_ORDER *)
Rank == [expired |-> 0, expiring_soon |-> 1, available |-> 2, unknown |-> 3]

-----------------------------------------------------------------------------
(* A request as it stands now. *)
Now(r) == State(r.start, camera[r.camera].days, clock)
-----------------------------------------------------------------------------
Init ==
    /\ clock = 0
    /\ camera \in [Camera -> [days : {Undeclared}, place : Where, deleted : {FALSE}]]
    /\ edits = 0
    /\ requests = {}
    /\ entries = <<>>
    /\ tx = [o \in Officer |-> Idle]
    /\ answer = Idle
    /\ still = {}

Tick ==
    /\ clock < MaxClock
    /\ clock' = clock + 1
    /\ UNCHANGED <<camera, edits, requests, entries, tx, answer, still>>

(* PATCH and DELETE of a camera, and the catalogue: each is one statement. *)
Change(c, row) ==
    /\ edits < MaxEdits
    /\ edits' = edits + 1
    /\ camera' = [camera EXCEPT ![c] = row]
    /\ still' = still \ {c}
    /\ UNCHANGED <<clock, requests, entries, tx, answer>>

Declare(c, d) ==
    /\ ~camera[c].deleted
    /\ camera[c].days # d
    /\ Change(c, [camera[c] EXCEPT !.days = d])

Locate(c, p) ==
    /\ ~camera[c].deleted
    /\ camera[c].place # p
    /\ Change(c, [camera[c] EXCEPT !.place = p])

Delete(c) ==
    /\ ~camera[c].deleted
    /\ Change(c, [camera[c] EXCEPT !.deleted = TRUE])

(* The transaction opens, and with it now(); the camera is read.  A camera *)
(* that is not there answers 404.                                          *)
ReadCamera(o, c, start) ==
    /\ tx[o] = Idle
    /\ ~camera[c].deleted
    /\ start <= clock
    /\ Cardinality(requests) < MaxRequests
    /\ tx' = [tx EXCEPT ![o] =
          [step |-> "audit", camera |-> c, start |-> start, at |-> clock,
           days |-> camera[c].days]]
    /\ UNCHANGED <<clock, camera, edits, requests, entries, answer, still>>

(* What the audit entry and the row say of the request. *)
Snapshot(t) ==
    [camera |-> t.camera, start |-> t.start, at |-> t.at, days |-> t.days,
     expires |-> Expiry(t.start, t.days)]

(* Mutant of WriteEntry: the entry is written outside the transaction. *)
WriteEntryApart(o) ==
    /\ tx[o].step = "audit"
    /\ tx' = [tx EXCEPT ![o].step = "insert"]
    /\ entries' = Append(entries, Snapshot(tx[o]))
    /\ UNCHANGED <<clock, camera, edits, requests, answer, still>>

(* writeAudit nests on a savepoint: its row is not visible until the       *)
(* commit.  (That it ends, and where its row lands, is AuditChain's part.) *)
WriteEntry(o) ==
    /\ tx[o].step = "audit"
    /\ tx' = [tx EXCEPT ![o].step = "insert"]
    /\ UNCHANGED <<clock, camera, edits, requests, entries, answer, still>>

Commit(o) ==
    /\ tx[o].step = "insert"
    /\ entries' = Append(entries, Snapshot(tx[o]))
    /\ requests' = requests \union {[id |-> Len(entries'), camera |-> tx[o].camera,
           start |-> tx[o].start, at |-> tx[o].at, days |-> tx[o].days,
           expires |-> Expiry(tx[o].start, tx[o].days), entry |-> Len(entries')]}
    /\ tx' = [tx EXCEPT ![o] = Idle]
    /\ UNCHANGED <<clock, camera, edits, answer, still>>

(* A statement fails or the connection is lost before the commit. *)
Rollback(o) ==
    /\ tx[o] # Idle
    /\ tx' = [tx EXCEPT ![o] = Idle]
    /\ UNCHANGED <<clock, camera, edits, requests, entries, answer, still>>

-----------------------------------------------------------------------------
(* evidenceAvailability: two statements, one after the other. *)
Live == {c \in Camera : ~camera[c].deleted}

Covering == {c \in Live : camera[c].place = "near"}

Unassessable == {c \in Live : camera[c].place = "nowhere"}

AskCovering ==
    /\ answer.step \in {"idle", "whole", "summary"}
    /\ answer' = [step |-> "half", covering |-> Covering, unassessable |-> {}]
    /\ still' = Live
    /\ UNCHANGED <<clock, camera, edits, requests, entries, tx>>

AskUnassessable ==
    /\ answer.step = "half"
    /\ answer' = [answer EXCEPT !.step = "whole", !.unassessable = Unassessable]
    /\ UNCHANGED <<clock, camera, edits, requests, entries, tx, still>>

(* retentionSummary: by declared period, in total and by department, in    *)
(* three statements.                                                       *)
Declared(cs) == {c \in cs : camera[c].days # Undeclared}
Shortest(cs) ==
    IF Declared(cs) = {} THEN Undeclared ELSE Min({camera[c].days : c \in Declared(cs)})

AskBuckets ==
    /\ answer.step \in {"idle", "whole", "summary"}
    /\ answer' = [step |-> "buckets", live |-> Live,
                  buckets |-> [d \in {camera[c].days : c \in Live} |->
                                  Cardinality({c \in Live : camera[c].days = d})]]
    /\ still' = Live
    /\ UNCHANGED <<clock, camera, edits, requests, entries, tx>>

Posture(cs) ==
    [cameras |-> Cardinality(cs), declared |-> Cardinality(Declared(cs)), shortest |-> Shortest(cs)]

AskTotals ==
    /\ answer.step = "buckets"
    /\ answer' = [step |-> "totals", live |-> answer.live, buckets |-> answer.buckets,
                  total |-> Posture(Live),
                  located |-> Cardinality({c \in Live : camera[c].place # "nowhere"})]
    /\ UNCHANGED <<clock, camera, edits, requests, entries, tx, still>>

AskDepartments ==
    /\ answer.step = "totals"
    /\ answer' = [step |-> "summary", live |-> answer.live, buckets |-> answer.buckets,
                  total |-> answer.total, located |-> answer.located,
                  department |-> [u \in {Department[c] : c \in Live} |->
                                     Posture({c \in Live : Department[c] = u})]]
    /\ UNCHANGED <<clock, camera, edits, requests, entries, tx, still>>

Next ==
    \/ Tick
    \/ \E c \in Camera :
          \/ \E d \in Period : Declare(c, d)
          \/ \E p \in Where : Locate(c, p)
          \/ Delete(c)
    \/ \E o \in Officer :
          \/ \E c \in Camera, start \in 0..MaxClock : ReadCamera(o, c, start)
          \/ WriteEntry(o) \/ Commit(o) \/ Rollback(o)
    \/ AskCovering \/ AskUnassessable
    \/ AskBuckets \/ AskTotals \/ AskDepartments

Spec == Init /\ [][Next]_vars

-----------------------------------------------------------------------------
TypeOK ==
    /\ clock \in 0..MaxClock /\ edits \in 0..MaxEdits
    /\ camera \in [Camera -> [days : Period, place : Where, deleted : BOOLEAN]]
    /\ \A r \in requests : r.camera \in Camera /\ r.entry \in DOMAIN entries
    /\ \A o \in Officer : tx[o].step \in {"idle", "audit", "insert"}
    /\ answer.step \in {"idle", "half", "whole", "buckets", "totals", "summary"} /\ still \subseteq Camera

(* Each request is recorded by exactly one audit entry, which says of the  *)
(* camera, the window and the expiry what the row says, and each entry by  *)
(* one request: no transaction that failed left either of the two.         *)
EveryRequestIsAudited ==
    /\ Cardinality(requests) = Len(entries)
    /\ \A i \in DOMAIN entries :
          \E r \in requests : r.entry = i /\ Snapshot(r) = entries[i]

(* Time alone only ever makes a request more urgent: it moves down the     *)
(* queue's order only when the registry declares another period for the    *)
(* camera.                                                                 *)
OnlyADeclarationRelieves ==
    [][\A r \in requests :
          camera[r.camera].days = camera'[r.camera].days => Rank[Now(r)'] <= Rank[Now(r)]]_vars

(* An availability answer leaves out no camera that stood still while it   *)
(* was put together: it is covering, known to be elsewhere, or in the list *)
(* of those nobody can place; and in no list it does not belong to.         *)
AnswerAccountsForCameras ==
    answer.step = "whole" =>
        \A c \in still :
            /\ (c \in answer.covering) = (camera[c].place = "near")
            /\ (c \in answer.unassessable) = (camera[c].place = "nowhere")

(* The three ways a summary counts the cameras agree, if nobody changed    *)
(* one in between: the shortest period is of a bucket that has cameras, a  *)
(* camera without a period is in no department's count of those with one,  *)
(* and none is counted as a period of nothing.                             *)
SummaryAgrees ==
    answer.step = "summary" /\ still = answer.live =>
        LET b == answer.buckets
            u == answer.department
            t == answer.total
            known == DOMAIN b \ {Undeclared}
        IN  /\ SumFunction(b) = t.cameras
            /\ SumFunctionOnSet(b, known) = t.declared
            /\ SumFunction([d \in DOMAIN u |-> u[d].cameras]) = t.cameras
            /\ SumFunction([d \in DOMAIN u |-> u[d].declared]) = t.declared
            /\ t.shortest = IF known = {} THEN Undeclared ELSE Min(known)
            /\ \A d \in DOMAIN u : u[d].shortest = Undeclared <=> u[d].declared = 0
            /\ \A d \in DOMAIN u : u[d].shortest \in known \union {Undeclared}

(* Requests and cameras are accounted for: each request by one entry, each *)
(* camera by one list of an answer and alike by each count of a summary;   *)
(* and only a declaration relieves (createPreservationRequest,             *)
(* evidenceAvailability, retentionSummary, describeRetention).             *)
NothingIsUnaccounted ==
    /\ [](TypeOK /\ EveryRequestIsAudited /\ AnswerAccountsForCameras /\ SummaryAgrees)
    /\ OnlyADeclarationRelieves
=============================================================================
