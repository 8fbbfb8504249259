----------------------------- MODULE AlertDedupe -----------------------------
(***************************************************************************)
(* How plate reads that hit one watchlist entry at one camera become       *)
(* alerts (AlertEngine.raise and upsert, packages/api/src/services/        *)
(* alerts.ts).  The table holds the alerts of one dedupe key; a row is     *)
(* identified by its tumbling window, as the unique index on               *)
(* (dedupe_key, dedupe_window_start) makes it.  Each SQL statement commits *)
(* on its own: the probe, the insert and the audit entry are three steps.  *)
(***************************************************************************)
EXTENDS Integers, FiniteSets, Functions

CONSTANTS
    Writer,         \* engines that raise alerts: one per consumer process
    Window,         \* length of the dedupe window
    MaxTs,          \* bound of the model: sighting timestamps
    MaxReads,       \* bound of the model: reads offered
    MaxFailures,    \* bound of the model: crashes and refused statements
    NoAlert         \* the row of a tumbling window without an alert

Ts == 0..MaxTs

Alert == [first : Ts, last : Ts, count : Nat \ {0}]

ASSUME DedupeAssumption ==
    /\ IsFiniteSet(Writer)
    /\ Window \in Nat \ {0}
    /\ MaxTs \in Nat
    /\ MaxReads \in Nat
    /\ MaxFailures \in Nat
    /\ NoAlert \notin Alert

VARIABLES
    alerts,         \* the alerts of this key, by tumbling window
    dismissed,      \* those an officer has dismissed
    audited,        \* those with an alert.raise entry in the audit log
    pc,             \* where each writer is in raise()
    ts,             \* the timestamp of the sighting it is raising
    row,            \* the row its probe selected, or that it has just created
    offered,        \* reads offered so far
    counted,        \* history: reads folded into an alert
    raisers,        \* history: writers that have been offered a read
    failures        \* failures so far

table == <<alerts, dismissed, audited>>
memory == <<pc, ts, row>>
vars == <<table, memory, offered, counted, raisers, failures>>

(* dedupe_window_start, in units of the window. *)
Bucket(t) == t \div Window

Buckets == 0..MaxTs

Raised == {b \in Buckets : alerts[b] # NoAlert}

TypeOK ==
    /\ alerts \in [Buckets -> Alert \union {NoAlert}]
    /\ dismissed \subseteq Raised
    /\ audited \subseteq Raised
    /\ pc \in [Writer -> {"idle", "probe", "bump", "insert", "audit"}]
    /\ ts \in [Writer -> Ts]
    /\ row \in [Writer -> Buckets]
    /\ offered \in 0..MaxReads
    /\ counted \in Nat
    /\ raisers \subseteq Writer
    /\ failures \in 0..MaxFailures

Init ==
    /\ alerts = [b \in Buckets |-> NoAlert]
    /\ dismissed = {}
    /\ audited = {}
    /\ pc = [w \in Writer |-> "idle"]
    /\ ts = [w \in Writer |-> 0]
    /\ row = [w \in Writer |-> 0]
    /\ offered = 0
    /\ counted = 0
    /\ raisers = {}
    /\ failures = 0

-----------------------------------------------------------------------------
(* A read that hit the entry reaches raise().  Reads arrive in the order   *)
(* the streams deliver them, which need not be the order of their times.   *)
Offer(w, t) ==
    /\ pc[w] = "idle"
    /\ offered < MaxReads
    /\ offered' = offered + 1
    /\ ts' = [ts EXCEPT ![w] = t]
    /\ pc' = [pc EXCEPT ![w] = "probe"]
    /\ raisers' = raisers \union {w}
    /\ UNCHANGED <<table, row, counted, failures>>

(* last_seen_at lies in [t - Window, t + Window]. *)
InWindow(b, t) ==
    /\ alerts[b] # NoAlert
    /\ t <= alerts[b].last + Window
    /\ alerts[b].last <= t + Window

(* Mutants of Candidates: no upper bound on last_seen_at; dismissed alerts *)
(* are skipped.                                                            *)
CandidatesUnbounded(t) == {b \in Raised : t <= alerts[b].last + Window}
CandidatesOpen(t) == {b \in Buckets \ dismissed : InWindow(b, t)}

(* The rows the probe may bump, whatever their status. *)
Candidates(t) == {b \in Buckets : InWindow(b, t)}

(* order by last_seen_at desc limit 1 *)
Selected(b, t) ==
    b \in Candidates(t) /\ \A c \in Candidates(t) : alerts[c].last <= alerts[b].last

(* The sub-select of the sliding probe, over the statement's snapshot. *)
Probe(w) ==
    /\ pc[w] = "probe"
    /\ \/ \E b \in Buckets :
            /\ Selected(b, ts[w])
            /\ row' = [row EXCEPT ![w] = b]
            /\ pc' = [pc EXCEPT ![w] = "bump"]
       \/ /\ Candidates(ts[w]) = {}
          /\ pc' = [pc EXCEPT ![w] = "insert"]
          /\ UNCHANGED row
    /\ UNCHANGED <<table, ts, offered, counted, raisers, failures>>

(* Mutant of Folded: last_seen_at is assigned rather than kept greatest. *)
FoldedAsLast(a, t) == [first |-> a.first, last |-> t, count |-> a.count + 1]

(* One more sighting on alert a: sighting_count and last_seen_at. *)
Folded(a, t) ==
    [first |-> a.first, last |-> IF t > a.last THEN t ELSE a.last, count |-> a.count + 1]

(* The update of the selected row, by then locked; the row's newest        *)
(* version is what it changes.                                             *)
Bump(w) ==
    /\ pc[w] = "bump"
    /\ alerts' = [alerts EXCEPT ![row[w]] = Folded(@, ts[w])]
    /\ counted' = counted + 1
    /\ pc' = [pc EXCEPT ![w] = "idle"]
    /\ UNCHANGED <<dismissed, audited, ts, row, offered, raisers, failures>>

InsertDoNothing(w) ==
    LET b == Bucket(ts[w]) IN
    /\ pc[w] = "insert"
    /\ IF alerts[b] = NoAlert
         THEN /\ alerts' = [alerts EXCEPT ![b] = [first |-> ts[w], last |-> ts[w], count |-> 1]]
              /\ row' = [row EXCEPT ![w] = b]
              /\ pc' = [pc EXCEPT ![w] = "audit"]
         ELSE /\ pc' = [pc EXCEPT ![w] = "idle"]
              /\ UNCHANGED <<alerts, row>>
    /\ counted' = counted + 1
    /\ UNCHANGED <<dismissed, audited, ts, offered, raisers, failures>>

(* INSERT ... ON CONFLICT (dedupe_key, dedupe_window_start) DO UPDATE;     *)
(* only a row that did not exist is reported as created.                   *)
Insert(w) ==
    LET b == Bucket(ts[w]) IN
    /\ pc[w] = "insert"
    /\ IF alerts[b] = NoAlert
         THEN /\ alerts' = [alerts EXCEPT ![b] = [first |-> ts[w], last |-> ts[w], count |-> 1]]
              /\ row' = [row EXCEPT ![w] = b]
              /\ pc' = [pc EXCEPT ![w] = "audit"]
         ELSE /\ alerts' = [alerts EXCEPT ![b] = Folded(@, ts[w])]
              /\ pc' = [pc EXCEPT ![w] = "idle"]
              /\ UNCHANGED row
    /\ counted' = counted + 1
    /\ UNCHANGED <<dismissed, audited, ts, offered, raisers, failures>>

(* The alert.raise entry, written after the alert has committed. *)
AuditRaise(w) ==
    /\ pc[w] = "audit"
    /\ audited' = audited \union {row[w]}
    /\ pc' = [pc EXCEPT ![w] = "idle"]
    /\ UNCHANGED <<alerts, dismissed, ts, row, offered, counted, raisers, failures>>

(* A statement fails or the process dies: raise() does not resume. *)
Fail(w) ==
    /\ pc[w] # "idle"
    /\ failures < MaxFailures
    /\ failures' = failures + 1
    /\ pc' = [pc EXCEPT ![w] = "idle"]
    /\ UNCHANGED <<table, ts, row, offered, counted, raisers>>

(* transitionAlert(..., 'dismissed') by an officer, at any moment. *)
Dismiss(b) ==
    /\ b \in Raised \ dismissed
    /\ dismissed' = dismissed \union {b}
    /\ UNCHANGED <<alerts, audited, memory, offered, counted, raisers, failures>>

Step(w) == Probe(w) \/ Bump(w) \/ Insert(w) \/ AuditRaise(w)

Next ==
    \/ \E w \in Writer, t \in Ts : Offer(w, t)
    \/ \E w \in Writer : Step(w) \/ Fail(w)
    \/ \E b \in Buckets : Dismiss(b)

Spec == Init /\ [][Next]_vars

-----------------------------------------------------------------------------
(* No two alerts of the key were last seen within a window of each other.  *)
Separated ==
    \A b, c \in Raised : b # c =>
        \/ alerts[b].last > alerts[c].last + Window
        \/ alerts[c].last > alerts[b].last + Window

OneRaiser == \A v, w \in raisers : v = w

(* "The same vehicle at the same camera inside one window is one alert":   *)
(* so it is when one engine raises the alerts of the key, in whatever      *)
(* order the sightings come and whether or not an alert was dismissed.     *)
OneAlertPerWindow == OneRaiser => Separated

Count == [b \in Buckets |-> IF alerts[b] = NoAlert THEN 0 ELSE alerts[b].count]

UnderWay == {w \in Writer : pc[w] \in {"probe", "bump", "insert"}}

(* No sighting is lost between concurrent writers, and none is counted     *)
(* twice: the counts of the alerts add up to the reads that were folded    *)
(* in, and those are reads offered and no longer under way.                *)
EverySightingCounted ==
    /\ SumFunctionOnSet(Count, Buckets) = counted
    /\ counted + Cardinality(UnderWay) <= offered

(* A read that is being folded into an alert belongs to its span, one      *)
(* window of slack before the first sighting and after the last, even when *)
(* the alert moved on after the probe had selected it.                     *)
FoldedReadBelongs ==
    \A w \in Writer : pc[w] = "bump" =>
        /\ row[w] \in Raised
        /\ alerts[row[w]].first <= ts[w] + Window
        /\ ts[w] <= alerts[row[w]].last + Window

(* An alert never looks older than it is, nor starts at another time, nor  *)
(* loses a sighting, whichever writer touches it last.                     *)
AlertsOnlyGrow ==
    [][\A b \in Raised :
        /\ alerts'[b] # NoAlert
        /\ alerts'[b].first = alerts[b].first
        /\ alerts'[b].last >= alerts[b].last
        /\ alerts'[b].count >= alerts[b].count]_vars

BeingAudited == {row[w] : w \in {v \in Writer : pc[v] = "audit"}}

(* "One row per alert actually created": each alert that nobody is still   *)
(* raising and that has no entry in the audit log is the trace of a        *)
(* failure of its own.                                                     *)
UnauditedComesFromFailure ==
    Cardinality(Raised \ (audited \union BeingAudited)) <= failures

-----------------------------------------------------------------------------
(* The inductive invariant.  Its unconditional part carries the types,     *)
(* FoldedReadBelongs and AlertsOnlyGrow; the rest is what a lone raiser    *)
(* keeps between its probe and its write.                                  *)
SpanInv ==
    \A b \in Raised : Bucket(alerts[b].first) = b /\ alerts[b].first <= alerts[b].last

WriterInv ==
    \A w \in Writer :
        /\ pc[w] # "idle" => w \in raisers
        /\ pc[w] = "audit" => row[w] \in Raised

ProbeInv ==
    \A w \in Writer :
        /\ pc[w] = "bump" => Selected(row[w], ts[w])
        /\ pc[w] = "insert" => Candidates(ts[w]) = {}

IInv ==
    /\ TypeOK /\ SpanInv /\ WriterInv /\ FoldedReadBelongs
    /\ OneRaiser => Separated /\ ProbeInv

(* No read is lost without a trace: each is counted by its alert, and an   *)
(* alert without its audit entry comes from a failure.                     *)
NothingGoesMissing == EverySightingCounted /\ UnauditedComesFromFailure
=============================================================================
