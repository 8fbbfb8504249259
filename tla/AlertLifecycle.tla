--------------------------- MODULE AlertLifecycle ---------------------------
(***************************************************************************)
(* Officers moving one alert through its lifecycle at the same time        *)
(* (transitionAlert, packages/api/src/services/alerts.ts, over the graph   *)
(* ALERT_TRANSITIONS of packages/shared/src/alert.ts).  A transition is    *)
(* one transaction: it locks the row, checks the status it then reads,     *)
(* updates the row and appends the audit entry.                            *)
(***************************************************************************)
EXTENDS Naturals, Sequences

CONSTANTS
    Officer,
    NoOfficer,      \* null in acked_by, and an unlocked row
    MaxRequests     \* bound of the model: transitions asked for

ASSUME OfficerAssumption == NoOfficer \notin Officer /\ MaxRequests \in Nat

VARIABLES
    status, ackedBy,    \* columns of the committed row
    trail,              \* the alert's committed audit entries
    lock,               \* the transaction that holds the row lock
    pc,                 \* where each officer's request is
    to,                 \* the status it asks for
    current,            \* the status it read under the lock
    requests            \* requests so far

row == <<status, ackedBy, trail>>
vars == <<row, lock, pc, to, current, requests>>

Status == {"new", "ack", "dismissed", "escalated"}

Permitted ==
    [new |-> {"ack", "dismissed", "escalated"},
     ack |-> {"dismissed", "escalated"},
     escalated |-> {"ack", "dismissed"},
     dismissed |-> {}]

CanTransition(s, t) == t \in Permitted[s]

Entry == [from : Status, to : Status, by : Officer]

TypeOK ==
    /\ status \in Status
    /\ ackedBy \in Officer \union {NoOfficer}
    /\ trail \in Seq(Entry)
    /\ lock \in Officer \union {NoOfficer}
    /\ pc \in [Officer -> {"idle", "lock", "check", "write"}]
    /\ to \in [Officer -> Status]
    /\ current \in [Officer -> Status]
    /\ requests \in 0..MaxRequests
    /\ status = "new" => ackedBy = NoOfficer       \* alerts_ack_ck

Init ==
    /\ status = "new"
    /\ ackedBy = NoOfficer
    /\ trail = <<>>
    /\ lock = NoOfficer
    /\ pc = [o \in Officer |-> "idle"]
    /\ to = [o \in Officer |-> "new"]
    /\ current = [o \in Officer |-> "new"]
    /\ requests = 0

-----------------------------------------------------------------------------
(* POST /alerts/:id/transition. *)
Request(o, t) ==
    /\ pc[o] = "idle"
    /\ requests < MaxRequests
    /\ requests' = requests + 1
    /\ to' = [to EXCEPT ![o] = t]
    /\ pc' = [pc EXCEPT ![o] = "lock"]
    /\ UNCHANGED <<row, lock, current>>

(* Mutant of Lock: a plain SELECT. *)
LockNothing(o) ==
    /\ pc[o] = "lock"
    /\ lock' = o
    /\ current' = [current EXCEPT ![o] = status]
    /\ pc' = [pc EXCEPT ![o] = "check"]
    /\ UNCHANGED <<row, to, requests>>

(* SELECT ... FOR UPDATE waits for the row and reads it as last committed. *)
Lock(o) ==
    /\ pc[o] = "lock"
    /\ lock = NoOfficer
    /\ lock' = o
    /\ current' = [current EXCEPT ![o] = status]
    /\ pc' = [pc EXCEPT ![o] = "check"]
    /\ UNCHANGED <<row, to, requests>>

Check(o) ==
    /\ pc[o] = "check"
    /\ CanTransition(current[o], to[o])
    /\ pc' = [pc EXCEPT ![o] = "write"]
    /\ UNCHANGED <<row, lock, to, current, requests>>

(* AlertTransitionError, a failed statement or a dead connection: the      *)
(* transaction rolls back.                                                 *)
Rollback(o) ==
    /\ pc[o] \in {"check", "write"}
    /\ lock' = NoOfficer
    /\ pc' = [pc EXCEPT ![o] = "idle"]
    /\ UNCHANGED <<row, to, current, requests>>

(* The update and its audit entry become visible together. *)
Commit(o) ==
    /\ pc[o] = "write"
    /\ status' = to[o]
    /\ ackedBy' = IF to[o] = "ack" THEN o ELSE ackedBy
    /\ trail' = Append(trail, [from |-> current[o], to |-> to[o], by |-> o])
    /\ lock' = NoOfficer
    /\ pc' = [pc EXCEPT ![o] = "idle"]
    /\ UNCHANGED <<to, current, requests>>

Step(o) == Lock(o) \/ Check(o) \/ Commit(o) \/ Rollback(o)

Next ==
    \E o \in Officer : Step(o) \/ \E t \in Status : Request(o, t)

Spec == Init /\ [][Next]_vars

-----------------------------------------------------------------------------
(* The audit trail tells the alert's whole story: it starts at new, each   *)
(* entry starts where the one before ended, every move is one the graph    *)
(* permits, and the last one explains the status the row has now.          *)
TrailExplainsStatus ==
    /\ \A i \in 1..Len(trail) :
          /\ CanTransition(trail[i].from, trail[i].to)
          /\ trail[i].from = IF i = 1 THEN "new" ELSE trail[i - 1].to
    /\ status = IF trail = <<>> THEN "new" ELSE trail[Len(trail)].to

(* A dismissal is final, whatever was clicked at the same instant. *)
DismissalIsFinal == [][status = "dismissed" => UNCHANGED row]_vars

-----------------------------------------------------------------------------
(* The inductive invariant: a transaction past its lock holds the row, so  *)
(* what it read is still what the row says.                                *)
LockInv ==
    \A o \in Officer :
        /\ pc[o] \in {"check", "write"} => lock = o /\ current[o] = status
        /\ pc[o] = "write" => CanTransition(current[o], to[o])

IInv == TypeOK /\ LockInv /\ TrailExplainsStatus
=============================================================================
